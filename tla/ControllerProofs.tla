-------------------------- MODULE ControllerProofs --------------------------
(***************************************************************************)
(* Theorems about the controller service and the revocations it announces, *)
(* for any sets of networks, nodes and concurrent requests, any documents  *)
(* and any bounds.                                                         *)
(*                                                                         *)
(* The first part is about the dictionary: what is written into a          *)
(* configuration is what an agent reads in it.                             *)
(*                                                                         *)
(* The second part is about behaviours.                                    *)
(* Every step of a request is first reduced to one of nine outcomes, by    *)
(* what it does to the members, to the request's own variables and to      *)
(* ipamMu; the invariants are then proved outcome by outcome.              *)
(***************************************************************************)
EXTENDS Revocation, FiniteSetTheorems, WellFoundedInduction, TLAPS

-----------------------------------------------------------------------------
(* Induction. *)

(* Every set of natural numbers that is not empty has a least one. *)
LEMMA LeastNatural ==
    ASSUME NEW T, T \subseteq Nat, T # {}
    PROVE  \E n \in T : \A m \in T : n <= m
  <1> DEFINE R == OpToRel(<, Nat)
  <1>1. IsWellFoundedOn(R, Nat)
    BY NatLessThanWellFounded
  <1>2. \A x, y \in Nat : x < y => <<x, y>> \in R
    BY DEF OpToRel
  <1> HIDE DEF R
  <1>3. PICK x \in T : \A y \in T : ~ (<<y, x>> \in R)
    BY <1>1, WFMin
  <1>4. \A y \in T : ~ (y < x)
    BY <1>2, <1>3
  <1>5. \A y \in T : x <= y
    BY <1>4
  <1> QED  BY <1>5

(* What follows for a set of indices. *)
LEMMA LeastIndex ==
    ASSUME NEW a \in Nat, NEW b \in Nat, NEW T, T \subseteq a..b, T # {}
    PROVE  \E n \in T : n \in a..b /\ n - 1 \notin T
  <1>1. T \subseteq Nat
    OBVIOUS
  <1>2. PICK n \in T : \A m \in T : n <= m
    BY <1>1, LeastNatural
  <1>3. n \in Nat /\ ~ (n <= n - 1)
    BY <1>1, <1>2
  <1> QED  BY <1>2, <1>3

-----------------------------------------------------------------------------
(* Sequences put one after the other. *)

(* Concatenation. *)
LEMMA Concatenated ==
    ASSUME NEW S, NEW s \in Seq(S), NEW t \in Seq(S)
    PROVE  /\ s \o t \in Seq(S) /\ Len(s) \in Nat /\ Len(t) \in Nat
           /\ Len(s \o t) = Len(s) + Len(t)
           /\ \A j \in 1..Len(s) : (s \o t)[j] = s[j]
           /\ \A j \in 1..Len(t) : (s \o t)[Len(s) + j] = t[j]
    OBVIOUS

\* g[i] is the first i of the sequences put together.
IsFlat(g, seqs) ==
    g = [i \in 1..Len(seqs) |-> IF i = 1 THEN seqs[i] ELSE g[i-1] \o seqs[i]]

(* FlattenSeq is the last value of the function it defines recursively. *)
LEMMA FlattenSeqIsFlat ==
    ASSUME NEW seqs, Len(seqs) # 0
    PROVE  FlattenSeq(seqs) = (CHOOSE g : IsFlat(g, seqs))[Len(seqs)]
    BY Zenon DEF FlattenSeq, IsFlat

(* That recursion has a solution, because one for k sequences extends to  *)
(* one for k + 1.                                                          *)
LEMMA FlatExists ==
    ASSUME NEW n \in Nat, NEW S, NEW seqs \in [1..n -> Seq(S)]
    PROVE  \E g \in [1..n -> Seq(S)] : IsFlat(g, seqs)
  <1> DEFINE Part(g, k) == /\ g \in [1..k -> Seq(S)]
                           /\ \A i \in 1..k : g[i] = IF i = 1 THEN seqs[i] ELSE g[i-1] \o seqs[i]
             bad == {k \in 0..n : ~ \E g : Part(g, k)}
  <1>1. bad = {}
    <2>1. SUFFICES ASSUME bad # {} PROVE FALSE
      OBVIOUS
    <2>2. 0 \in Nat /\ bad \subseteq 0..n
      OBVIOUS
    <2>3. PICK k \in bad : k \in 0..n /\ k - 1 \notin bad
      <3> HIDE DEF bad
      <3> QED  BY <2>1, <2>2, LeastIndex
    <2>4. k \in 0..n
      BY <2>3
    <2>5. CASE k = 0
      <3>1. Part([i \in 1..0 |-> <<>>], 0)
        OBVIOUS
      <3> QED  BY <2>3, <2>5, <3>1
    <2>6. CASE k # 0
      <3>1. k - 1 \in 0..n /\ k - 1 \notin bad
        BY <2>3, <2>4, <2>6
      <3>2. PICK g : Part(g, k - 1)
        BY <3>1
      <3> DEFINE last == IF k = 1 THEN seqs[k] ELSE g[k-1] \o seqs[k]
                 h == [i \in 1..k |-> IF i = k THEN last ELSE g[i]]
      <3>3. last \in Seq(S)
        BY <2>4, <2>6, <3>2
      <3>4. h \in [1..k -> Seq(S)]
        <4> HIDE DEF last
        <4> QED  BY <2>4, <2>6, <3>2, <3>3
      <3>5. ASSUME NEW i \in 1..k
            PROVE  h[i] = IF i = 1 THEN seqs[i] ELSE h[i-1] \o seqs[i]
        <4>1. CASE i = k
          <5>1. h[k] = last
            BY <4>1
          <5>2. k # 1 => h[k-1] = g[k-1]
            BY <2>4, <2>6
          <5> QED  BY <4>1, <5>1, <5>2
        <4>2. CASE i # k
          <5>1. i \in 1..k-1 /\ h[i] = g[i]
            BY <2>4, <4>2
          <5>2. i # 1 => h[i-1] = g[i-1]
            BY <2>4, <4>2
          <5> QED  BY <3>2, <5>1, <5>2
        <4> QED  BY <4>1, <4>2
      <3>6. Part(h, k)
        <4> HIDE DEF h
        <4> QED  BY <3>4, <3>5
      <3> QED  BY <2>3, <3>6
    <2> QED  BY <2>5, <2>6
  <1>2. PICK g : Part(g, n)
    <2>1. n \in 0..n
      OBVIOUS
    <2> HIDE DEF Part
    <2> QED  BY <1>1, <2>1
  <1>3. Len(seqs) = n
    OBVIOUS
  <1>4. g = [i \in 1..n |-> g[i]]
    BY <1>2
  <1>5. IsFlat(g, seqs)
    BY <1>2, <1>3, <1>4 DEF IsFlat
  <1> QED  BY <1>2, <1>5

\* flat is the n sequences put together, of which the i-th starts after off[i].
Layout(off, n, seqs, flat) ==
    /\ off \in [1..n+1 -> Nat]
    /\ off[1] = 0 /\ Len(flat) = off[n+1]
    /\ \A i \in 1..n :
          /\ off[i+1] = off[i] + Len(seqs[i])
          /\ \A j \in 1..Len(seqs[i]) : flat[off[i] + j] = seqs[i][j]

(* FlattenSeq puts the sequences one after the other. *)
LEMMA Flattened ==
    ASSUME NEW n \in Nat, NEW S, NEW seqs \in [1..n -> Seq(S)]
    PROVE  /\ FlattenSeq(seqs) \in Seq(S)
           /\ \E off : Layout(off, n, seqs, FlattenSeq(seqs))
  <1>1. Len(seqs) = n
    OBVIOUS
  <1>2. CASE n = 0
    <2>1. FlattenSeq(seqs) = seqs
      BY <1>1, <1>2 DEF FlattenSeq
    <2>2. seqs = << >> /\ seqs \in Seq(S)
      BY <1>2
    <2>3. Layout([i \in 1..1 |-> 0], n, seqs, seqs)
      BY <1>1, <1>2 DEF Layout
    <2> QED  BY <2>1, <2>2, <2>3
  <1>3. CASE n # 0
    <2> DEFINE g == CHOOSE g : IsFlat(g, seqs)
               flat == FlattenSeq(seqs)
    <2>1. flat = g[n]
      BY <1>1, <1>3, FlattenSeqIsFlat
    <2>2. IsFlat(g, seqs)
      BY FlatExists
    <2> HIDE DEF g
    <2>3. \A i \in 1..n : g[i] = IF i = 1 THEN seqs[i] ELSE g[i-1] \o seqs[i]
      BY <1>1, <2>2 DEF IsFlat
    <2>4. \A i \in 1..n : g[i] \in Seq(S)
      <3> DEFINE bad == {i \in 1..n : g[i] \notin Seq(S)}
      <3>1. SUFFICES ASSUME bad # {} PROVE FALSE
        OBVIOUS
      <3>2. PICK k \in bad : k \in 1..n /\ k - 1 \notin bad
        <4>1. bad \subseteq 1..n /\ 1 \in Nat
          OBVIOUS
        <4> HIDE DEF bad
        <4> QED  BY <3>1, <4>1, LeastIndex
      <3>3. seqs[k] \in Seq(S) /\ g[k] \notin Seq(S)
        BY <3>2
      <3>4. CASE k = 1
        BY <2>3, <3>2, <3>3, <3>4
      <3>5. CASE k # 1
        <4>1. k - 1 \in 1..n
          BY <3>2, <3>5
        <4>2. g[k-1] \in Seq(S)
          BY <3>2, <4>1
        <4>3. g[k] = g[k-1] \o seqs[k]
          BY <2>3, <3>2, <3>5
        <4> QED  BY <3>3, <4>2, <4>3, Concatenated
      <3> QED  BY <3>4, <3>5
    <2> DEFINE off == [i \in 1..n+1 |-> IF i = 1 THEN 0 ELSE Len(g[i-1])]
    <2>5. /\ off \in [1..n+1 -> Nat] /\ off[1] = 0 /\ Len(flat) = off[n+1]
          /\ \A i \in 1..n : off[i+1] = Len(g[i])
      <3>1. \A i \in 1..n : Len(g[i]) \in Nat
        BY <2>4
      <3>2. \A i \in 1..n+1 : i # 1 => i - 1 \in 1..n
        OBVIOUS
      <3>3. \A i \in 1..n : i + 1 \in 1..n+1 /\ i + 1 # 1 /\ (i + 1) - 1 = i
        OBVIOUS
      <3>4. 1 \in 1..n+1 /\ n \in 1..n
        BY <1>3
      <3> HIDE DEF flat
      <3> QED  BY <2>1, <3>1, <3>2, <3>3, <3>4
    <2> HIDE DEF off
    <2>6. ASSUME NEW i \in 1..n
          PROVE  /\ off[i+1] = off[i] + Len(seqs[i]) /\ off[i] \in Nat /\ Len(seqs[i]) \in Nat
                 /\ \A j \in 1..Len(seqs[i]) : g[i][off[i] + j] = seqs[i][j]
      <3>1. g[i] \in Seq(S) /\ seqs[i] \in Seq(S) /\ off[i+1] = Len(g[i])
        BY <2>4, <2>5
      <3>2. CASE i = 1
        <4>1. off[i] = 0 /\ g[i] = seqs[i]
          BY <2>3, <2>5, <3>2
        <4> QED  BY <3>1, <4>1
      <3>3. CASE i # 1
        <4> DEFINE k == i - 1
        <4>1. k \in 1..n /\ k + 1 = i
          BY <3>3
        <4>2. g[i] = g[k] \o seqs[i]
          BY <2>3, <3>3
        <4> HIDE DEF k
        <4>3. off[i] = Len(g[k]) /\ g[k] \in Seq(S)
          BY <2>4, <2>5, <4>1
        <4> QED  BY <3>1, <4>2, <4>3, Concatenated
      <3> QED  BY <3>2, <3>3
    <2>7. ASSUME NEW i \in 1..n, NEW j \in 1..Len(seqs[i])
          PROVE  flat[off[i] + j] = seqs[i][j]
      <3> DEFINE p == off[i] + j
                 Kept(k) == p \in 1..Len(g[k]) /\ g[k][p] = seqs[i][j]
                 bad == {k \in i..n : ~ Kept(k)}
      <3>0. Kept(i)
        <4>1. off[i+1] = Len(g[i])
          BY <2>5
        <4>2. off[i+1] = off[i] + Len(seqs[i]) /\ off[i] \in Nat /\ Len(seqs[i]) \in Nat
          BY <2>6
        <4>3. g[i][p] = seqs[i][j]
          BY <2>6
        <4>4. p \in 1..Len(g[i])
          BY <4>1, <4>2
        <4> QED  BY <4>3, <4>4
      <3> HIDE DEF p
      <3>1. bad = {}
        <4>1. SUFFICES ASSUME bad # {} PROVE FALSE
          OBVIOUS
        <4>2. PICK k \in bad : k \in i..n /\ k - 1 \notin bad
          <5>1. bad \subseteq i..n /\ i \in Nat
            OBVIOUS
          <5> HIDE DEF bad
          <5> QED  BY <4>1, <5>1, LeastIndex
        <4>3. CASE k = i
          BY <3>0, <4>2, <4>3
        <4>4. CASE k # i
          <5> DEFINE h == k - 1
          <5>1. h \in i..n /\ k \in 1..n /\ k # 1 /\ h \in 1..n
            BY <4>2, <4>4
          <5>2. Kept(h)
            BY <4>2, <5>1
          <5>3. g[k] = g[h] \o seqs[k] /\ g[h] \in Seq(S) /\ seqs[k] \in Seq(S)
            BY <2>3, <2>4, <5>1
          <5> HIDE DEF h
          <5> DEFINE s == g[h]
                     t == seqs[k]
          <5>4. s \in Seq(S) /\ t \in Seq(S) /\ g[k] = s \o t /\ p \in 1..Len(s)
                /\ s[p] = seqs[i][j]
            BY <5>2, <5>3
          <5> HIDE DEF s, t
          <5>5. /\ Len(s) \in Nat /\ Len(t) \in Nat /\ Len(s \o t) = Len(s) + Len(t)
                /\ (s \o t)[p] = s[p]
            BY <5>4, Concatenated
          <5>6. p \in 1..Len(s \o t)
            BY <5>4, <5>5
          <5>7. Kept(k)
            BY <5>4, <5>5, <5>6
          <5> QED  BY <4>2, <5>7
        <4> QED  BY <4>3, <4>4
      <3>2. n \in i..n
        OBVIOUS
      <3>3. n \notin bad
        <4> HIDE DEF bad
        <4> QED  BY <3>1
      <3> QED  BY <2>1, <3>2, <3>3 DEF p
    <2>8. Layout(off, n, seqs, flat)
      <3> HIDE DEF flat
      <3> QED  BY <2>5, <2>6, <2>7 DEF Layout
    <2>9. flat \in Seq(S)
      BY <1>3, <2>1, <2>4
    <2> QED  BY <2>8, <2>9
  <1> QED  BY <1>2, <1>3

(* The sequences of a layout are in order. *)
LEMMA LayoutOrder ==
    ASSUME NEW n \in Nat, NEW seqs, NEW off, NEW flat, Layout(off, n, seqs, flat),
           \A i \in 1..n : Len(seqs[i]) \in Nat,
           NEW i \in 1..n+1, NEW k \in i..n+1
    PROVE  off[i] <= off[k]
  <1> DEFINE bad == {m \in i..n+1 : ~ (off[i] <= off[m])}
  <1>0. \A m \in i..n+1 : off[m] \in Nat
    BY DEF Layout
  <1>1. SUFFICES ASSUME bad # {} PROVE FALSE
    OBVIOUS
  <1>2. PICK m \in bad : m \in i..n+1 /\ m - 1 \notin bad
    <2>1. bad \subseteq i..n+1 /\ i \in Nat /\ n + 1 \in Nat
      OBVIOUS
    <2> HIDE DEF bad
    <2> QED  BY <1>1, <2>1, LeastIndex
  <1>3. CASE m = i
    BY <1>0, <1>2, <1>3
  <1>4. CASE m # i
    <2> DEFINE h == m - 1
    <2>1. h \in i..n+1 /\ h \in 1..n /\ h + 1 = m
      BY <1>2, <1>4
    <2>2. off[i] <= off[h]
      BY <1>2, <2>1
    <2> HIDE DEF h
    <2>3. off[m] = off[h] + Len(seqs[h]) /\ Len(seqs[h]) \in Nat
      BY <2>1 DEF Layout
    <2>4. off[i] \in Nat /\ off[h] \in Nat
      BY <1>0, <2>1
    <2>5. off[i] <= off[m]
      BY <2>2, <2>3, <2>4
    <2> QED  BY <1>2, <2>5
  <1> QED  BY <1>3, <1>4

\* Every position of flat lies in one of the sequences.
Covers(off, n, seqs, flat) ==
    \A p \in 1..Len(flat) : \E i \in 1..n : \E j \in 1..Len(seqs[i]) :
        p = off[i] + j /\ flat[p] = seqs[i][j]

(* Every position of what is put together belongs to one of the sequences. *)
LEMMA LayoutCovers ==
    ASSUME NEW n \in Nat, NEW seqs, NEW off, NEW flat, Layout(off, n, seqs, flat),
           \A i \in 1..n : Len(seqs[i]) \in Nat
    PROVE  Covers(off, n, seqs, flat)
  <1> SUFFICES ASSUME NEW p \in 1..Len(flat)
               PROVE  \E i \in 1..n : \E j \in 1..Len(seqs[i]) :
                         p = off[i] + j /\ flat[p] = seqs[i][j]
    BY DEF Covers
  <1> DEFINE beyond == {m \in 1..n+1 : p <= off[m]}
  <1>0. \A m \in 1..n+1 : off[m] \in Nat
    BY DEF Layout
  <1>1. n + 1 \in beyond
    <2>1. Len(flat) = off[n+1] /\ off[n+1] \in Nat /\ n + 1 \in 1..n+1
      BY DEF Layout
    <2> QED  BY <2>1
  <1>2. PICK m \in beyond : m \in 1..n+1 /\ m - 1 \notin beyond
    <2>1. beyond \subseteq 1..n+1 /\ 1 \in Nat /\ n + 1 \in Nat
      OBVIOUS
    <2> HIDE DEF beyond
    <2> QED  BY <1>1, <2>1, LeastIndex
  <1>3. p \in Nat /\ p >= 1
    <2>1. Len(flat) = off[n+1] /\ off[n+1] \in Nat
      BY <1>0 DEF Layout
    <2> QED  BY <2>1
  <1>4. m # 1
    BY <1>2, <1>3 DEF Layout
  <1> DEFINE i == m - 1
             j == p - off[i]
  <1>5. i \in 1..n /\ i + 1 = m /\ i \in 1..n+1
    BY <1>2, <1>4
  <1>6. ~ (p <= off[i])
    BY <1>2, <1>5
  <1> HIDE DEF i
  <1>7. p <= off[i+1] /\ off[i+1] = off[i] + Len(seqs[i]) /\ off[i] \in Nat /\ Len(seqs[i]) \in Nat
    BY <1>0, <1>2, <1>5 DEF Layout
  <1>8. j \in 1..Len(seqs[i]) /\ p = off[i] + j
    BY <1>3, <1>6, <1>7
  <1> HIDE DEF j
  <1> QED  BY <1>5, <1>8 DEF Layout

-----------------------------------------------------------------------------
(* Chunks. *)

(* The least element of a set. *)
LEMMA MinIs ==
    ASSUME NEW T, T \subseteq Int, NEW x \in T, \A y \in T : x <= y
    PROVE  Min(T) = x
  <1>1. Min(T) \in T /\ \A y \in T : Min(T) <= y
    BY DEF Min
  <1>2. Min(T) \in Int /\ x \in Int /\ Min(T) <= x /\ x <= Min(T)
    BY <1>1
  <1> HIDE DEF Min
  <1> QED  BY <1>2

(* The smaller of two numbers. *)
LEMMA SmallerOfTwo ==
    ASSUME NEW a \in Int, NEW b \in Int
    PROVE  Min({a, b}) = IF a <= b THEN a ELSE b
  <1>1. CASE a <= b
    BY <1>1, MinIs
  <1>2. CASE ~ (a <= b)
    <2>1. \A y \in {a, b} : b <= y
      BY <1>2
    <2> QED  BY <1>2, <2>1, MinIs
  <1> QED  BY <1>1, <1>2

(* Part of a sequence. *)
LEMMA PartOf ==
    ASSUME NEW S, NEW s \in Seq(S), NEW a \in Nat, NEW b \in Nat, a <= b, b <= Len(s)
    PROVE  /\ SubSeq(s, a + 1, b) \in Seq(S)
           /\ Len(SubSeq(s, a + 1, b)) = b - a
           /\ \A j \in 1..b - a : SubSeq(s, a + 1, b)[j] = s[a + j]
    OBVIOUS

(* Rounding up. *)
LEMMA RoundsUp ==
    ASSUME NEW m \in Nat \ {0}, NEW f \in Nat \ {0}, NEW n, n = (m + f - 1) \div f
    PROVE  n \in Nat \ {0} /\ n * f - f < m /\ m <= n * f
  <1>1. n \in Int /\ f * n <= m + f - 1 /\ m + f - 1 < f * n + f
    OBVIOUS
  <1>2. n * f = f * n /\ f * n \in Int
    BY <1>1
  <1>3. m <= n * f /\ n * f - f < m
    BY <1>1, <1>2
  <1>4. n > 0
    BY <1>1, <1>2, <1>3
  <1> QED  BY <1>1, <1>3, <1>4

(* Multiples grow. *)
LEMMA MultiplesGrow ==
    ASSUME NEW f \in Nat, NEW n \in Nat, NEW j \in Nat, j + 1 <= n
    PROVE  j * f + f <= n * f
  <1>1. n * f = (j + 1) * f + (n - (j + 1)) * f
    OBVIOUS
  <1>2. (n - (j + 1)) * f >= 0
    OBVIOUS
  <1> QED  BY <1>1, <1>2

(* The chunks BuildSignedChunks cuts a dictionary into pass the range      *)
(* check of ParseSignedChunk, and their data put together is the           *)
(* dictionary, none of it lost or doubled at the boundaries.               *)
THEOREM ChunksAssemble ==
    ASSUME NEW S, NEW d \in Seq(S), d # << >>, NEW update, update # 0
    PROVE  LET chunks == BuildSignedChunks(update, d) IN
           /\ Assembled(chunks) = d
           /\ \A j \in 1..Len(chunks) : ChunkInRange(chunks[j])
  <1> DEFINE M == MaxChunkData
             L == Len(d)
             n == (L + M - 1) \div M
             chunks == BuildSignedChunks(update, d)
             seqs == [j \in 1..Len(chunks) |-> chunks[j].data]
             end(j) == IF (j - 1) * M + M <= L THEN (j - 1) * M + M ELSE L
  <1>1. M \in Nat \ {0} /\ L \in Nat \ {0}
    BY DictionaryAssumption
  <1>2. n \in Nat \ {0} /\ n * M - M < L /\ L <= n * M
    BY <1>1, RoundsUp
  <1>3. chunks = [j \in 1..n |-> Chunk(update, d, j - 1)]
    BY DEF BuildSignedChunks
  <1> HIDE DEF n, M, chunks
  <1>4. Len(chunks) = n
    BY <1>2, <1>3
  <1>5. ASSUME NEW j \in 1..n
        PROVE  /\ (j - 1) * M \in Nat /\ end(j) \in Nat /\ (j - 1) * M < L
               /\ (j - 1) * M <= end(j) /\ end(j) <= L
               /\ j < n => end(j) = j * M
               /\ j = n => end(j) = L
               /\ j * M = (j - 1) * M + M
               /\ chunks[j].update = update /\ chunks[j].total = L
               /\ chunks[j].index = (j - 1) * M
               /\ chunks[j].data = SubSeq(d, (j - 1) * M + 1, end(j))
    <2> DEFINE h == j - 1
               index == h * M
    <2>1. h \in Nat /\ h + 1 <= n /\ j = h + 1
      BY <1>2
    <2>2. index \in Nat /\ index + M <= n * M
      <3> HIDE DEF h
      <3> QED  BY <1>1, <1>2, <2>1, MultiplesGrow
    <2>3. j * M = index + M /\ n * M \in Nat
      <3> HIDE DEF h
      <3> QED  BY <1>1, <1>2, <2>1
    <2>4. ASSUME j < n PROVE j * M + M <= n * M
      BY <1>1, <1>2, <2>4, MultiplesGrow
    <2>5. Min({index + M, L}) = end(j)
      <3>1. index + M \in Int /\ L \in Int
        BY <1>1, <2>2
      <3> HIDE DEF index
      <3> QED  BY <3>1, SmallerOfTwo DEF index
    <2>6. chunks[j] = Chunk(update, d, h)
      BY <1>3
    <2>7. /\ chunks[j].update = update /\ chunks[j].total = L /\ chunks[j].index = index
          /\ chunks[j].data = SubSeq(d, index + 1, Min({index + M, L}))
      <3> DEFINE data == SubSeq(d, index + 1, Min({index + M, L}))
      <3>1. chunks[j] = [update |-> update, total |-> L, index |-> index, data |-> data]
        <4> HIDE DEF h
        <4> QED  BY <2>6, Zenon DEF Chunk, M
      <3> HIDE DEF data, index
      <3>2. chunks[j].data = data /\ chunks[j].update = update /\ chunks[j].total = L
            /\ chunks[j].index = index
        BY <3>1
      <3> QED  BY <3>2 DEF data
    <2> DEFINE jm == j * M
               nm == n * M
    <2>8. /\ jm = index + M /\ nm \in Nat /\ index \in Nat /\ index + M <= nm
          /\ j < n => jm + M <= nm
          /\ j = n => jm = nm
          /\ nm - M < L /\ L <= nm
          /\ end(j) = IF index + M <= L THEN index + M ELSE L
      BY <1>2, <2>2, <2>3, <2>4
    <2>9. ASSUME NEW e, e = end(j)
          PROVE  /\ e \in Nat /\ index < L /\ index <= e /\ e <= L
                 /\ j < n => e = jm
                 /\ j = n => e = L
      <3> HIDE DEF index, jm, nm, end
      <3> QED  BY <1>1, <2>8, <2>9
    <2> QED  BY <2>2, <2>3, <2>5, <2>7, <2>9
  <1>6. ASSUME NEW j \in 1..n
        PROVE  /\ seqs[j] \in Seq(S) /\ Len(seqs[j]) = end(j) - (j - 1) * M
               /\ \A i \in 1..Len(seqs[j]) : seqs[j][i] = d[(j - 1) * M + i]
    <2> DEFINE a == (j - 1) * M
               b == end(j)
    <2>1. a \in Nat /\ b \in Nat /\ a <= b /\ b <= Len(d) /\ seqs[j] = SubSeq(d, a + 1, b)
      BY <1>4, <1>5
    <2> HIDE DEF a, b, seqs
    <2> DEFINE s == SubSeq(d, a + 1, b)
    <2>2. s \in Seq(S) /\ Len(s) = b - a /\ \A i \in 1..b - a : s[i] = d[a + i]
      BY <2>1, PartOf
    <2>3. seqs[j] = s
      BY <2>1
    <2> HIDE DEF s
    <2>4. \A i \in 1..Len(seqs[j]) : seqs[j][i] = d[a + i]
      BY <2>2, <2>3
    <2>5. seqs[j] \in Seq(S) /\ Len(seqs[j]) = b - a
      BY <2>2, <2>3
    <2> QED  BY <2>4, <2>5 DEF a, b
  <1>7. seqs \in [1..n -> Seq(S)]
    BY <1>4, <1>6
  <1> DEFINE flat == FlattenSeq(seqs)
  <1>8. flat \in Seq(S) /\ \E off : Layout(off, n, seqs, flat)
    <2> HIDE DEF seqs
    <2> QED  BY <1>2, <1>7, Flattened
  <1>9. PICK off : Layout(off, n, seqs, flat)
    BY <1>8
  <1>10. Assembled(chunks) = flat
    BY DEF Assembled
  <1> HIDE DEF flat, seqs
  <1>11. \A j \in 1..n : off[j] = (j - 1) * M
    <2> DEFINE bad == {j \in 1..n : off[j] # (j - 1) * M}
    <2>1. SUFFICES ASSUME bad # {} PROVE FALSE
      OBVIOUS
    <2>2. PICK j \in bad : j \in 1..n /\ j - 1 \notin bad
      <3>1. bad \subseteq 1..n /\ 1 \in Nat
        OBVIOUS
      <3> HIDE DEF bad
      <3> QED  BY <1>2, <2>1, <3>1, LeastIndex
    <2>3. CASE j = 1
      <3>1. off[1] = 0
        BY <1>9 DEF Layout
      <3>2. (1 - 1) * M = 0
        BY <1>1
      <3> QED  BY <2>2, <2>3, <3>1, <3>2
    <2>4. CASE j # 1
      <3> DEFINE h == j - 1
      <3>1. h \in 1..n /\ h < n /\ h + 1 = j
        BY <1>2, <2>2, <2>4
      <3>2. off[h] = (h - 1) * M
        BY <2>2, <3>1
      <3>3. off[j] = off[h] + Len(seqs[h])
        <4> HIDE DEF h
        <4> QED  BY <1>9, <3>1 DEF Layout
      <3>4. Len(seqs[h]) = end(h) - (h - 1) * M /\ end(h) = h * M /\ (h - 1) * M \in Nat
            /\ h * M = (h - 1) * M + M
        <4> HIDE DEF h, end
        <4> QED  BY <1>5, <1>6, <3>1
      <3> DEFINE a == (h - 1) * M
                 b == h * M
      <3>5. off[j] = a + (b - a) /\ a \in Nat /\ b = a + M
        BY <3>2, <3>3, <3>4
      <3> HIDE DEF a, b
      <3>6. off[j] = b
        BY <1>1, <3>5
      <3> QED  BY <2>2, <3>6 DEF b
    <2> QED  BY <2>3, <2>4
  <1>12. Len(flat) = L
    <2>1. off[n+1] = off[n] + Len(seqs[n]) /\ Len(flat) = off[n+1]
      BY <1>2, <1>9 DEF Layout
    <2>2. Len(seqs[n]) = end(n) - (n - 1) * M /\ end(n) = L /\ (n - 1) * M \in Nat
          /\ off[n] = (n - 1) * M
      <3> HIDE DEF end
      <3> QED  BY <1>2, <1>5, <1>6, <1>11
    <2> DEFINE a == (n - 1) * M
    <2>3. Len(flat) = a + (L - a) /\ a \in Nat
      BY <2>1, <2>2
    <2> HIDE DEF a
    <2> QED  BY <1>1, <2>3
  <1>13. ASSUME NEW p \in 1..L PROVE flat[p] = d[p]
    <2>1. \A j \in 1..n : Len(seqs[j]) \in Nat
      BY <1>6
    <2>2. PICK j \in 1..n : \E i \in 1..Len(seqs[j]) : p = off[j] + i /\ flat[p] = seqs[j][i]
      <3>1. n \in Nat /\ p \in 1..Len(flat)
        BY <1>2, <1>12
      <3>2. Covers(off, n, seqs, flat)
        BY <1>9, <2>1, <3>1, LayoutCovers
      <3> QED  BY <3>1, <3>2 DEF Covers
    <2>3. PICK i \in 1..Len(seqs[j]) : p = off[j] + i /\ flat[p] = seqs[j][i]
      BY <2>2
    <2>4. seqs[j][i] = d[(j - 1) * M + i] /\ off[j] = (j - 1) * M
      BY <1>6, <1>11
    <2> QED  BY <2>3, <2>4
  <1>14. flat = d
    BY <1>8, <1>12, <1>13
  <1>15. ASSUME NEW j \in 1..n PROVE ChunkInRange(chunks[j])
    <2> DEFINE a == (j - 1) * M
               b == end(j)
    <2>1. /\ chunks[j].update = update /\ chunks[j].total = L /\ chunks[j].index = a
          /\ Len(chunks[j].data) = b - a /\ a \in Nat /\ b \in Nat /\ b <= L
      <3>1. seqs[j] = chunks[j].data
        BY <1>4 DEF seqs
      <3> QED  BY <1>5, <1>6, <3>1
    <2> HIDE DEF a, b
    <2> QED  BY <1>1, <2>1 DEF ChunkInRange
  <1> QED  BY <1>4, <1>10, <1>14, <1>15 DEF chunks

-----------------------------------------------------------------------------
(* Escaping. *)

\* The characters that are escaped.
Specials == {NUL, CR, LF, Backslash, Equals}

(* What escaping a symbol does, and that the letters can be told apart. *)
LEMMA EscapeOne ==
    ASSUME NEW c
    PROVE  \/ /\ c \in Specials
              /\ Escape(c) = <<Backslash, Letter[c]>>
              /\ Letter[c] \notin {NUL, CR, LF, Equals}
              /\ Meaning(Letter[c]) = c
           \/ c \notin Specials /\ Escape(c) = <<c>>
  <1>1. DOMAIN Letter = Specials
    BY DEF Letter, Specials
  <1>2. CASE c \in Specials
    <2>0. /\ NUL # CR /\ NUL # LF /\ NUL # Backslash /\ NUL # Equals /\ CR # LF /\ CR # Backslash
          /\ CR # Equals /\ LF # Backslash /\ LF # Equals /\ Backslash # Equals
      BY DEF NUL, CR, LF, Backslash, Equals, Char
    <2>1. /\ Letter[NUL] = Char("0") /\ Letter[CR] = Char("r") /\ Letter[LF] = Char("n")
          /\ Letter[Equals] = Char("e") /\ Letter[Backslash] = Backslash
      BY <2>0 DEF Letter
    <2>2. \A x, y \in Specials : Letter[x] = Letter[y] => x = y
      BY <2>1 DEF Specials, Char, Backslash
    <2>3. Letter[c] \notin {NUL, CR, LF, Equals}
      BY <1>2, <2>1 DEF Specials, NUL, CR, LF, Backslash, Equals, Char
    <2>4. Meaning(Letter[c]) = c
      <3> DEFINE meant == {x \in DOMAIN Letter : Letter[x] = Letter[c]}
      <3>1. meant = {c}
        BY <1>1, <1>2, <2>2
      <3>2. (CHOOSE x \in meant : TRUE) = c
        BY <3>1
      <3> HIDE DEF meant
      <3>3. meant # {}
        BY <3>1
      <3> QED  BY <3>2, <3>3 DEF Meaning, meant
    <2> QED  BY <1>1, <1>2, <2>3, <2>4 DEF Escape
  <1>3. CASE c \notin Specials
    BY <1>1, <1>3 DEF Escape
  <1> QED  BY <1>2, <1>3

\* g is what Escaped(value) is defined to be.
IsEscaped(g, value) ==
    g = [j \in 0..Len(value) |-> j > 1 /\ value[j - 1] = Backslash /\ ~ g[j - 1]]

(* Escaped is the function its recursive definition chooses. *)
LEMMA EscapedIs ==
    ASSUME NEW value
    PROVE  Escaped(value) = CHOOSE g : IsEscaped(g, value)
    BY Zenon DEF Escaped, IsEscaped

(* That recursion has a solution. *)
LEMMA EscapedExists ==
    ASSUME NEW value, Len(value) \in Nat
    PROVE  \E g : IsEscaped(g, value)
  <1> DEFINE n == Len(value)
             Unfold(g, j) == j > 1 /\ value[j - 1] = Backslash /\ ~ g[j - 1]
             Part(g, k) == g = [j \in 0..k |-> Unfold(g, j)]
             bad == {k \in 0..n : ~ \E g : Part(g, k)}
  <1>1. SUFFICES ASSUME bad # {} PROVE FALSE
    <2>1. n \in 0..n
      OBVIOUS
    <2>2. SUFFICES \E g : Part(g, n)
      BY DEF IsEscaped
    <2> HIDE DEF Part
    <2> QED  BY <1>1, <2>1
  <1>2. PICK k \in bad : k \in 0..n /\ k - 1 \notin bad
    <2>1. bad \subseteq 0..n /\ 0 \in Nat
      OBVIOUS
    <2> HIDE DEF bad
    <2> QED  BY <1>1, <2>1, LeastIndex
  <1>3. CASE k = 0
    <2> DEFINE z == [j \in 0..0 |-> FALSE]
    <2>1. Part(z, 0)
      <3>1. \A j \in 0..0 : Unfold(z, j) = FALSE
        OBVIOUS
      <3> HIDE DEF Unfold
      <3> QED  BY <3>1
    <2> QED  BY <1>2, <1>3, <2>1
  <1>4. CASE k # 0
    <2>1. k - 1 \in 0..n
      BY <1>2, <1>4
    <2>2. PICK g : Part(g, k - 1)
      BY <1>2, <2>1
    <2> DEFINE h == [j \in 0..k |-> IF j = k THEN Unfold(g, k) ELSE g[j]]
    <2>3. ASSUME NEW j \in 0..k PROVE h[j] = Unfold(h, j)
      <3>1. CASE j = k
        <4>1. k > 1 => h[k-1] = g[k-1]
          BY <1>2, <1>4
        <4> QED  BY <3>1, <4>1
      <3>2. CASE j # k
        <4>1. j \in 0..k-1 /\ h[j] = g[j]
          BY <1>2, <3>2
        <4>2. j > 1 => h[j-1] = g[j-1]
          BY <1>2, <3>2
        <4>3. g[j] = Unfold(g, j)
          BY <2>2, <4>1
        <4> QED  BY <4>1, <4>2, <4>3
      <3> QED  BY <3>1, <3>2
    <2>4. h = [j \in 0..k |-> h[j]]
      OBVIOUS
    <2>5. Part(h, k)
      <3> HIDE DEF h
      <3> QED  BY <2>3, <2>4
    <2> QED  BY <1>2, <2>5
  <1> QED  BY <1>3, <1>4

(* Which symbols follow a backslash. *)
LEMMA EscapedSteps ==
    ASSUME NEW value, Len(value) \in Nat, NEW j \in 1..Len(value)
    PROVE  Escaped(value)[j] <=> j > 1 /\ value[j - 1] = Backslash /\ ~ Escaped(value)[j - 1]
  <1> DEFINE g == Escaped(value)
  <1>1. IsEscaped(g, value)
    <2> DEFINE chosen == CHOOSE f : IsEscaped(f, value)
    <2>1. IsEscaped(chosen, value)
      BY EscapedExists
    <2>2. g = chosen
      BY EscapedIs
    <2> QED  BY <2>1, <2>2
  <1> HIDE DEF g
  <1>2. g[j] <=> j > 1 /\ value[j - 1] = Backslash /\ ~ g[j - 1]
    <2>1. j \in 0..Len(value)
      OBVIOUS
    <2>2. g = [i \in 0..Len(value) |-> i > 1 /\ value[i - 1] = Backslash /\ ~ g[i - 1]]
      BY <1>1, Zenon DEF IsEscaped
    <2>3. g[j] = (j > 1 /\ value[j - 1] = Backslash /\ ~ g[j - 1])
      BY <2>1, <2>2, Zenon
    <2> QED  BY <2>3
  <1> QED  BY <1>2 DEF g

\* The escaped symbols of a value, and the escaped value.
Pieces(v) == [j \in 1..Len(v) |-> Escape(v[j])]
EscapedValue(v) == FlattenSeq(Pieces(v))

\* The symbols of an escaped value.
Symbols(S) == S \cup {Backslash} \cup {Letter[c] : c \in Specials}

(* Each piece is a backslash and a letter, or the symbol itself. *)
LEMMA PiecesTyped ==
    ASSUME NEW S, NEW v \in Seq(S)
    PROVE  /\ Pieces(v) \in [1..Len(v) -> Seq(Symbols(S))]
           /\ \A i \in 1..Len(v) :
                 \/ /\ v[i] \in Specials /\ Len(Pieces(v)[i]) = 2
                    /\ Pieces(v)[i][1] = Backslash /\ Pieces(v)[i][2] = Letter[v[i]]
                 \/ v[i] \notin Specials /\ Len(Pieces(v)[i]) = 1 /\ Pieces(v)[i][1] = v[i]
  <1>1. ASSUME NEW i \in 1..Len(v)
        PROVE  /\ Pieces(v)[i] \in Seq(Symbols(S))
               /\ \/ /\ v[i] \in Specials /\ Len(Pieces(v)[i]) = 2
                     /\ Pieces(v)[i][1] = Backslash /\ Pieces(v)[i][2] = Letter[v[i]]
                  \/ v[i] \notin Specials /\ Len(Pieces(v)[i]) = 1 /\ Pieces(v)[i][1] = v[i]
    <2>1. Pieces(v)[i] = Escape(v[i]) /\ v[i] \in S
      BY DEF Pieces
    <2>2. CASE v[i] \in Specials
      <3> DEFINE letter == Letter[v[i]]
      <3>1. Pieces(v)[i] = <<Backslash, letter>>
        BY <2>1, <2>2, EscapeOne
      <3>2. Backslash \in Symbols(S) /\ letter \in Symbols(S)
        BY <2>2 DEF Symbols
      <3> HIDE DEF letter
      <3>3. Pieces(v)[i] \in Seq(Symbols(S)) /\ Len(Pieces(v)[i]) = 2
            /\ Pieces(v)[i][1] = Backslash /\ Pieces(v)[i][2] = letter
        BY <3>1, <3>2
      <3> QED  BY <2>2, <3>3 DEF letter
    <2>3. CASE v[i] \notin Specials
      <3>1. Pieces(v)[i] = <<v[i]>> /\ v[i] \in Symbols(S)
        BY <2>1, <2>3, EscapeOne DEF Symbols
      <3> QED  BY <2>3, <3>1
    <2> QED  BY <2>2, <2>3
  <1>2. Pieces(v) = [i \in 1..Len(v) |-> Pieces(v)[i]]
    BY DEF Pieces
  <1> HIDE DEF Pieces
  <1>3. Pieces(v) \in [1..Len(v) -> Seq(Symbols(S))]
    BY <1>1, <1>2
  <1> QED  BY <1>1, <1>3

\* The piece of the i-th symbol in w: after off[i], with a backslash only where the
\* symbol is special, and read as the symbol.
Block(v, w, off, i) ==
    /\ off[i] \in Nat /\ off[i+1] \in Nat /\ off[i+1] <= Len(w)
    /\ ~ Escaped(w)[off[i] + 1]
    /\ \/ /\ v[i] \in Specials /\ off[i+1] = off[i] + 2
          /\ w[off[i] + 1] = Backslash /\ w[off[i] + 2] = Letter[v[i]]
          /\ Escaped(w)[off[i] + 2]
       \/ /\ v[i] \notin Specials /\ off[i+1] = off[i] + 1 /\ w[off[i] + 1] = v[i]

(* An escaped value is made of such blocks, one for each symbol. *)
LEMMA EscapedBlocks ==
    ASSUME NEW S, NEW v \in Seq(S)
    PROVE  /\ EscapedValue(v) \in Seq(Symbols(S))
           /\ \E off : /\ Layout(off, Len(v), Pieces(v), EscapedValue(v))
                       /\ \A i \in 1..Len(v) : Block(v, EscapedValue(v), off, i)
  <1> DEFINE n == Len(v)
             seqs == Pieces(v)
             w == EscapedValue(v)
             g == Escaped(w)
  <1>0. n \in Nat
    OBVIOUS
  <1>1. /\ seqs \in [1..n -> Seq(Symbols(S))]
        /\ \A i \in 1..n :
              \/ /\ v[i] \in Specials /\ Len(seqs[i]) = 2
                 /\ seqs[i][1] = Backslash /\ seqs[i][2] = Letter[v[i]]
              \/ v[i] \notin Specials /\ Len(seqs[i]) = 1 /\ seqs[i][1] = v[i]
    BY PiecesTyped
  <1>2. w \in Seq(Symbols(S)) /\ \E off : Layout(off, n, seqs, w)
    <2>1. w = FlattenSeq(seqs)
      BY DEF EscapedValue
    <2> HIDE DEF n, seqs, w
    <2> QED  BY <1>0, <1>1, <2>1, Flattened
  <1>3. PICK off : Layout(off, n, seqs, w)
    BY <1>2
  <1>4. \A j \in 1..Len(w) : g[j] <=> j > 1 /\ w[j - 1] = Backslash /\ ~ g[j - 1]
    <2>1. Len(w) \in Nat
      BY <1>2
    <2> HIDE DEF w
    <2> QED  BY <2>1, EscapedSteps
  <1>5. Backslash \in Specials
    BY DEF Specials
  <1> HIDE DEF n, seqs, w, g
  <1>6. ASSUME NEW i \in 1..n
        PROVE  /\ off[i] \in Nat /\ off[i+1] \in Nat /\ off[i+1] <= Len(w) /\ Len(w) \in Nat
               /\ \/ /\ v[i] \in Specials /\ off[i+1] = off[i] + 2
                     /\ w[off[i] + 1] = Backslash /\ w[off[i] + 2] = Letter[v[i]]
                  \/ /\ v[i] \notin Specials /\ off[i+1] = off[i] + 1 /\ w[off[i] + 1] = v[i]
    <2>1. /\ off[i] \in Nat /\ off[i+1] = off[i] + Len(seqs[i])
          /\ \A j \in 1..Len(seqs[i]) : w[off[i] + j] = seqs[i][j]
          /\ Len(w) = off[n+1] /\ off[n+1] \in Nat /\ off[i+1] \in Nat
      <3>1. i \in 1..n+1 /\ i + 1 \in 1..n+1 /\ n + 1 \in 1..n+1
        BY <1>0
      <3>2. off \in [1..n+1 -> Nat] /\ Len(w) = off[n+1]
        BY <1>3 DEF Layout
      <3>3. /\ off[i+1] = off[i] + Len(seqs[i])
            /\ \A j \in 1..Len(seqs[i]) : w[off[i] + j] = seqs[i][j]
        BY <1>3, Zenon DEF Layout
      <3> QED  BY <3>1, <3>2, <3>3
    <2>2. off[i+1] <= off[n+1]
      <3>1. \A k \in 1..n : Len(seqs[k]) \in Nat
        BY <1>1
      <3>2. i + 1 \in 1..n+1 /\ n + 1 \in (i+1)..n+1
        BY <1>0
      <3> QED  BY <1>0, <1>3, <3>1, <3>2, LayoutOrder
    <2>3. CASE /\ v[i] \in Specials /\ Len(seqs[i]) = 2
               /\ seqs[i][1] = Backslash /\ seqs[i][2] = Letter[v[i]]
      BY <2>1, <2>2, <2>3
    <2>4. CASE v[i] \notin Specials /\ Len(seqs[i]) = 1 /\ seqs[i][1] = v[i]
      BY <2>1, <2>2, <2>4
    <2> QED  BY <1>1, <2>3, <2>4
  <1>7. \A i \in 1..n : ~ g[off[i] + 1]
    <2> DEFINE bad == {i \in 1..n : g[off[i] + 1]}
    <2>1. SUFFICES ASSUME bad # {} PROVE FALSE
      OBVIOUS
    <2>2. PICK i \in bad : i \in 1..n /\ i - 1 \notin bad
      <3>1. bad \subseteq 1..n /\ 1 \in Nat
        OBVIOUS
      <3> HIDE DEF bad
      <3> QED  BY <1>0, <2>1, <3>1, LeastIndex
    <2>3. off[i] + 1 \in 1..Len(w) /\ off[i] \in Nat
      BY <1>6, <2>2
    <2>4. off[i] + 1 > 1 /\ w[off[i]] = Backslash /\ ~ g[off[i]]
      <3>1. (off[i] + 1) - 1 = off[i]
        BY <2>3
      <3> QED  BY <1>4, <2>2, <2>3, <3>1
    <2>5. i # 1
      BY <1>3, <2>3, <2>4 DEF Layout
    <2> DEFINE h == i - 1
    <2>6. h \in 1..n /\ h + 1 = i
      BY <1>0, <2>2, <2>5
    <2>7. ~ g[off[h] + 1]
      BY <2>2, <2>6
    <2> HIDE DEF h
    <2>8. CASE v[h] \notin Specials /\ off[i] = off[h] + 1 /\ w[off[h] + 1] = v[h]
      BY <1>5, <2>4, <2>8
    <2>9. CASE off[i] = off[h] + 2 /\ w[off[h] + 1] = Backslash
      <3>1. off[h] \in Nat /\ off[h] + 2 \in 1..Len(w) /\ (off[h] + 2) - 1 = off[h] + 1
            /\ off[h] + 2 > 1
        <4>1. off[h] \in Nat /\ Len(w) \in Nat
          BY <1>6, <2>6
        <4>2. off[h] + 2 <= Len(w)
          BY <2>3, <2>9, <4>1
        <4> QED  BY <4>1, <4>2
      <3>2. g[off[h] + 2]
        BY <1>4, <2>7, <2>9, <3>1
      <3> QED  BY <2>4, <2>9, <3>2
    <2> QED  BY <1>6, <2>6, <2>8, <2>9
  <1>8. ASSUME NEW i \in 1..n PROVE Block(v, w, off, i)
    <2>1. CASE v[i] \in Specials
      <3>1. /\ off[i] \in Nat /\ off[i+1] = off[i] + 2 /\ off[i+1] <= Len(w) /\ Len(w) \in Nat
            /\ w[off[i] + 1] = Backslash /\ w[off[i] + 2] = Letter[v[i]]
        BY <1>6, <2>1
      <3>2. off[i] + 2 \in 1..Len(w) /\ (off[i] + 2) - 1 = off[i] + 1 /\ off[i] + 2 > 1
        BY <3>1
      <3>3. g[off[i] + 2]
        BY <1>4, <1>7, <3>1, <3>2
      <3> QED  BY <1>6, <1>7, <2>1, <3>1, <3>3 DEF Block, g
    <2>2. CASE v[i] \notin Specials
      BY <1>6, <1>7, <2>2 DEF Block, g
    <2> QED  BY <2>1, <2>2
  <1> QED  BY <1>2, <1>3, <1>8 DEF n, seqs, w

(* No separator and no NUL is left in an escaped value. *)
LEMMA EscapedClean ==
    ASSUME NEW S, NEW v \in Seq(S), NEW p \in 1..Len(EscapedValue(v))
    PROVE  EscapedValue(v)[p] \notin {NUL, CR, LF, Equals}
  <1> DEFINE n == Len(v)
             seqs == Pieces(v)
             w == EscapedValue(v)
  <1>1. PICK off : Layout(off, n, seqs, w)
    BY EscapedBlocks
  <1>2. /\ n \in Nat /\ \A i \in 1..n : Len(seqs[i]) \in Nat
        /\ \A i \in 1..n :
              \/ /\ v[i] \in Specials /\ Len(seqs[i]) = 2
                 /\ seqs[i][1] = Backslash /\ seqs[i][2] = Letter[v[i]]
              \/ v[i] \notin Specials /\ Len(seqs[i]) = 1 /\ seqs[i][1] = v[i]
    BY PiecesTyped
  <1> HIDE DEF n, seqs, w
  <1>3. Covers(off, n, seqs, w)
    BY <1>1, <1>2, LayoutCovers
  <1>4. PICK i \in 1..n : \E j \in 1..Len(seqs[i]) : p = off[i] + j /\ w[p] = seqs[i][j]
    BY <1>3 DEF Covers, w
  <1>5. PICK j \in 1..Len(seqs[i]) : w[p] = seqs[i][j]
    BY <1>4
  <1>6. {NUL, CR, LF, Equals} \subseteq Specials /\ Backslash \notin {NUL, CR, LF, Equals}
    BY DEF Specials, NUL, CR, LF, Backslash, Equals, Char
  <1>7. CASE v[i] \in Specials
    <2>1. j \in 1..2 /\ seqs[i][1] = Backslash /\ seqs[i][2] = Letter[v[i]]
      BY <1>2, <1>7
    <2>2. Letter[v[i]] \notin {NUL, CR, LF, Equals}
      BY <1>7, EscapeOne
    <2>3. seqs[i][j] = Backslash \/ seqs[i][j] = Letter[v[i]]
      BY <2>1
    <2> QED  BY <1>5, <1>6, <2>2, <2>3 DEF w
  <1>8. CASE v[i] \notin Specials
    <2>1. j \in 1..1 /\ seqs[i][1] = v[i]
      BY <1>2, <1>8
    <2>2. seqs[i][j] = v[i]
      BY <2>1
    <2> QED  BY <1>5, <1>6, <1>8, <2>2 DEF w
  <1> QED  BY <1>7, <1>8

(* A value reads back: unescapeValue undoes what DictionaryBuilder.Add     *)
(* does to each symbol, and never sees an incomplete escape.               *)
THEOREM Unescaped ==
    ASSUME NEW S, NEW v \in Seq(S)
    PROVE  /\ UnescapeValue(EscapedValue(v)) = v
           /\ ~ IncompleteEscape(EscapedValue(v))
  <1> DEFINE n == Len(v)
             w == EscapedValue(v)
             g == Escaped(w)
             part(p) == IF g[p] THEN <<Meaning(w[p])>>
                        ELSE IF w[p] = Backslash THEN <<>> ELSE <<w[p]>>
             parts == [p \in 1..Len(w) |-> part(p)]
             flat == FlattenSeq(parts)
             U == {w[p] : p \in 1..Len(w)} \cup {Meaning(w[p]) : p \in 1..Len(w)}
  <1>1. /\ w \in Seq(Symbols(S)) /\ n \in Nat /\ Len(w) \in Nat
        /\ \E off : /\ Layout(off, n, Pieces(v), w)
                    /\ \A i \in 1..n : Block(v, w, off, i)
    <2>1. /\ w \in Seq(Symbols(S))
          /\ \E off : /\ Layout(off, n, Pieces(v), w)
                      /\ \A i \in 1..n : Block(v, w, off, i)
      BY EscapedBlocks
    <2> HIDE DEF w
    <2>2. n \in Nat /\ Len(w) \in Nat
      BY <2>1
    <2> QED  BY <2>1, <2>2
  <1>2. PICK off : Layout(off, n, Pieces(v), w) /\ \A i \in 1..n : Block(v, w, off, i)
    BY <1>1
  <1>3. off[1] = 0 /\ Len(w) = off[n+1] /\ \A i \in 1..n+1 : off[i] \in Nat
    BY <1>2 DEF Layout
  <1>4. UnescapeValue(w) = flat
    BY DEF UnescapeValue
  <1> HIDE DEF n, w, g
  <1>5. parts \in [1..Len(w) -> Seq(U)]
    <2>1. ASSUME NEW p \in 1..Len(w) PROVE part(p) \in Seq(U)
      <3>1. w[p] \in U /\ Meaning(w[p]) \in U
        OBVIOUS
      <3> HIDE DEF U
      <3> QED  BY <3>1
    <2> HIDE DEF part, U
    <2> QED  BY <2>1
  <1>6. \A p \in 1..Len(w) : parts[p] = part(p)
    OBVIOUS
  <1> HIDE DEF U, parts
  <1>7. flat \in Seq(U) /\ \E o : Layout(o, Len(w), parts, flat)
    BY <1>1, <1>5, Flattened
  <1>8. PICK o : Layout(o, Len(w), parts, flat)
    BY <1>7
  <1> HIDE DEF flat
  <1>9. /\ o[1] = 0 /\ Len(flat) = o[Len(w) + 1]
        /\ \A p \in 1..Len(w) :
              /\ o[p] \in Nat /\ o[p+1] = o[p] + Len(parts[p])
              /\ \A j \in 1..Len(parts[p]) : flat[o[p] + j] = parts[p][j]
    <2>1. \A p \in 1..Len(w) : p \in 1..Len(w)+1
      BY <1>1
    <2>2. \A p \in 1..Len(w) : o[p] \in Nat
      BY <1>8, <2>1 DEF Layout
    <2>3. o[1] = 0 /\ Len(flat) = o[Len(w) + 1]
      BY <1>8 DEF Layout
    <2>4. \A p \in 1..Len(w) :
              /\ o[p+1] = o[p] + Len(parts[p])
              /\ \A j \in 1..Len(parts[p]) : flat[o[p] + j] = parts[p][j]
      BY <1>8 DEF Layout
    <2> QED  BY <2>2, <2>3, <2>4
  <1>10. ASSUME NEW i \in 1..n, o[off[i] + 1] = i - 1
         PROVE  o[off[i+1] + 1] = i /\ flat[i] = v[i]
    <2> DEFINE p == off[i] + 1
    <2>1. Block(v, w, off, i)
      BY <1>2
    <2>2. p \in 1..Len(w) /\ off[i] \in Nat
      <3>1. off[i] \in Nat /\ off[i+1] <= Len(w) /\ off[i+1] \in {off[i] + 1, off[i] + 2}
        BY <2>1 DEF Block
      <3> QED  BY <1>1, <3>1
    <2>3. CASE v[i] \notin Specials
      <3>1. ~ g[p] /\ w[p] = v[i] /\ off[i+1] = off[i] + 1 /\ w[p] # Backslash
        BY <2>1, <2>3 DEF Block, g, Specials
      <3>2. parts[p] = <<v[i]>>
        BY <1>6, <2>2, <3>1
      <3>3. Len(parts[p]) = 1 /\ parts[p][1] = v[i]
        BY <3>2
      <3>4. off[i+1] + 1 = p + 1
        BY <2>2, <3>1
      <3> HIDE DEF p
      <3>5. o[p+1] = o[p] + 1 /\ flat[o[p] + 1] = v[i] /\ o[p] = i - 1
        <4>1. 1 \in 1..Len(parts[p])
          BY <3>3
        <4>2. o[p+1] = o[p] + Len(parts[p]) /\ flat[o[p] + 1] = parts[p][1]
          BY <1>9, <2>2, <4>1
        <4> QED  BY <1>10, <3>3, <4>2 DEF p
      <3>6. (i - 1) + 1 = i
        BY <1>1
      <3> QED  BY <3>4, <3>5, <3>6
    <2>4. CASE v[i] \in Specials
      <3> DEFINE q == off[i] + 2
      <3>1. /\ ~ g[p] /\ w[p] = Backslash /\ off[i+1] = off[i] + 2
            /\ g[q] /\ w[q] = Letter[v[i]] /\ off[i+1] <= Len(w)
        BY <2>1, <2>4 DEF Block, g
      <3>2. q \in 1..Len(w) /\ p + 1 = q /\ off[i+1] + 1 = q + 1
        BY <1>1, <2>2, <3>1
      <3>3. Meaning(Letter[v[i]]) = v[i]
        BY <2>4, EscapeOne
      <3>4. parts[p] = << >>
        <4>1. part(p) = << >>
          BY <3>1
        <4>2. p \in 1..Len(w)
          BY <2>2
        <4> HIDE DEF part
        <4> QED  BY <1>6, <4>1, <4>2
      <3>5. parts[q] = <<v[i]>>
        BY <1>6, <3>1, <3>2, <3>3
      <3>6. Len(parts[p]) = 0 /\ Len(parts[q]) = 1 /\ parts[q][1] = v[i]
        BY <3>4, <3>5
      <3> HIDE DEF p, q
      <3>7. o[q] = o[p] + 0 /\ o[p] = i - 1 /\ o[p] \in Nat
        BY <1>9, <1>10, <2>2, <3>2, <3>6 DEF p
      <3>8. o[q] = i - 1
        BY <3>7
      <3>9. o[q+1] = o[q] + 1 /\ flat[o[q] + 1] = v[i]
        <4>1. 1 \in 1..Len(parts[q])
          BY <3>6
        <4>2. o[q+1] = o[q] + Len(parts[q]) /\ flat[o[q] + 1] = parts[q][1]
          BY <1>9, <3>2, <4>1
        <4> QED  BY <3>6, <4>2
      <3>10. (i - 1) + 1 = i
        BY <1>1
      <3> QED  BY <3>2, <3>8, <3>9, <3>10
    <2> QED  BY <2>3, <2>4
  <1>11. \A i \in 1..n+1 : o[off[i] + 1] = i - 1
    <2> DEFINE bad == {i \in 1..n+1 : o[off[i] + 1] # i - 1}
    <2>1. SUFFICES ASSUME bad # {} PROVE FALSE
      OBVIOUS
    <2>2. PICK i \in bad : i \in 1..n+1 /\ i - 1 \notin bad
      <3>1. bad \subseteq 1..n+1 /\ 1 \in Nat /\ n + 1 \in Nat
        BY <1>1
      <3> HIDE DEF bad
      <3> QED  BY <2>1, <3>1, LeastIndex
    <2>3. CASE i = 1
      BY <1>3, <1>9, <2>2, <2>3
    <2>4. CASE i # 1
      <3> DEFINE h == i - 1
      <3>1. h \in 1..n /\ h \in 1..n+1 /\ h + 1 = i
        BY <1>1, <2>2, <2>4
      <3>2. o[off[h] + 1] = h - 1
        BY <2>2, <3>1
      <3> HIDE DEF h
      <3>3. o[off[h+1] + 1] = h
        BY <1>10, <3>1, <3>2
      <3> QED  BY <2>2, <3>1, <3>3 DEF h
    <2> QED  BY <2>3, <2>4
  <1>12. Len(flat) = n
    <2>1. n + 1 \in 1..n+1 /\ (n + 1) - 1 = n
      BY <1>1
    <2>2. o[off[n+1] + 1] = n
      BY <1>11, <2>1
    <2> QED  BY <1>3, <1>9, <2>2
  <1>13. \A i \in 1..n : flat[i] = v[i]
    <2>1. \A i \in 1..n : i \in 1..n+1
      BY <1>1
    <2> QED  BY <1>10, <1>11, <2>1
  <1>14. flat = v
    BY <1>7, <1>12, <1>13 DEF n
  <1>15. ~ IncompleteEscape(w)
    <2>1. SUFFICES ASSUME w # << >>, w[Len(w)] = Backslash, ~ g[Len(w)]
                   PROVE  FALSE
      BY DEF IncompleteEscape, g
    <2>2. n # 0
      <3>1. SUFFICES ASSUME n = 0 PROVE FALSE
        OBVIOUS
      <3>2. Len(w) = 0
        BY <1>3, <3>1
      <3> QED  BY <1>1, <2>1, <3>2
    <2>3. n \in 1..n
      BY <1>1, <2>2
    <2>4. Block(v, w, off, n)
      BY <1>2, <2>3
    <2>5. Len(w) = off[n+1]
      BY <1>3
    <2> QED  BY <2>1, <2>4, <2>5 DEF Block, Specials, g
  <1> QED  BY <1>4, <1>14, <1>15 DEF w

-----------------------------------------------------------------------------
(* Lines. *)

(* A line is its key, a separator and the escaped value, and a line feed. *)
LEMMA LineSymbols ==
    ASSUME NEW S, NEW T, NEW entry, entry.value \in Seq(S), Char(entry.key) \notin Specials,
           Symbols(S) \subseteq T, Specials \subseteq T, Char(entry.key) \in T
    PROVE  LET w == EscapedValue(entry.value) IN
           /\ w \in Seq(T) /\ Len(w) \in Nat
           /\ Line(entry) \in Seq(T) /\ Len(Line(entry)) = Len(w) + 3
           /\ Line(entry)[1] = Char(entry.key) /\ Line(entry)[2] = Equals
           /\ \A j \in 1..Len(w) : Line(entry)[j + 2] = w[j]
           /\ Line(entry)[Len(w) + 3] = LF
           /\ \A j \in 1..Len(w) + 3 : Line(entry)[j] # NUL
           /\ \A j \in 1..Len(w) + 2 : Line(entry)[j] \notin Breaks
  <1> DEFINE w == EscapedValue(entry.value)
             head == <<Char(entry.key), Equals>>
             body == head \o w
             line == body \o <<LF>>
  <1>1. w \in Seq(T) /\ Len(w) \in Nat
    <2>1. w \in Seq(Symbols(S))
      BY EscapedBlocks
    <2> HIDE DEF w
    <2> QED  BY <2>1
  <1>2. \A j \in 1..Len(w) : w[j] \notin {NUL, CR, LF, Equals}
    BY EscapedClean
  <1>3. Line(entry) = line
    BY DEF Line, EscapedValue, Pieces
  <1>4. Equals \in T /\ LF \in T
    BY DEF Specials
  <1>5. head \in Seq(T) /\ Len(head) = 2 /\ head[1] = Char(entry.key) /\ head[2] = Equals
    BY <1>4
  <1> HIDE DEF w, head
  <1>6. /\ body \in Seq(T) /\ Len(body) = 2 + Len(w)
        /\ body[1] = Char(entry.key) /\ body[2] = Equals
        /\ \A j \in 1..Len(w) : body[2 + j] = w[j]
    <2>1. 1 \in 1..Len(head) /\ 2 \in 1..Len(head)
      BY <1>5
    <2>2. /\ head \o w \in Seq(T) /\ Len(head \o w) = Len(head) + Len(w)
          /\ \A j \in 1..Len(head) : (head \o w)[j] = head[j]
          /\ \A j \in 1..Len(w) : (head \o w)[Len(head) + j] = w[j]
      <3>1. head \in Seq(T) /\ w \in Seq(T)
        BY <1>1, <1>5
      <3> QED  BY <3>1, Concatenated
    <2> HIDE DEF body
    <2>3. /\ body \in Seq(T) /\ Len(body) = Len(head) + Len(w)
          /\ \A j \in 1..Len(head) : body[j] = head[j]
          /\ \A j \in 1..Len(w) : body[Len(head) + j] = w[j]
      BY <2>2 DEF body
    <2> QED  BY <1>5, <2>1, <2>3
  <1> HIDE DEF body
  <1>7. <<LF>> \in Seq(T) /\ Len(<<LF>>) = 1 /\ <<LF>>[1] = LF
    BY <1>4
  <1>8. /\ line \in Seq(T) /\ Len(line) = Len(body) + 1
        /\ \A j \in 1..Len(body) : line[j] = body[j]
        /\ line[Len(body) + 1] = LF
    <2>1. 1 \in 1..Len(<<LF>>)
      BY <1>7
    <2> DEFINE t == <<LF>>
    <2>2. t \in Seq(T) /\ Len(t) = 1 /\ t[1] = LF /\ 1 \in 1..Len(t)
      BY <1>7
    <2> HIDE DEF t
    <2>3. /\ body \o t \in Seq(T) /\ Len(body \o t) = Len(body) + Len(t)
          /\ \A j \in 1..Len(body) : (body \o t)[j] = body[j]
          /\ (body \o t)[Len(body) + 1] = t[1]
      BY <1>6, <2>2, Concatenated
    <2> QED  BY <2>2, <2>3 DEF t
  <1> HIDE DEF line
  <1>9. /\ Len(line) = Len(w) + 3 /\ line[1] = Char(entry.key) /\ line[2] = Equals
        /\ line[Len(w) + 3] = LF
        /\ \A j \in 1..Len(w) : line[j + 2] = w[j]
    <2>1. Len(body) = Len(w) + 2 /\ 1 \in 1..Len(body) /\ 2 \in 1..Len(body)
          /\ Len(body) + 1 = Len(w) + 3
      BY <1>1, <1>6
    <2>2. \A j \in 1..Len(w) : j + 2 = 2 + j /\ j + 2 \in 1..Len(body)
      BY <1>1, <2>1
    <2>3. \A j \in 1..Len(w) : line[j + 2] = w[j]
      BY <1>6, <1>8, <2>2
    <2> QED  BY <1>6, <1>8, <2>1, <2>3
  <1>10. ASSUME NEW j \in 1..Len(w) + 2
         PROVE  line[j] # NUL /\ line[j] \notin Breaks
    <2>1. CASE j = 1
      BY <1>9, <2>1 DEF Specials, Breaks
    <2>2. CASE j = 2
      BY <1>9, <2>2 DEF Breaks, Equals, NUL, CR, LF, Char
    <2>3. CASE j > 2
      <3>1. j - 2 \in 1..Len(w) /\ (j - 2) + 2 = j
        BY <1>1, <2>3
      <3>2. line[j] = w[j - 2]
        BY <1>9, <3>1
      <3> QED  BY <1>2, <3>1, <3>2 DEF Breaks
    <2> QED  BY <1>1, <2>1, <2>2, <2>3
  <1>11. ASSUME NEW j \in 1..Len(w) + 3 PROVE line[j] # NUL
    <2>1. CASE j = Len(w) + 3
      BY <1>9, <2>1 DEF LF, NUL, Char
    <2>2. CASE j # Len(w) + 3
      BY <1>1, <1>10, <2>2
    <2> QED  BY <2>1, <2>2
  <1> QED  BY <1>1, <1>3, <1>8, <1>9, <1>10, <1>11 DEF w

\* A line: the key c, the separator, and w.
KeyAndValue(line, c, w) ==
    /\ Len(line) = Len(w) + 2 /\ line[1] = c /\ line[2] = Equals
    /\ \A j \in 1..Len(w) : line[j + 2] = w[j]

(* The separator, the key and the value of a line. *)
LEMMA ReadLine ==
    ASSUME NEW T, NEW line \in Seq(T), NEW w \in Seq(T), NEW c, c # Equals, KeyAndValue(line, c, w)
    PROVE  Separator(line) = 2 /\ KeyOf(line) = <<c>> /\ ValueOf(line) = w
  <1> USE DEF KeyAndValue
  <1>0. Len(w) \in Nat /\ Len(line) \in Nat /\ Len(line) >= 2
    OBVIOUS
  <1>1. Separator(line) = 2
    <2> DEFINE I == {i \in 1..Len(line) : line[i] = Equals}
    <2>1. Separator(line) = IF I # {} THEN Min(I) ELSE 0
      BY Zenon DEF Separator, SelectInSeq
    <2>2. 2 \in I /\ I \subseteq Int /\ \A i \in I : 2 <= i
      <3>1. 1 \notin I
        OBVIOUS
      <3>2. 2 \in I /\ I \subseteq 1..Len(line)
        BY <1>0
      <3> HIDE DEF I
      <3> QED  BY <1>0, <3>1, <3>2
    <2> HIDE DEF I
    <2>3. Min(I) = 2
      BY <2>2, MinIs
    <2> QED  BY <2>1, <2>2, <2>3
  <1>2. KeyOf(line) = <<c>>
    <2>1. KeyOf(line) = SubSeq(line, 0 + 1, 1)
      BY <1>1 DEF KeyOf
    <2>2. /\ SubSeq(line, 0 + 1, 1) \in Seq(T) /\ Len(SubSeq(line, 0 + 1, 1)) = 1 - 0
          /\ \A j \in 1..1 - 0 : SubSeq(line, 0 + 1, 1)[j] = line[0 + j]
      BY <1>0, PartOf
    <2> DEFINE q == SubSeq(line, 0 + 1, 1)
    <2>3. q \in Seq(T) /\ Len(q) = 1 /\ q[1] = c
      BY <2>2
    <2> HIDE DEF q
    <2>4. q = <<c>>
      BY <2>3
    <2> QED  BY <2>1, <2>4 DEF q
  <1>3. ValueOf(line) = w
    <2> DEFINE q == SubSeq(line, 2 + 1, Len(line))
    <2>1. ValueOf(line) = q
      BY <1>1 DEF ValueOf
    <2>2. /\ q \in Seq(T) /\ Len(q) = Len(line) - 2
          /\ \A j \in 1..Len(line) - 2 : q[j] = line[2 + j]
      BY <1>0, PartOf
    <2> HIDE DEF q
    <2>3. Len(q) = Len(w)
      BY <1>0, <2>2
    <2>4. \A j \in 1..Len(w) : q[j] = w[j]
      <3>1. \A j \in 1..Len(w) : j \in 1..Len(line) - 2 /\ 2 + j = j + 2
        BY <1>0
      <3> QED  BY <2>2, <3>1
    <2>5. q = w
      BY <2>2, <2>3, <2>4
    <2> QED  BY <2>1, <2>5
  <1> QED  BY <1>1, <1>2, <1>3

\* Entries with distinct keys that are no special characters.
Writable(S, entries) ==
    /\ Len(entries) \in Nat \ {0}
    /\ \A i \in 1..Len(entries) :
          entries[i].value \in Seq(S) /\ Char(entries[i].key) \notin Specials
    /\ \A i, k \in 1..Len(entries) : entries[i].key = entries[k].key => i = k

\* The line of entry i in the serialized form, after off[i].
LineOf(entry, bytes, a, e) ==
    LET w == EscapedValue(entry.value) IN
    /\ Len(w) \in Nat /\ a \in Nat /\ e = a + Len(w) + 3 /\ e <= Len(bytes)
    /\ bytes[a + 1] = Char(entry.key) /\ bytes[a + 2] = Equals /\ bytes[e] = LF
    /\ \A j \in 1..Len(w) : bytes[a + 2 + j] = w[j]
    /\ \A j \in 1..Len(w) + 3 : bytes[a + j] # NUL
    /\ \A j \in 1..Len(w) + 2 : bytes[a + j] \notin Breaks

\* The symbols of the serialized form.
SymbolsOf(S, entries) ==
    Symbols(S) \cup Specials \cup {Char(entries[i].key) : i \in 1..Len(entries)}

\* The lines of the entries, with nothing before, between or after them.
LinesAt(off, entries, bytes) ==
    /\ off[1] = 0
    /\ \A i \in 1..Len(entries) : LineOf(entries[i], bytes, off[i], off[i+1])
    /\ \A p \in 1..Len(bytes) : \E i \in 1..Len(entries) :
          \E j \in 1..Len(EscapedValue(entries[i].value)) + 3 : p = off[i] + j

(* The serialized form is made of the lines of the entries. *)
LEMMA SerializedLines ==
    ASSUME NEW S, NEW entries, Writable(S, entries)
    PROVE  /\ Serialized(entries) \in Seq(SymbolsOf(S, entries))
           /\ Len(Serialized(entries)) \in Nat \ {0}
           /\ \A i \in 1..Len(entries) :
                 EscapedValue(entries[i].value) \in Seq(SymbolsOf(S, entries))
           /\ \E off : LinesAt(off, entries, Serialized(entries))
  <1> DEFINE n == Len(entries)
             bytes == Serialized(entries)
             T == SymbolsOf(S, entries)
             lines == [j \in 1..n |-> Line(entries[j])]
             W(i) == EscapedValue(entries[i].value)
  <1>1. n \in Nat \ {0}
    BY DEF Writable
  <1>2. bytes = FlattenSeq(lines)
    BY DEF Serialized
  <1>3. ASSUME NEW i \in 1..n
        PROVE  /\ W(i) \in Seq(T) /\ Len(W(i)) \in Nat
               /\ lines[i] \in Seq(T) /\ Len(lines[i]) = Len(W(i)) + 3
               /\ lines[i][1] = Char(entries[i].key) /\ lines[i][2] = Equals
               /\ \A j \in 1..Len(W(i)) : lines[i][j + 2] = W(i)[j]
               /\ lines[i][Len(W(i)) + 3] = LF
               /\ \A j \in 1..Len(W(i)) + 3 : lines[i][j] # NUL
               /\ \A j \in 1..Len(W(i)) + 2 : lines[i][j] \notin Breaks
    <2> DEFINE entry == entries[i]
    <2>1. /\ entry.value \in Seq(S) /\ Char(entry.key) \notin Specials
          /\ Symbols(S) \subseteq T /\ Specials \subseteq T /\ Char(entry.key) \in T
      BY DEF Writable, SymbolsOf
    <2>2. lines[i] = Line(entry)
      OBVIOUS
    <2> HIDE DEF T, entry, lines
    <2>3. LET w == EscapedValue(entry.value) IN
          /\ w \in Seq(T) /\ Len(w) \in Nat
          /\ Line(entry) \in Seq(T) /\ Len(Line(entry)) = Len(w) + 3
          /\ Line(entry)[1] = Char(entry.key) /\ Line(entry)[2] = Equals
          /\ \A j \in 1..Len(w) : Line(entry)[j + 2] = w[j]
          /\ Line(entry)[Len(w) + 3] = LF
          /\ \A j \in 1..Len(w) + 3 : Line(entry)[j] # NUL
          /\ \A j \in 1..Len(w) + 2 : Line(entry)[j] \notin Breaks
      BY <2>1, LineSymbols
    <2> QED  BY <2>2, <2>3 DEF entry
  <1>4. lines \in [1..n -> Seq(T)]
    <2>1. lines = [i \in 1..n |-> lines[i]]
      OBVIOUS
    <2> HIDE DEF lines, T
    <2> QED  BY <1>3, <2>1
  <1> HIDE DEF n, lines, T, W, bytes
  <1>5. bytes \in Seq(T) /\ \E off : Layout(off, n, lines, bytes)
    BY <1>1, <1>2, <1>4, Flattened
  <1>6. PICK off : Layout(off, n, lines, bytes)
    BY <1>5
  <1>7. \A i \in 1..n : Len(lines[i]) \in Nat
    BY <1>3
  <1>8. Covers(off, n, lines, bytes)
    BY <1>1, <1>6, <1>7, LayoutCovers
  <1>9. Len(bytes) = off[n+1] /\ off[1] = 0 /\ Len(bytes) \in Nat
    BY <1>5, <1>6 DEF Layout
  <1>10. ASSUME NEW i \in 1..n PROVE LineOf(entries[i], bytes, off[i], off[i+1])
    <2> DEFINE a == off[i]
               e == off[i+1]
               w == W(i)
    <2>1. /\ a \in Nat /\ e = a + Len(lines[i])
          /\ \A j \in 1..Len(lines[i]) : bytes[a + j] = lines[i][j]
      <3>1. i \in 1..n+1
        BY <1>1
      <3>2. off[i] \in Nat
        BY <1>6, <3>1 DEF Layout
      <3>3. /\ off[i+1] = off[i] + Len(lines[i])
            /\ \A j \in 1..Len(lines[i]) : bytes[off[i] + j] = lines[i][j]
        BY <1>6, Zenon DEF Layout
      <3> QED  BY <3>2, <3>3
    <2>2. e <= Len(bytes)
      <3>1. i + 1 \in 1..n+1 /\ n + 1 \in (i+1)..n+1
        BY <1>1
      <3>2. off[i+1] <= off[n+1]
        BY <1>1, <1>6, <1>7, <3>1, LayoutOrder
      <3> QED  BY <1>9, <3>2
    <2>3. /\ Len(w) \in Nat /\ Len(lines[i]) = Len(w) + 3
          /\ lines[i][1] = Char(entries[i].key) /\ lines[i][2] = Equals
          /\ \A j \in 1..Len(w) : lines[i][j + 2] = w[j]
          /\ lines[i][Len(w) + 3] = LF
          /\ \A j \in 1..Len(w) + 3 : lines[i][j] # NUL
          /\ \A j \in 1..Len(w) + 2 : lines[i][j] \notin Breaks
      BY <1>3
    <2> HIDE DEF a, e, w
    <2>4. e = a + Len(w) + 3
      BY <2>1, <2>3
    <2>5. /\ 1 \in 1..Len(lines[i]) /\ 2 \in 1..Len(lines[i]) /\ Len(w) + 3 \in 1..Len(lines[i])
          /\ a + (Len(w) + 3) = e
          /\ \A j \in 1..Len(w) : j + 2 \in 1..Len(lines[i]) /\ a + 2 + j = a + (j + 2)
          /\ \A j \in 1..Len(w) + 2 : j \in 1..Len(lines[i])
      BY <2>1, <2>3, <2>4
    <2>6. bytes[a + 1] = Char(entries[i].key) /\ bytes[a + 2] = Equals /\ bytes[e] = LF
      BY <2>1, <2>3, <2>5
    <2>7. \A j \in 1..Len(w) : bytes[a + 2 + j] = w[j]
      BY <2>1, <2>3, <2>5
    <2>8. /\ \A j \in 1..Len(w) + 3 : bytes[a + j] # NUL
          /\ \A j \in 1..Len(w) + 2 : bytes[a + j] \notin Breaks
      BY <2>1, <2>3, <2>5
    <2> QED  BY <2>1, <2>2, <2>3, <2>4, <2>6, <2>7, <2>8 DEF LineOf, a, e, w, W
  <1>11. ASSUME NEW p \in 1..Len(bytes)
         PROVE  \E i \in 1..n : \E j \in 1..Len(W(i)) + 3 : p = off[i] + j
    BY <1>3, <1>8 DEF Covers
  <1>12. Len(bytes) # 0
    <2>1. 1 \in 1..n
      BY <1>1
    <2>2. LineOf(entries[1], bytes, off[1], off[1+1])
      BY <1>10, <2>1
    <2> QED  BY <1>9, <2>2 DEF LineOf
  <1>13. LinesAt(off, entries, bytes)
    BY <1>9, <1>10, <1>11 DEF LinesAt, n, W
  <1> QED  BY <1>3, <1>5, <1>9, <1>12, <1>13 DEF n, bytes, T, W

(* The reader finds the line that starts after a, and in it the key and    *)
(* the escaped value.                                                      *)
LEMMA ReadLineAt ==
    ASSUME NEW T, NEW bytes \in Seq(T), NEW entry, NEW a, NEW e, LineOf(entry, bytes, a, e),
           EscapedValue(entry.value) \in Seq(T), Char(entry.key) \notin Specials
    PROVE  LET line == LineAt(bytes, a + 1) IN
           /\ Separator(line) = 2 /\ line[1] = Char(entry.key)
           /\ KeyOf(line) = <<Char(entry.key)>>
           /\ ValueOf(line) = EscapedValue(entry.value)
  <1> DEFINE w == EscapedValue(entry.value)
             c == Char(entry.key)
             b == a + Len(w) + 2
             breaks == {j \in a+1..Len(bytes) : bytes[j] \in Breaks} \cup {Len(bytes) + 1}
             line == SubSeq(bytes, a + 1, b)
  <1>1. /\ Len(w) \in Nat /\ a \in Nat /\ e = a + Len(w) + 3 /\ e <= Len(bytes)
        /\ bytes[a + 1] = c /\ bytes[a + 2] = Equals /\ bytes[e] = LF
        /\ \A j \in 1..Len(w) : bytes[a + 2 + j] = w[j]
        /\ \A j \in 1..Len(w) + 2 : bytes[a + j] \notin Breaks
    BY DEF LineOf
  <1>2. w \in Seq(T) /\ c # Equals /\ Len(bytes) \in Nat
    BY DEF Specials
  <1> HIDE DEF w, c
  <1>3. LineAt(bytes, a + 1) = SubSeq(bytes, a + 1, Min(breaks) - 1)
    BY DEF LineAt
  <1>4. Min(breaks) = e
    <2>1. e \in breaks
      BY <1>1, <1>2 DEF Breaks
    <2>2. breaks \subseteq Int
      BY <1>1, <1>2
    <2>3. ASSUME NEW j \in breaks PROVE e <= j
      <3>1. CASE j = Len(bytes) + 1
        BY <1>1, <1>2, <3>1
      <3>2. CASE j \in a+1..Len(bytes) /\ bytes[j] \in Breaks
        <4>1. j - a \notin 1..Len(w) + 2 /\ j \in Int
          <5>1. SUFFICES ASSUME j - a \in 1..Len(w) + 2 PROVE FALSE
            BY <1>1, <1>2, <3>2
          <5>2. a + (j - a) = j
            BY <1>1, <1>2, <3>2
          <5> QED  BY <1>1, <3>2, <5>1, <5>2
        <4> QED  BY <1>1, <1>2, <3>2, <4>1
      <3> QED  BY <2>3, <3>1, <3>2
    <2> HIDE DEF breaks
    <2> QED  BY <2>1, <2>2, <2>3, MinIs
  <1>5. e - 1 = b /\ a <= b /\ b <= Len(bytes) /\ b \in Nat /\ b - a = Len(w) + 2
    BY <1>1, <1>2
  <1> HIDE DEF b, breaks
  <1>6. /\ line \in Seq(T) /\ Len(line) = b - a
        /\ \A j \in 1..b - a : line[j] = bytes[a + j]
    BY <1>1, <1>2, <1>5, PartOf
  <1> HIDE DEF line
  <1>7. LineAt(bytes, a + 1) = line
    BY <1>3, <1>4, <1>5 DEF line
  <1>8. Len(line) = Len(w) + 2 /\ line[1] = c /\ line[2] = Equals
    <2>1. 1 \in 1..b - a /\ 2 \in 1..b - a
      BY <1>1, <1>5
    <2> QED  BY <1>1, <1>5, <1>6, <2>1
  <1>9. \A j \in 1..Len(w) : line[j + 2] = w[j]
    <2>1. \A j \in 1..Len(w) : j + 2 \in 1..b - a /\ a + (j + 2) = a + 2 + j
      BY <1>1, <1>5
    <2> QED  BY <1>1, <1>6, <2>1
  <1>10. Separator(line) = 2 /\ KeyOf(line) = <<c>> /\ ValueOf(line) = w
    <2>1. line \in Seq(T) /\ w \in Seq(T) /\ c # Equals
      BY <1>2, <1>6
    <2>2. KeyAndValue(line, c, w)
      BY <1>8, <1>9 DEF KeyAndValue
    <2> QED  BY <2>1, <2>2, ReadLine
  <1> QED  BY <1>7, <1>8, <1>10 DEF w, c

(* parseDictionary accepts what DictionaryBuilder wrote and finds in it    *)
(* every key with its value, and no other key: no value can end a line,    *)
(* begin another or look like an entry.                                    *)
THEOREM ParsedBack ==
    ASSUME NEW S, NEW entries, Writable(S, entries)
    PROVE  LET n == Len(entries)
               bytes == Serialized(entries)
               parsed == ParseDictionary(bytes) IN
           /\ Readable(bytes)
           /\ DOMAIN parsed = {<<Char(entries[i].key)>> : i \in 1..n}
           /\ \A i \in 1..n : parsed[<<Char(entries[i].key)>>] = entries[i].value
  <1> DEFINE n == Len(entries)
             bytes == Serialized(entries)
             T == SymbolsOf(S, entries)
             W(i) == EscapedValue(entries[i].value)
             K(i) == <<Char(entries[i].key)>>
             parsed == ParseDictionary(bytes)
  <1>1. /\ bytes \in Seq(T) /\ Len(bytes) \in Nat \ {0}
        /\ \A i \in 1..n : W(i) \in Seq(T)
        /\ \E off : LinesAt(off, entries, bytes)
    BY SerializedLines
  <1>2. PICK off :
              /\ off[1] = 0
              /\ \A i \in 1..n : LineOf(entries[i], bytes, off[i], off[i+1])
              /\ \A p \in 1..Len(bytes) : \E i \in 1..n : \E j \in 1..Len(W(i)) + 3 : p = off[i] + j
    BY <1>1 DEF LinesAt
  <1>3. /\ n \in Nat \ {0}
        /\ \A i \in 1..n : entries[i].value \in Seq(S) /\ Char(entries[i].key) \notin Specials
        /\ \A i, k \in 1..n : K(i) = K(k) => i = k
    BY DEF Writable, Char
  <1> HIDE DEF n, bytes, T, W
  <1>4. ASSUME NEW i \in 1..n
        PROVE  LET line == LineAt(bytes, off[i] + 1) IN
               /\ Separator(line) = 2 /\ line[1] = Char(entries[i].key)
               /\ KeyOf(line) = K(i) /\ ValueOf(line) = W(i)
    <2> DEFINE entry == entries[i]
               a == off[i]
               e == off[i+1]
    <2>1. /\ LineOf(entry, bytes, a, e) /\ EscapedValue(entry.value) \in Seq(T)
          /\ bytes \in Seq(T) /\ Char(entry.key) \notin Specials
      BY <1>1, <1>2, <1>3 DEF W
    <2> HIDE DEF entry, a, e
    <2>2. LET line == LineAt(bytes, a + 1) IN
          /\ Separator(line) = 2 /\ line[1] = Char(entry.key)
          /\ KeyOf(line) = <<Char(entry.key)>>
          /\ ValueOf(line) = EscapedValue(entry.value)
      BY <2>1, ReadLineAt
    <2> QED  BY <2>2 DEF entry, a, W
  <1>5. ASSUME NEW i \in 1..n
        PROVE  /\ off[i] \in Nat /\ off[i] + 1 \in 1..Len(bytes) /\ Len(W(i)) \in Nat
               /\ off[i+1] = off[i] + Len(W(i)) + 3 /\ off[i+1] <= Len(bytes)
               /\ bytes[off[i+1]] = LF
               /\ \A j \in 1..Len(W(i)) + 3 : bytes[off[i] + j] # NUL
               /\ \A j \in 1..Len(W(i)) + 2 : bytes[off[i] + j] \notin Breaks
    <2>1. /\ off[i] \in Nat /\ Len(W(i)) \in Nat
          /\ off[i+1] = off[i] + Len(W(i)) + 3 /\ off[i+1] <= Len(bytes)
          /\ bytes[off[i+1]] = LF
          /\ \A j \in 1..Len(W(i)) + 3 : bytes[off[i] + j] # NUL
          /\ \A j \in 1..Len(W(i)) + 2 : bytes[off[i] + j] \notin Breaks
      BY <1>2 DEF LineOf, W
    <2>2. off[i] + 1 \in 1..Len(bytes)
      <3> DEFINE a == off[i]
                 b == off[i+1]
                 l == Len(W(i))
                 m == Len(bytes)
      <3>1. a \in Nat /\ l \in Nat /\ b = a + l + 3 /\ b <= m /\ m \in Nat
        BY <1>1, <2>1
      <3> HIDE DEF a, b, l, m
      <3>2. a + 1 \in 1..m
        BY <3>1
      <3> QED  BY <3>2 DEF a, m
    <2> QED  BY <2>1, <2>2
  <1>6. \A p \in 1..Len(bytes) : bytes[p] # NUL
    BY <1>2, <1>5
  <1>7. LineStarts(bytes) = {off[i] + 1 : i \in 1..n}
    <2>1. ASSUME NEW i \in 1..n PROVE off[i] + 1 \in LineStarts(bytes)
      <3>1. off[i] + 1 \in 1..Len(bytes) /\ 1 \in 1..Len(W(i)) + 2
        BY <1>5
      <3>2. bytes[off[i] + 1] \notin Breaks
        BY <1>5, <3>1
      <3>3. CASE i = 1
        BY <1>2, <3>1, <3>2, <3>3 DEF LineStarts
      <3>4. CASE i # 1
        <4> DEFINE h == i - 1
        <4>1. h \in 1..n /\ h + 1 = i
          BY <1>3, <3>4
        <4> HIDE DEF h
        <4>2. bytes[off[i]] = LF
          BY <1>5, <4>1
        <4>3. (off[i] + 1) - 1 = off[i]
          BY <1>5
        <4> QED  BY <3>1, <3>2, <4>2, <4>3 DEF LineStarts, Breaks
      <3> QED  BY <3>3, <3>4
    <2>2. ASSUME NEW p \in LineStarts(bytes) PROVE \E i \in 1..n : p = off[i] + 1
      <3>1. p \in 1..Len(bytes) /\ bytes[p] \notin Breaks /\ (p = 1 \/ bytes[p-1] \in Breaks)
        BY <2>2 DEF LineStarts
      <3>2. PICK i \in 1..n : \E j \in 1..Len(W(i)) + 3 : p = off[i] + j
        BY <1>2, <3>1
      <3>3. PICK j \in 1..Len(W(i)) + 3 : p = off[i] + j
        BY <3>2
      <3>4. CASE j = 1
        BY <3>3, <3>4
      <3>5. CASE j # 1
        <4>1. j # Len(W(i)) + 3
          <5>1. SUFFICES ASSUME j = Len(W(i)) + 3 PROVE FALSE
            OBVIOUS
          <5>2. off[i+1] = off[i] + Len(W(i)) + 3 /\ off[i] \in Nat /\ Len(W(i)) \in Nat
            BY <1>5
          <5>3. p = off[i+1]
            BY <3>3, <5>1, <5>2
          <5> QED  BY <1>5, <3>1, <5>3 DEF Breaks
        <4>2. j - 1 \in 1..Len(W(i)) + 2 /\ p - 1 = off[i] + (j - 1) /\ p # 1
          BY <1>5, <3>3, <3>5, <4>1
        <4> QED  BY <1>5, <3>1, <4>2
      <3> QED  BY <3>4, <3>5
    <2> QED  BY <2>1, <2>2
  <1>8. Readable(bytes)
    <2>1. ASSUME NEW p \in LineStarts(bytes)
          PROVE  LET line == LineAt(bytes, p) IN
                 /\ Separator(line) > 1
                 /\ \A j \in 1..Separator(line) - 1 : line[j] # Backslash
                 /\ ~ IncompleteEscape(ValueOf(line))
      <3>1. PICK i \in 1..n : p = off[i] + 1
        BY <1>7, <2>1
      <3> DEFINE line == LineAt(bytes, p)
      <3>2. /\ Separator(line) = 2 /\ line[1] = Char(entries[i].key) /\ ValueOf(line) = W(i)
        BY <1>4, <3>1
      <3>3. ~ IncompleteEscape(W(i))
        BY <1>3, Unescaped DEF W
      <3>4. line[1] # Backslash
        BY <1>3, <3>2 DEF Specials
      <3> HIDE DEF line
      <3>5. \A j \in 1..Separator(line) - 1 : j = 1
        BY <3>2
      <3> QED  BY <3>2, <3>3, <3>4, <3>5 DEF line
    <2> QED  BY <1>6, <2>1 DEF Readable
  <1> DEFINE starts == LineStarts(bytes)
             KeyAt(p) == KeyOf(LineAt(bytes, p))
             StartsOf(key) == {p \in starts : KeyAt(p) = key}
  <1>9. parsed = [key \in {KeyAt(p) : p \in starts} |->
                     UnescapeValue(ValueOf(LineAt(bytes, Min(StartsOf(key)))))]
    BY DEF ParseDictionary
  <1>10. \A i \in 1..n : KeyAt(off[i] + 1) = K(i)
    BY <1>4
  <1> HIDE DEF K, KeyAt, parsed
  <1>11. {KeyAt(p) : p \in starts} = {K(i) : i \in 1..n}
    BY <1>7, <1>10
  <1>12. ASSUME NEW i \in 1..n PROVE parsed[K(i)] = entries[i].value
    <2>1. StartsOf(K(i)) = {off[i] + 1}
      BY <1>3, <1>7, <1>10
    <2>2. Min(StartsOf(K(i))) = off[i] + 1
      <3> DEFINE p == off[i] + 1
      <3>1. p \in Int
        BY <1>5
      <3> HIDE DEF p
      <3>2. Min({p}) = p
        BY <3>1, MinIs
      <3> QED  BY <2>1, <3>2 DEF p
    <2>3. ValueOf(LineAt(bytes, off[i] + 1)) = W(i)
      BY <1>4
    <2>4. UnescapeValue(W(i)) = entries[i].value
      BY <1>3, Unescaped DEF W
    <2>5. K(i) \in {KeyAt(p) : p \in starts}
      BY <1>11
    <2> HIDE DEF StartsOf
    <2>6. parsed[K(i)] = UnescapeValue(ValueOf(LineAt(bytes, Min(StartsOf(K(i))))))
      BY <1>9, <2>5
    <2> QED  BY <2>2, <2>3, <2>4, <2>6
  <1>13. DOMAIN parsed = {K(i) : i \in 1..n}
    BY <1>9, <1>11
  <1> QED  BY <1>8, <1>12, <1>13 DEF n, bytes, K, parsed

-----------------------------------------------------------------------------
(* Numbers. *)

\* g is what Hex is defined to be.
IsHex(g) ==
    g = [n \in 0..MaxUint |->
            IF n < Radix THEN <<Char(HexDigits[n + 1])>>
            ELSE Append(g[n \div Radix], Char(HexDigits[(n % Radix) + 1]))]

(* Hex is the function its recursive definition chooses. *)
LEMMA HexIs ==
    Hex = CHOOSE g : IsHex(g)
    BY Zenon DEF Hex, IsHex

(* Division. *)
LEMMA Divided ==
    ASSUME NEW r \in Nat, r >= 2, NEW n \in Nat, NEW m \in Nat, n <= m
    PROVE  /\ n \div r \in Nat /\ n % r \in 0..r-1
           /\ n = ((n \div r) * r) + (n % r)
           /\ n >= r => n \div r < n
           /\ n \div r <= m \div r
  <1>1. n \div r \in Int /\ n % r \in 0..r-1
    OBVIOUS
  <1>2. n = ((n \div r) * r) + (n % r)
    BY <1>1
  <1>3. n \div r >= 0
    OBVIOUS
  <1>4. n >= r => n \div r < n
    OBVIOUS
  <1>5. n \div r <= m \div r
    OBVIOUS
  <1> QED  BY <1>1, <1>2, <1>3, <1>4, <1>5

\* The digits.
HexChars == {Char(HexDigits[i]) : i \in 1..16}

(* A number without its last digit, and the last digit. *)
LEMMA LastDigit ==
    ASSUME NEW n \in 0..MaxUint
    PROVE  LET q == n \div Radix  i == n % Radix IN
           /\ q \in Nat /\ q \in 0..(MaxUint \div Radix) /\ q \in 0..MaxUint
           /\ i \in 0..15 /\ Char(HexDigits[i + 1]) \in HexChars
           /\ n = (q * Radix) + i
           /\ ~ (n < Radix) => q < n
           /\ n < Radix => n \in 0..15 /\ Char(HexDigits[n + 1]) \in HexChars
  <1> DEFINE q == n \div Radix
             i == n % Radix
             p == MaxUint \div Radix
  <1>1. MaxUint \in Nat /\ Radix \in Nat /\ Radix >= 2 /\ Radix <= 16 /\ n \in Nat /\ n <= MaxUint
    BY DictionaryAssumption
  <1>2. /\ q \in Nat /\ i \in 0..Radix-1 /\ n = (q * Radix) + i
        /\ n >= Radix => q < n
        /\ q <= p
    BY <1>1, Divided
  <1>3. p \in Nat
    BY <1>1, Divided
  <1>4. n < Radix => q <= n
    BY <1>1
  <1>5. \A j \in 0..15 : Char(HexDigits[j + 1]) \in HexChars
    BY DEF HexChars
  <1> HIDE DEF q, i, p
  <1>6. i \in 0..15 /\ q \in 0..p /\ q \in 0..MaxUint /\ (n < Radix => n \in 0..15)
    BY <1>1, <1>2, <1>3, <1>4
  <1>7. ~ (n < Radix) => q < n
    BY <1>1, <1>2
  <1> QED  BY <1>2, <1>5, <1>6, <1>7 DEF q, i, p

\* What HexUint makes of each symbol, and of the first j symbols.
Nibbles(value) ==
    [j \in 1..Len(value) |-> SelectInSeq(HexDigits, LAMBDA d : Char(d) = value[j]) - 1]

IsRead(g, f, value) ==
    g = [j \in 0..Len(value) |->
            IF j = 0 THEN 0
            ELSE IF f[j] < 0 \/ g[j - 1] \notin 0..(MaxUint \div Radix) THEN -1
            ELSE g[j - 1] * Radix + f[j]]

(* HexUint is the last of them. *)
LEMMA HexUintIs ==
    ASSUME NEW d, NEW key, Field(d, key) # <<>>
    PROVE  HexUint(d, key) =
             (CHOOSE g : IsRead(g, Nibbles(Field(d, key)), Field(d, key)))[Len(Field(d, key))]
    BY Zenon DEF HexUint, IsRead, Nibbles

(* The recursive definition of Hex has a solution, because a number is     *)
(* greater than what is left of it when the last digit is dropped.         *)
LEMMA HexExists ==
    \E g : IsHex(g)
  <1> DEFINE Unfold(g, n) == IF n < Radix THEN <<Char(HexDigits[n + 1])>>
                           ELSE Append(g[n \div Radix], Char(HexDigits[(n % Radix) + 1]))
             Part(g, k) == g = [n \in 0..k |-> Unfold(g, n)]
             bad == {k \in 0..MaxUint : ~ \E g : Part(g, k)}
  <1>0. MaxUint \in Nat /\ Radix \in Nat /\ Radix >= 2
    BY DictionaryAssumption
  <1>1. SUFFICES ASSUME bad # {} PROVE FALSE
    <2>1. MaxUint \in 0..MaxUint
      BY <1>0
    <2>2. SUFFICES \E g : Part(g, MaxUint)
      BY Zenon DEF IsHex
    <2> HIDE DEF Part
    <2> QED  BY <1>1, <2>1
  <1>2. PICK k \in bad : k \in 0..MaxUint /\ k - 1 \notin bad
    <2>1. bad \subseteq 0..MaxUint /\ 0 \in Nat
      OBVIOUS
    <2> HIDE DEF bad
    <2> QED  BY <1>0, <1>1, <2>1, LeastIndex
  <1>3. ASSUME NEW g, NEW h, NEW n \in 0..MaxUint, ~ (n < Radix) => g[n \div Radix] = h[n \div Radix]
        PROVE  Unfold(g, n) = Unfold(h, n)
    <2>1. CASE n < Radix
      BY <2>1
    <2>2. CASE ~ (n < Radix)
      <3>1. g[n \div Radix] = h[n \div Radix]
        BY <1>0, <1>3, <2>2
      <3> QED  BY <2>2, <3>1
    <2> QED  BY <2>1, <2>2
  <1>4. ASSUME NEW n \in 0..MaxUint, ~ (n < Radix)
        PROVE  n \div Radix \in Nat /\ n \div Radix < n
    BY <1>4, LastDigit
  <1> HIDE DEF Unfold
  <1>5. CASE k = 0
    <2> DEFINE c == Unfold(<<>>, 0)
               z == [n \in 0..0 |-> c]
    <2>1. Unfold(z, 0) = c
      BY <1>0, <1>3
    <2> HIDE DEF c
    <2>2. Part(z, 0)
      BY <2>1
    <2> QED  BY <1>2, <1>5, <2>2
  <1>6. CASE k # 0
    <2>1. k - 1 \in 0..MaxUint /\ k \in Nat
      BY <1>0, <1>2, <1>6
    <2>2. PICK g : Part(g, k - 1)
      BY <1>2, <2>1
    <2> DEFINE h == [n \in 0..k |-> IF n = k THEN Unfold(g, k) ELSE g[n]]
    <2>3. ASSUME NEW n \in 0..k PROVE h[n] = Unfold(h, n)
      <3>1. n \in 0..MaxUint /\ (~ (n < Radix) => g[n \div Radix] = h[n \div Radix])
        <4>1. ASSUME ~ (n < Radix) PROVE g[n \div Radix] = h[n \div Radix]
          <5> DEFINE q == n \div Radix
          <5>0. n \in 0..MaxUint
            BY <1>0, <1>2
          <5>1. q \in Nat /\ q < n
            <6> HIDE DEF bad, h
            <6> QED  BY <1>4, <4>1, <5>0
          <5> HIDE DEF q
          <5>2. q \in 0..k /\ q # k
            BY <2>1, <5>1
          <5>3. g[q] = h[q]
            BY <5>2
          <5> QED  BY <5>3 DEF q
        <4> QED  BY <1>0, <1>2, <2>1, <4>1
      <3>2. Unfold(g, n) = Unfold(h, n)
        BY <1>3, <3>1
      <3>3. CASE n = k
        BY <3>2, <3>3
      <3>4. CASE n # k
        <4>1. n \in 0..k-1 /\ h[n] = g[n]
          BY <2>1, <3>4
        <4>2. g[n] = Unfold(g, n)
          BY <2>2, <4>1
        <4> QED  BY <3>2, <4>1, <4>2
      <3> QED  BY <3>3, <3>4
    <2>4. h = [n \in 0..k |-> h[n]]
      OBVIOUS
    <2>5. Part(h, k)
      <3> HIDE DEF h
      <3> QED  BY <2>3, <2>4
    <2> QED  BY <1>2, <2>5
  <1> QED  BY <1>5, <1>6

(* The digits of a number: the digits of its quotient, and one more. *)
LEMMA HexSteps ==
    ASSUME NEW n \in 0..MaxUint
    PROVE  Hex[n] = IF n < Radix THEN <<Char(HexDigits[n + 1])>>
                    ELSE Append(Hex[n \div Radix], Char(HexDigits[(n % Radix) + 1]))
  <1>1. IsHex(Hex)
    <2> DEFINE chosen == CHOOSE f : IsHex(f)
    <2>1. IsHex(chosen)
      BY HexExists
    <2>2. Hex = chosen
      BY HexIs
    <2> QED  BY <2>1, <2>2
  <1> QED  BY <1>1, Zenon DEF IsHex

\* A symbol is the i-th digit.
IsDigit(c, i) == i \in 0..15 /\ c = Char(HexDigits[i + 1])

(* A digit reads as what it was written for. *)
LEMMA DigitReads ==
    ASSUME NEW c, NEW i, IsDigit(c, i)
    PROVE  SelectInSeq(HexDigits, LAMBDA d : Char(d) = c) = i + 1
  <1> DEFINE e == i + 1
             I == {j \in 1..Len(HexDigits) : Char(HexDigits[j]) = c}
  <1>1. SelectInSeq(HexDigits, LAMBDA d : Char(d) = c) = IF I # {} THEN Min(I) ELSE 0
    BY Zenon DEF SelectInSeq
  <1>2. Len(HexDigits) = 16
    BY DEF HexDigits
  <1>3. e \in 1..16 /\ c = Char(HexDigits[e])
    BY DEF IsDigit
  <1> HIDE DEF e
  <1>4. \A j \in 1..16 : HexDigits[j] = HexDigits[e] => j = e
    BY <1>3 DEF HexDigits
  <1>5. I = {e}
    BY <1>2, <1>3, <1>4 DEF Char
  <1> HIDE DEF I
  <1>6. Min(I) = e
    BY <1>3, <1>5, MinIs
  <1> QED  BY <1>1, <1>5, <1>6 DEF e

(* A number has a digit, and nothing else. *)
LEMMA HexTyped ==
    ASSUME NEW n \in 0..MaxUint
    PROVE  Hex[n] \in Seq(HexChars) /\ Len(Hex[n]) \in Nat \ {0}
  <1> DEFINE Typed(s) == s \in Seq(HexChars) /\ Len(s) \in Nat \ {0}
             bad == {m \in 0..MaxUint : ~ Typed(Hex[m])}
  <1>0. MaxUint \in Nat /\ Radix \in Nat /\ Radix >= 2 /\ Radix <= 16
    BY DictionaryAssumption
  <1>1. SUFFICES ASSUME bad # {} PROVE FALSE
    OBVIOUS
  <1>2. PICK m \in bad : \A l \in bad : m <= l
    <2>1. bad \subseteq Nat
      BY <1>0
    <2> HIDE DEF bad
    <2> QED  BY <1>1, <2>1, LeastNatural
  <1>3. m \in 0..MaxUint /\ m \in Nat /\ ~ Typed(Hex[m])
    BY <1>0, <1>2
  <1>5. CASE m < Radix
    <2> DEFINE c == Char(HexDigits[m + 1])
    <2>1. c \in HexChars /\ Hex[m] = <<c>>
      BY <1>3, <1>5, HexSteps, LastDigit
    <2> HIDE DEF c
    <2>2. Typed(<<c>>)
      BY <2>1
    <2> QED  BY <1>3, <2>1, <2>2
  <1>6. CASE ~ (m < Radix)
    <2> DEFINE c == Char(HexDigits[(m % Radix) + 1])
               q == m \div Radix
    <2>1. c \in HexChars /\ Hex[m] = Append(Hex[q], c)
      BY <1>3, <1>6, HexSteps, LastDigit
    <2>2. q \in Nat /\ q < m
      BY <1>3, <1>6, LastDigit
    <2> HIDE DEF c, q
    <2>3. q \in 0..MaxUint /\ ~ (m <= q)
      BY <1>0, <1>3, <2>2
    <2>4. Typed(Hex[q])
      <3>1. q \notin bad
        <4> HIDE DEF bad
        <4> QED  BY <1>2, <2>3
      <3> HIDE DEF Typed
      <3> QED  BY <2>3, <3>1
    <2> DEFINE s == Hex[q]
    <2>5. Typed(s)
      BY <2>4
    <2> HIDE DEF s
    <2>6. Typed(Append(s, c))
      BY <2>1, <2>5
    <2> QED  BY <1>3, <2>1, <2>6 DEF s
  <1> QED  BY <1>5, <1>6

(* The recursive definition of the reader of numbers has a solution. *)
LEMMA ReadExists ==
    ASSUME NEW value, Len(value) \in Nat, NEW f
    PROVE  \E g : IsRead(g, f, value)
  <1> DEFINE n == Len(value)
             Read(r, x) == IF x < 0 \/ r \notin 0..(MaxUint \div Radix) THEN -1 ELSE r * Radix + x
             Unfold(g, j) == IF j = 0 THEN 0 ELSE Read(g[j - 1], f[j])
             Part(g, k) == g = [j \in 0..k |-> Unfold(g, j)]
             bad == {k \in 0..n : ~ \E g : Part(g, k)}
  <1>1. SUFFICES ASSUME bad # {} PROVE FALSE
    <2>1. n \in 0..n
      OBVIOUS
    <2>2. SUFFICES \E g : Part(g, n)
      BY Zenon DEF IsRead
    <2> HIDE DEF Part
    <2> QED  BY <1>1, <2>1
  <1> HIDE DEF Read
  <1>2. PICK k \in bad : k \in 0..n /\ k - 1 \notin bad
    <2>1. bad \subseteq 0..n /\ 0 \in Nat
      OBVIOUS
    <2> HIDE DEF bad
    <2> QED  BY <1>1, <2>1, LeastIndex
  <1>3. CASE k = 0
    <2> DEFINE z == [j \in 0..0 |-> 0]
    <2>1. Part(z, 0)
      OBVIOUS
    <2> QED  BY <1>2, <1>3, <2>1
  <1>4. CASE k # 0
    <2>1. k - 1 \in 0..n
      BY <1>2, <1>4
    <2>2. PICK g : Part(g, k - 1)
      BY <1>2, <2>1
    <2> DEFINE h == [j \in 0..k |-> IF j = k THEN Unfold(g, k) ELSE g[j]]
    <2>3. ASSUME NEW j \in 0..k PROVE h[j] = Unfold(h, j)
      <3>1. CASE j = k
        <4>1. h[k-1] = g[k-1]
          BY <1>2, <1>4
        <4> QED  BY <3>1, <4>1
      <3>2. CASE j # k
        <4>1. j \in 0..k-1 /\ h[j] = g[j]
          BY <1>2, <3>2
        <4>2. j # 0 => h[j-1] = g[j-1]
          BY <1>2, <3>2
        <4>3. g[j] = Unfold(g, j)
          BY <2>2, <4>1
        <4> QED  BY <4>1, <4>2, <4>3
      <3> QED  BY <3>1, <3>2
    <2>4. h = [j \in 0..k |-> h[j]]
      OBVIOUS
    <2>5. Part(h, k)
      <3> HIDE DEF h
      <3> QED  BY <2>3, <2>4
    <2> QED  BY <1>2, <2>5
  <1> QED  BY <1>3, <1>4

\* A value begins with the digits of n.
BeginsWith(value, s) ==
    /\ Len(s) \in 0..Len(value)
    /\ \A j \in 1..Len(s) : value[j] = s[j]

\* What can be multiplied by the radix.
Fits(p) == p \in 0..(MaxUint \div Radix)

(* Where a digit follows what was read, the reader has the number with the *)
(* digit added.                                                            *)
LEMMA ReadStep ==
    ASSUME NEW value, Len(value) \in Nat, NEW g, IsRead(g, Nibbles(value), value),
           NEW l \in 1..Len(value), NEW i, IsDigit(value[l], i),
           NEW p, g[l - 1] = p, Fits(p)
    PROVE  g[l] = (p * Radix) + i
  <1>1. Nibbles(value)[l] = i
    <2>1. Nibbles(value)[l] = SelectInSeq(HexDigits, LAMBDA d : Char(d) = value[l]) - 1
      BY Zenon DEF Nibbles
    <2>2. SelectInSeq(HexDigits, LAMBDA d : Char(d) = value[l]) = i + 1
      BY DigitReads
    <2>3. i \in Nat
      BY DEF IsDigit
    <2> QED  BY <2>1, <2>2, <2>3
  <1> DEFINE f == Nibbles(value)
  <1>2. f[l] = i
    BY <1>1
  <1> HIDE DEF f
  <1>3. g = [j \in 0..Len(value) |->
               IF j = 0 THEN 0
               ELSE IF f[j] < 0 \/ g[j - 1] \notin 0..(MaxUint \div Radix) THEN -1
               ELSE g[j - 1] * Radix + f[j]]
    BY Zenon DEF IsRead, f
  <1>4. g[l] = IF l = 0 THEN 0
               ELSE IF f[l] < 0 \/ g[l - 1] \notin 0..(MaxUint \div Radix) THEN -1
               ELSE g[l - 1] * Radix + f[l]
    <2>1. l \in 0..Len(value)
      OBVIOUS
    <2> QED  BY <1>3, <2>1, Zenon
  <1>5. l # 0 /\ ~ (f[l] < 0) /\ g[l - 1] \in 0..(MaxUint \div Radix)
    BY <1>2 DEF IsDigit, Fits
  <1> QED  BY <1>2, <1>4, <1>5

(* The digits of a number at the beginning of a value read as the number. *)
LEMMA HexReads ==
    ASSUME NEW value, Len(value) \in Nat, NEW g, IsRead(g, Nibbles(value), value),
           NEW n \in 0..MaxUint, BeginsWith(value, Hex[n])
    PROVE  g[Len(Hex[n])] = n
  <1> DEFINE bad == {m \in 0..MaxUint : BeginsWith(value, Hex[m]) /\ g[Len(Hex[m])] # m}
  <1>0. MaxUint \in Nat
    BY DictionaryAssumption
  <1>1. SUFFICES ASSUME bad # {} PROVE FALSE
    OBVIOUS
  <1>2. PICK m \in bad : \A l \in bad : m <= l
    <2>1. bad \subseteq Nat
      BY <1>0
    <2> HIDE DEF bad
    <2> QED  BY <1>1, <2>1, LeastNatural
  <1>3. m \in 0..MaxUint /\ BeginsWith(value, Hex[m]) /\ g[Len(Hex[m])] # m
    BY <1>2
  <1>4. CASE m < Radix
    <2> DEFINE c == Char(HexDigits[m + 1])
    <2>1. Hex[m] = <<c>> /\ m \in 0..15
      BY <1>3, <1>4, HexSteps, LastDigit
    <2>2. Len(<<c>>) = 1 /\ <<c>>[1] = c
      OBVIOUS
    <2> HIDE DEF c
    <2>3. Len(Hex[m]) = 1 /\ 1 \in 1..Len(value) /\ value[1] = c
      BY <1>3, <2>1, <2>2 DEF BeginsWith
    <2>4. g[0] = 0
      <3>1. 0 \in 0..Len(value)
        OBVIOUS
      <3>2. g[0] = IF 0 = 0 THEN 0
                   ELSE IF Nibbles(value)[0] < 0 \/ g[0 - 1] \notin 0..(MaxUint \div Radix) THEN -1
                   ELSE g[0 - 1] * Radix + Nibbles(value)[0]
        BY <3>1, Zenon DEF IsRead
      <3> QED  BY <3>2
    <2>5. 0 \in 0..(MaxUint \div Radix) /\ Radix \in Nat
      BY DictionaryAssumption
    <2>6. g[1] = (0 * Radix) + m
      <3> DEFINE l == 1
                 p == 0
      <3>1. l \in 1..Len(value) /\ IsDigit(value[l], m) /\ g[l - 1] = p /\ Fits(p)
        BY <2>1, <2>3, <2>4, <2>5 DEF c, IsDigit, Fits
      <3> HIDE DEF bad, l, p
      <3>2. g[l] = (p * Radix) + m
        BY <3>1, ReadStep
      <3> QED  BY <3>2 DEF l, p
    <2>7. g[1] = m
      BY <1>0, <1>3, <2>4, <2>5, <2>6
    <2> QED  BY <1>3, <2>3, <2>7
  <1>5. CASE ~ (m < Radix)
    <2> DEFINE q == m \div Radix
               i == m % Radix
               s == Hex[q]
               c == Char(HexDigits[i + 1])
    <2>1. /\ q \in Nat /\ q \in 0..(MaxUint \div Radix) /\ q \in 0..MaxUint /\ q < m
          /\ i \in 0..15 /\ m = (q * Radix) + i
      BY <1>3, <1>5, LastDigit
    <2>2. Hex[m] = Append(s, c)
      BY <1>3, <1>5, HexSteps
    <2>3. s \in Seq(HexChars) /\ Len(s) \in Nat
      BY <2>1, HexTyped
    <2>4. c \in HexChars
      BY <1>3, LastDigit
    <2> HIDE DEF q, i, s, c
    <2>5. Len(Hex[m]) = Len(s) + 1 /\ Hex[m][Len(s) + 1] = c /\ \A j \in 1..Len(s) : Hex[m][j] = s[j]
      BY <2>2, <2>3, <2>4
    <2>6. BeginsWith(value, s)
      <3>1. \A j \in 1..Len(s) : j \in 1..Len(s) + 1
        BY <2>3
      <3>2. Len(s) \in 0..Len(value)
        BY <1>3, <2>3, <2>5 DEF BeginsWith
      <3> QED  BY <1>3, <2>5, <3>1, <3>2 DEF BeginsWith
    <2> DEFINE l == Len(s) + 1
    <2>7. l \in 1..Len(value) /\ value[l] = c /\ l - 1 = Len(s) /\ Len(Hex[m]) = l
      <3>1. l \in 1..l
        BY <2>3
      <3> QED  BY <1>3, <2>3, <2>5, <3>1 DEF BeginsWith
    <2>8. g[Len(s)] = q
      <3>1. ~ (m <= q)
        BY <1>0, <1>3, <2>1
      <3>2. q \notin bad
        <4> HIDE DEF bad
        <4> QED  BY <1>2, <3>1
      <3> QED  BY <2>1, <2>6, <3>2 DEF s
    <2> HIDE DEF l
    <2>9. g[l] = (q * Radix) + i
      <3>1. IsDigit(value[l], i) /\ g[l - 1] = q /\ Fits(q)
        BY <2>1, <2>7, <2>8 DEF c, IsDigit, Fits
      <3> HIDE DEF bad
      <3> QED  BY <2>7, <3>1, ReadStep
    <2> QED  BY <1>3, <2>1, <2>7, <2>9
  <1> QED  BY <1>4, <1>5

(* A number that was written reads back. *)
LEMMA HexReadsBack ==
    ASSUME NEW n \in 0..MaxUint, NEW d, NEW key, Field(d, key) = Hex[n]
    PROVE  HexUint(d, key) = n
  <1> DEFINE value == Hex[n]
             g == CHOOSE h : IsRead(h, Nibbles(value), value)
  <1>1. value \in Seq(HexChars) /\ Len(value) \in Nat \ {0}
    BY HexTyped
  <1>2. value # <<>>
    <2> HIDE DEF value
    <2> QED  BY <1>1
  <1>3. HexUint(d, key) = g[Len(value)]
    BY <1>2, HexUintIs
  <1>4. IsRead(g, Nibbles(value), value)
    BY <1>1, ReadExists
  <1>5. BeginsWith(value, Hex[n])
    <2>1. value = Hex[n]
      OBVIOUS
    <2> HIDE DEF value
    <2>2. BeginsWith(value, value)
      BY <1>1 DEF BeginsWith
    <2> QED  BY <2>1, <2>2
  <1> HIDE DEF g
  <1>6. g[Len(Hex[n])] = n
    BY <1>1, <1>4, <1>5, HexReads
  <1> QED  BY <1>3, <1>6

-----------------------------------------------------------------------------
(* The entries of a configuration. *)

\* Entries for the keys of a set, each with its value, where a value that is empty
\* may have none.
EntriesFor(K, V, S, entries) ==
    /\ entries \in Seq([key : K, value : Seq(S)])
    /\ Len(entries) # 0
    /\ \A i \in 1..Len(entries) : entries[i].value = V[entries[i].key]
    /\ \A i, j \in 1..Len(entries) : entries[i].key = entries[j].key => i = j
    /\ \A key \in K : V[key] = <<>> \/ \E i \in 1..Len(entries) : entries[i].key = key

(* Each of them is a record. *)
LEMMA EntriesTyped ==
    ASSUME NEW K, NEW V, NEW S, NEW entries, EntriesFor(K, V, S, entries)
    PROVE  /\ Len(entries) \in Nat \ {0}
           /\ \A i \in 1..Len(entries) : entries[i].key \in K /\ entries[i].value \in Seq(S)
  <1> DEFINE Q == [key : K, value : Seq(S)]
  <1>1. entries \in Seq(Q) /\ Len(entries) # 0
    BY DEF EntriesFor
  <1>2. \A e \in Q : e.key \in K /\ e.value \in Seq(S)
    OBVIOUS
  <1> HIDE DEF Q
  <1> QED  BY <1>1, <1>2

(* An optional entry is added. *)
LEMMA WithOptional ==
    ASSUME NEW K, NEW V, NEW S, NEW entries, EntriesFor(K, V, S, entries),
           NEW key, key \notin K, NEW x, V[key] = Packed(x), Packed(x) \in Seq(S)
    PROVE  EntriesFor(K \cup {key}, V, S, entries \o Optional(key, x))
  <1> DEFINE R == [key : K \cup {key}, value : Seq(S)]
             e == [key |-> key, value |-> Packed(x)]
             more == entries \o Optional(key, x)
             L == Len(entries)
  <1>1. entries \in Seq(R) /\ L \in Nat \ {0}
    <2> DEFINE Q == [key : K, value : Seq(S)]
    <2>1. Q \subseteq R
      OBVIOUS
    <2>2. entries \in Seq(Q) /\ L # 0
      BY DEF EntriesFor
    <2> HIDE DEF R, Q
    <2>3. entries = [i \in 1..L |-> entries[i]] /\ L \in Nat /\ \A i \in 1..L : entries[i] \in R
      BY <2>1, <2>2
    <2> QED  BY <2>2, <2>3
  <1>2. CASE x = {}
    <2>1. more = entries
      BY <1>1, <1>2 DEF Optional
    <2>2. V[key] = <<>>
      BY <1>2 DEF Packed
    <2> HIDE DEF more
    <2> QED  BY <1>1, <2>1, <2>2 DEF EntriesFor, more
  <1>3. CASE x # {}
    <2>1. e \in R /\ e.key = key /\ e.value = V[key]
      OBVIOUS
    <2>2. Optional(key, x) = <<e>>
      BY <1>3 DEF Optional
    <2> HIDE DEF e, R
    <2>3. /\ <<e>> \in Seq(R) /\ Len(<<e>>) = 1 /\ <<e>>[1] = e
      BY <2>1
    <2>4. /\ more \in Seq(R) /\ Len(more) = L + 1
          /\ \A i \in 1..L : more[i] = entries[i]
          /\ more[L + 1] = e
      BY <1>1, <2>1, <2>2
    <2> HIDE DEF more
    <2>5. ASSUME NEW i \in 1..Len(more) PROVE i \in 1..L \/ i = L + 1
      BY <1>1, <2>4
    <2>6. \A i \in 1..L : entries[i].key \in K /\ entries[i].key # key
      BY EntriesTyped
    <2>7. \A i \in 1..Len(more) : more[i].value = V[more[i].key]
      BY <2>1, <2>4, <2>5 DEF EntriesFor
    <2>8. ASSUME NEW i \in 1..Len(more), NEW j \in 1..Len(more), more[i].key = more[j].key
          PROVE  i = j
      <3>1. CASE i \in 1..L /\ j \in 1..L
        BY <2>4, <2>8, <3>1 DEF EntriesFor
      <3>2. CASE i = L + 1 /\ j = L + 1
        BY <3>2
      <3>3. CASE i \in 1..L /\ j = L + 1
        BY <2>1, <2>4, <2>6, <2>8, <3>3
      <3>4. CASE j \in 1..L /\ i = L + 1
        BY <2>1, <2>4, <2>6, <2>8, <3>4
      <3> QED  BY <2>5, <3>1, <3>2, <3>3, <3>4
    <2>9. ASSUME NEW y \in K \cup {key}
          PROVE  V[y] = <<>> \/ \E i \in 1..Len(more) : more[i].key = y
      <3>1. CASE y = key
        <4>1. L + 1 \in 1..Len(more)
          BY <1>1, <2>4
        <4> QED  BY <2>1, <2>4, <3>1, <4>1
      <3>2. CASE y \in K
        <4>1. \A i \in 1..L : i \in 1..Len(more)
          BY <1>1, <2>4
        <4> QED  BY <2>4, <3>2, <4>1 DEF EntriesFor
      <3> QED  BY <3>1, <3>2
    <2>10. Len(more) # 0
      BY <1>1, <2>4
    <2> QED  BY <2>4, <2>7, <2>8, <2>9, <2>10 DEF EntriesFor, R, more
  <1> QED  BY <1>2, <1>3

\* The keys of a configuration.
ConfigKeys == {"r", "n", "CAP", "TAG", "S", "RT", "I"}

(* The keys of a configuration are no special characters, and they are     *)
(* different symbols.                                                      *)
LEMMA KeysPlain ==
    /\ \A key \in ConfigKeys : Char(key) \notin Specials
    /\ \A x, y : Char(x) = Char(y) => x = y
    BY DEF ConfigKeys, Specials, Char, NUL, CR, LF, Backslash, Equals

(* Entries that were written are read back, and an absent key reads as an  *)
(* empty value.                                                            *)
LEMMA EntriesReadBack ==
    ASSUME NEW V, NEW S, NEW entries, EntriesFor(ConfigKeys, V, S, entries), NEW update, update # 0
    PROVE  LET config == Config(BuildSignedChunks(update, Serialized(entries))) IN
           /\ config = ParseDictionary(Serialized(entries))
           /\ \A key \in ConfigKeys : Field(config, key) = V[key]
           /\ \A key \in ConfigKeys : V[key] # <<>> => <<Char(key)>> \in DOMAIN config
  <1> DEFINE d == Serialized(entries)
             chunks == BuildSignedChunks(update, d)
             config == Config(chunks)
             n == Len(entries)
             parsed == ParseDictionary(d)
  <1>1. /\ n \in Nat \ {0}
        /\ \A i \in 1..n : entries[i].key \in ConfigKeys /\ entries[i].value \in Seq(S)
        /\ \A i \in 1..n : entries[i].value = V[entries[i].key]
        /\ \A i, j \in 1..n : entries[i].key = entries[j].key => i = j
        /\ \A key \in ConfigKeys : V[key] = <<>> \/ \E i \in 1..n : entries[i].key = key
    <2>1. n \in Nat \ {0} /\ \A i \in 1..n : entries[i].key \in ConfigKeys /\ entries[i].value \in Seq(S)
      BY EntriesTyped
    <2>2. /\ \A i \in 1..n : entries[i].value = V[entries[i].key]
          /\ \A i, j \in 1..n : entries[i].key = entries[j].key => i = j
          /\ \A key \in ConfigKeys : V[key] = <<>> \/ \E i \in 1..n : entries[i].key = key
      BY Zenon DEF EntriesFor
    <2> QED  BY <2>1, <2>2
  <1>2. Writable(S, entries)
    BY <1>1, KeysPlain DEF Writable
  <1>3. d \in Seq(SymbolsOf(S, entries)) /\ d # <<>>
    <2>1. d \in Seq(SymbolsOf(S, entries)) /\ Len(d) \in Nat \ {0}
      BY <1>2, SerializedLines
    <2> HIDE DEF d
    <2> QED  BY <2>1
  <1>4. /\ Readable(d)
        /\ DOMAIN parsed = {<<Char(entries[i].key)>> : i \in 1..n}
        /\ \A i \in 1..n : parsed[<<Char(entries[i].key)>>] = entries[i].value
    BY <1>2, ParsedBack
  <1>5. Assembled(chunks) = d /\ \A j \in 1..Len(chunks) : ChunkInRange(chunks[j])
    <2> HIDE DEF d
    <2> QED  BY <1>3, ChunksAssemble
  <1> HIDE DEF d, chunks, parsed
  <1>6. config = parsed
    BY <1>4, <1>5 DEF Config, parsed
  <1>7. ASSUME NEW key \in ConfigKeys
        PROVE  /\ Field(parsed, key) = V[key]
               /\ V[key] # <<>> => <<Char(key)>> \in DOMAIN parsed
    <2>1. CASE \E i \in 1..n : entries[i].key = key
      <3>1. PICK i \in 1..n : entries[i].key = key
        BY <2>1
      <3>2. <<Char(key)>> \in DOMAIN parsed /\ parsed[<<Char(key)>>] = V[key]
        BY <1>1, <1>4, <3>1
      <3> QED  BY <3>2 DEF Field
    <2>2. CASE ~ \E i \in 1..n : entries[i].key = key
      <3>1. V[key] = <<>>
        BY <1>1, <2>2
      <3>2. <<Char(key)>> \notin DOMAIN parsed
        <4>1. SUFFICES ASSUME NEW i \in 1..n, <<Char(key)>> = <<Char(entries[i].key)>> PROVE FALSE
          BY <1>4
        <4>2. Char(key) = Char(entries[i].key)
          BY <4>1
        <4>3. key = entries[i].key
          BY <4>2, KeysPlain
        <4> QED  BY <2>2, <4>3
      <3> QED  BY <3>1, <3>2 DEF Field
    <2> QED  BY <2>1, <2>2
  <1> HIDE DEF config
  <1> QED  BY <1>6, <1>7 DEF config, chunks, d, parsed

\* The values of a configuration.
Values(revision, name, capabilities, tags, specialists, routes, ips) ==
    [key \in ConfigKeys |->
        CASE key = "r" -> Hex[revision]
          [] key = "n" -> name
          [] key = "CAP" -> Packed(capabilities)
          [] key = "TAG" -> Packed(tags)
          [] key = "S" -> Packed(specialists)
          [] key = "RT" -> Packed(routes)
          [] key = "I" -> Packed(ips)]

(* BuildDictionary makes the entries of a configuration. *)
LEMMA BuiltEntries ==
    ASSUME NEW revision \in 0..MaxUint, NEW name, IsText(name),
           NEW capabilities, NEW tags, NEW specialists, NEW routes, NEW ips
    PROVE  \E S : EntriesFor(ConfigKeys,
                    Values(revision, name, capabilities, tags, specialists, routes, ips), S,
                    BuildDictionary(revision, name, capabilities, tags, specialists, routes, ips))
  <1> DEFINE V == Values(revision, name, capabilities, tags, specialists, routes, ips)
             S == HexChars \cup {name[j] : j \in 1..Len(name)}
                     \cup {Blob(x) : x \in {capabilities, tags, specialists, routes, ips}}
             first == <<[key |-> "r", value |-> Hex[revision]], [key |-> "n", value |-> name]>>
  <1>1. /\ V["r"] = Hex[revision] /\ V["n"] = name /\ V["CAP"] = Packed(capabilities)
        /\ V["TAG"] = Packed(tags) /\ V["S"] = Packed(specialists) /\ V["RT"] = Packed(routes)
        /\ V["I"] = Packed(ips)
    BY DEF Values, ConfigKeys
  <1>2. Hex[revision] \in Seq(S) /\ name \in Seq(S)
    <2>1. Hex[revision] \in Seq(HexChars) /\ HexChars \subseteq S
      BY HexTyped
    <2>2. Len(name) \in Nat /\ \A j \in 1..Len(name) : name[j] \in S
      BY DEF IsText
    <2> HIDE DEF S
    <2>3. name \in Seq(S)
      BY <2>2 DEF IsText
    <2> DEFINE h == Hex[revision]
    <2>4. h \in Seq(HexChars)
      BY <2>1
    <2> HIDE DEF h
    <2>5. h = [j \in 1..Len(h) |-> h[j]] /\ Len(h) \in Nat /\ \A j \in 1..Len(h) : h[j] \in S
      BY <2>1, <2>4
    <2>6. h \in Seq(S)
      BY <2>5
    <2> QED  BY <2>3, <2>6 DEF h
  <1>3. ASSUME NEW x \in {capabilities, tags, specialists, routes, ips} PROVE Packed(x) \in Seq(S)
    <2>1. Blob(x) \in S
      OBVIOUS
    <2> HIDE DEF S
    <2> QED  BY <2>1 DEF Packed
  <1>4. EntriesFor({"r", "n"}, V, S, first)
    <2> DEFINE K == {"r", "n"}
               a == Hex[revision]
               e1 == [key |-> "r", value |-> a]
               e2 == [key |-> "n", value |-> name]
    <2>1. a \in Seq(S) /\ name \in Seq(S) /\ V["r"] = a /\ V["n"] = name
      BY <1>1, <1>2
    <2> HIDE DEF S, V, a
    <2>2. /\ e1 \in [key : K, value : Seq(S)] /\ e2 \in [key : K, value : Seq(S)]
          /\ e1.key = "r" /\ e2.key = "n" /\ e1.value = a /\ e2.value = name
      BY <2>1
    <2>3. first = <<e1, e2>>
      BY DEF a
    <2> HIDE DEF e1, e2, first
    <2>4. /\ first \in Seq([key : K, value : Seq(S)]) /\ Len(first) = 2
          /\ first[1] = e1 /\ first[2] = e2
      BY <2>2, <2>3
    <2>5. 1..Len(first) = {1, 2}
      BY <2>4
    <2>6. \A i \in 1..Len(first) : first[i].value = V[first[i].key]
      BY <2>1, <2>2, <2>4, <2>5
    <2>7. \A i, j \in 1..Len(first) : first[i].key = first[j].key => i = j
      BY <2>2, <2>4, <2>5
    <2>8. \A key \in K : \E i \in 1..Len(first) : first[i].key = key
      BY <2>2, <2>4, <2>5
    <2> QED  BY <2>4, <2>6, <2>7, <2>8 DEF EntriesFor
  <1> HIDE DEF V, S, first
  <1> DEFINE K1 == {"r", "n"} \cup {"CAP"}
             K2 == K1 \cup {"TAG"}
             K3 == K2 \cup {"S"}
             K4 == K3 \cup {"RT"}
             K5 == K4 \cup {"I"}
             s1 == first \o Optional("CAP", capabilities)
             s2 == s1 \o Optional("TAG", tags)
             s3 == s2 \o Optional("S", specialists)
             s4 == s3 \o Optional("RT", routes)
             s5 == s4 \o Optional("I", ips)
  <1>5. /\ "CAP" \notin {"r", "n"} /\ "TAG" \notin K1 /\ "S" \notin K2 /\ "RT" \notin K3
        /\ "I" \notin K4 /\ K5 = ConfigKeys
    BY DEF ConfigKeys
  <1>6. EntriesFor(K1, V, S, s1)
    BY <1>1, <1>3, <1>4, <1>5, WithOptional
  <1> HIDE DEF s1, K1
  <1>7. EntriesFor(K2, V, S, s2)
    BY <1>1, <1>3, <1>6, <1>5, WithOptional
  <1> HIDE DEF s2, K2
  <1>8. EntriesFor(K3, V, S, s3)
    BY <1>1, <1>3, <1>7, <1>5, WithOptional
  <1> HIDE DEF s3, K3
  <1>9. EntriesFor(K4, V, S, s4)
    BY <1>1, <1>3, <1>8, <1>5, WithOptional
  <1> HIDE DEF s4, K4
  <1>10. EntriesFor(K5, V, S, s5)
    BY <1>1, <1>3, <1>9, <1>5, WithOptional
  <1>11. BuildDictionary(revision, name, capabilities, tags, specialists, routes, ips) = s5
    BY Zenon DEF BuildDictionary, first, s1, s2, s3, s4
  <1> QED  BY <1>5, <1>10, <1>11 DEF V

(* An agent that has the chunks of a configuration reads what was put into *)
(* it, whatever symbols the name holds and whichever of the lists are      *)
(* empty.                                                                  *)
THEOREM ConfigReadsBack ==
    ASSUME NEW revision \in 1..MaxUint, NEW name, IsText(name),
           NEW capabilities, NEW tags, NEW specialists, NEW routes, NEW ips
    PROVE  ReadsBack(revision, name, capabilities, tags, specialists, routes, ips)
  <1> DEFINE V == Values(revision, name, capabilities, tags, specialists, routes, ips)
             entries == BuildDictionary(revision, name, capabilities, tags, specialists, routes, ips)
             config == Config(BuildSignedChunks(revision, Serialized(entries)))
  <1>1. revision \in 0..MaxUint /\ revision # 0
    BY DictionaryAssumption
  <1>2. /\ V["r"] = Hex[revision] /\ V["n"] = name /\ V["CAP"] = Packed(capabilities)
        /\ V["TAG"] = Packed(tags) /\ V["S"] = Packed(specialists) /\ V["RT"] = Packed(routes)
        /\ V["I"] = Packed(ips)
    BY DEF Values, ConfigKeys
  <1>3. PICK S : EntriesFor(ConfigKeys, V, S, entries)
    BY <1>1, BuiltEntries
  <1> HIDE DEF V, entries
  <1>4. /\ \A key \in ConfigKeys : Field(config, key) = V[key]
        /\ \A key \in ConfigKeys : V[key] # <<>> => <<Char(key)>> \in DOMAIN config
    BY <1>1, <1>3, EntriesReadBack
  <1>5. {"r", "n", "CAP", "TAG", "S", "RT", "I"} \subseteq ConfigKeys
    BY DEF ConfigKeys
  <1> HIDE DEF config
  <1>6. HexUint(config, "r") = revision
    BY <1>1, <1>2, <1>4, <1>5, HexReadsBack
  <1>7. config # Unreadable
    <2> DEFINE h == Hex[revision]
    <2>1. h \in Seq(HexChars) /\ Len(h) \in Nat \ {0}
      BY <1>1, HexTyped
    <2> HIDE DEF h
    <2>2. h # <<>>
      BY <2>1
    <2>3. <<Char("r")>> \in DOMAIN config
      BY <1>2, <1>4, <1>5, <2>2 DEF h
    <2>4. <<Char("r")>> # <<>>
      OBVIOUS
    <2>5. DOMAIN Unreadable = {<<>>}
      BY DEF Unreadable
    <2> QED  BY <2>3, <2>4, <2>5
  <1> QED  BY <1>2, <1>4, <1>5, <1>6, <1>7 DEF ReadsBack, config, entries

-----------------------------------------------------------------------------
USE ControllerAssumption

-----------------------------------------------------------------------------
(* The variables of a request. *)

IsTask(t) == t = Serving(t.op, t.pc, t.k, t.doc, t.network, t.member)

AreTasks(f) == f = [w \in Workers |-> f[w]] /\ \A w \in Workers : IsTask(f[w])

SameFor(f, g, w) == \A v \in Workers : v # w => g[v] = f[v]

\* Assignments to one field of one request.
WithPc(f, w, pc) == [f EXCEPT ![w].pc = pc]
WithDoc(f, w, doc) == [f EXCEPT ![w].doc = doc]
WithNetwork(f, w, row) == [f EXCEPT ![w].network = row]
WithMember(f, w, row) == [f EXCEPT ![w].member = row]

(* Assigning to the next store call changes that field of one request. *)
LEMMA SetPc ==
    ASSUME NEW f, AreTasks(f), NEW w \in Workers, NEW pc
    PROVE  /\ AreTasks(WithPc(f, w, pc)) /\ SameFor(f, WithPc(f, w, pc), w)
           /\ WithPc(f, w, pc)[w] = Serving(f[w].op, pc, f[w].k, f[w].doc, f[w].network, f[w].member)
    BY DEF AreTasks, IsTask, Serving, SameFor, WithPc

(* The same for the document that is going to be written. *)
LEMMA SetDoc ==
    ASSUME NEW f, AreTasks(f), NEW w \in Workers, NEW doc
    PROVE  /\ AreTasks(WithDoc(f, w, doc)) /\ SameFor(f, WithDoc(f, w, doc), w)
           /\ WithDoc(f, w, doc)[w] = Serving(f[w].op, f[w].pc, f[w].k, doc, f[w].network, f[w].member)
    BY DEF AreTasks, IsTask, Serving, SameFor, WithDoc

(* The same for the network that was read. *)
LEMMA SetNetwork ==
    ASSUME NEW f, AreTasks(f), NEW w \in Workers, NEW row
    PROVE  /\ AreTasks(WithNetwork(f, w, row)) /\ SameFor(f, WithNetwork(f, w, row), w)
           /\ WithNetwork(f, w, row)[w] = Serving(f[w].op, f[w].pc, f[w].k, f[w].doc, row, f[w].member)
    BY DEF AreTasks, IsTask, Serving, SameFor, WithNetwork

(* The same for the member that was read. *)
LEMMA SetMember ==
    ASSUME NEW f, AreTasks(f), NEW w \in Workers, NEW row
    PROVE  /\ AreTasks(WithMember(f, w, row)) /\ SameFor(f, WithMember(f, w, row), w)
           /\ WithMember(f, w, row)[w] = Serving(f[w].op, f[w].pc, f[w].k, f[w].doc, f[w].network, row)
    BY DEF AreTasks, IsTask, Serving, SameFor, WithMember

(* A new request, or none, replaces all variables of one worker. *)
LEMMA SetTask ==
    ASSUME AreTasks(task), NEW w \in Workers, NEW t, IsTask(t), task' = [task EXCEPT ![w] = t]
    PROVE  AreTasks(task') /\ SameFor(task, task', w) /\ task'[w] = t
    BY DEF AreTasks, SameFor

(* Two fields assigned at once: the next store call, and the network or the document. *)
LEMMA SetTwo ==
    ASSUME AreTasks(task), NEW w \in Workers, NEW pc, NEW x
    PROVE  LET t == task[w] IN
           /\ task' = [task EXCEPT ![w].pc = pc, ![w].network = x] =>
                /\ AreTasks(task') /\ SameFor(task, task', w)
                /\ task'[w] = Serving(t.op, pc, t.k, t.doc, x, t.member)
           /\ task' = [task EXCEPT ![w].pc = pc, ![w].doc = x] =>
                /\ AreTasks(task') /\ SameFor(task, task', w)
                /\ task'[w] = Serving(t.op, pc, t.k, x, t.network, t.member)
  <1> DEFINE t == task[w]
             f == WithPc(task, w, pc)
  <1>1. /\ AreTasks(f) /\ SameFor(task, f, w)
        /\ f[w] = Serving(t.op, pc, t.k, t.doc, t.network, t.member)
    BY SetPc
  <1>2. ASSUME task' = [task EXCEPT ![w].pc = pc, ![w].network = x]
        PROVE  task' = WithNetwork(f, w, x)
    BY <1>2 DEF WithPc, WithNetwork
  <1>4. ASSUME task' = [task EXCEPT ![w].pc = pc, ![w].doc = x]
        PROVE  task' = WithDoc(f, w, x)
    BY <1>4 DEF WithPc, WithDoc
  <1> HIDE DEF f
  <1>5. /\ f[w].op = t.op /\ f[w].pc = pc /\ f[w].k = t.k /\ f[w].doc = t.doc
        /\ f[w].network = t.network /\ f[w].member = t.member
    BY <1>1 DEF Serving
  <1>6. ASSUME task' = WithNetwork(f, w, x)
        PROVE  /\ AreTasks(task') /\ SameFor(task, task', w)
               /\ task'[w] = Serving(t.op, pc, t.k, t.doc, x, t.member)
    BY <1>1, <1>5, <1>6, SetNetwork DEF SameFor
  <1>8. ASSUME task' = WithDoc(f, w, x)
        PROVE  /\ AreTasks(task') /\ SameFor(task, task', w)
               /\ task'[w] = Serving(t.op, pc, t.k, x, t.network, t.member)
    BY <1>1, <1>5, <1>8, SetDoc DEF SameFor
  <1> QED  BY <1>2, <1>4, <1>6, <1>8

(* The same for a request that reads its member. *)
LEMMA SetMemberRead ==
    ASSUME AreTasks(task), NEW w \in Workers, NEW pc, NEW row,
           task' = [task EXCEPT ![w].pc = pc, ![w].member = row]
    PROVE  /\ AreTasks(task') /\ SameFor(task, task', w)
           /\ task'[w] = Serving(task[w].op, pc, task[w].k, task[w].doc, task[w].network, row)
  <1> DEFINE t == task[w]
             f == WithPc(task, w, pc)
  <1>1. /\ AreTasks(f) /\ SameFor(task, f, w)
        /\ f[w] = Serving(t.op, pc, t.k, t.doc, t.network, t.member)
    BY SetPc
  <1>2. task' = WithMember(f, w, row)
    BY DEF WithPc, WithMember
  <1> HIDE DEF f
  <1>3. /\ f[w].op = t.op /\ f[w].pc = pc /\ f[w].k = t.k /\ f[w].doc = t.doc
        /\ f[w].network = t.network
    BY <1>1 DEF Serving
  <1>4. /\ AreTasks(task') /\ SameFor(f, task', w)
        /\ task'[w] = Serving(f[w].op, f[w].pc, f[w].k, f[w].doc, f[w].network, row)
    <2>1. /\ AreTasks(WithMember(f, w, row)) /\ SameFor(f, WithMember(f, w, row), w)
          /\ WithMember(f, w, row)[w] =
                Serving(f[w].op, f[w].pc, f[w].k, f[w].doc, f[w].network, row)
      BY <1>1, SetMember
    <2> QED  BY <1>2, <2>1
  <1> QED  BY <1>1, <1>3, <1>4 DEF SameFor

-----------------------------------------------------------------------------
(* The outcomes of a step. *)

InIpam == {"ipamGet", "ipamList", "ipamSave", "ipamReget"}

\* The request has read a row of its member.
HoldsMember(t) ==
    \/ t.op \in {"setAuthorization", "updateMember"}
    \/ t.op = "config" /\ t.pc \notin {"register", "create", "registerReget"}

\* Its next store call is SaveMember.
Writes(t) ==
    \/ t.op \in {"setAuthorization", "updateMember"} /\ t.pc = "save"
    \/ t.op = "config" /\ t.pc = "ipamSave"

Keeping(t, u) == u.op = t.op /\ u.k = t.k /\ u.doc = t.doc /\ u.member = t.member

\* What a document to be written takes from the row it was made from.
DocFromRow(t) ==
    /\ t.op = "setAuthorization" /\ t.pc = "save" /\ IsMemberDoc(t.member.doc) =>
          /\ IsMemberDoc(t.doc)
          /\ t.doc.ips = t.member.doc.ips /\ t.doc.roles = t.member.doc.roles
          /\ t.doc.capabilities = t.member.doc.capabilities
    /\ t.op = "updateMember" /\ t.pc = "save" =>
          /\ IsMemberDoc(t.doc)
          /\ t.doc.authorized = t.member.doc.authorized
          /\ \E update \in MemberUpdates :
                t.doc.ips = update.ips /\ t.doc.capabilities = update.capabilities
    /\ t.op = "config" /\ t.pc = "ipamSave" /\ IsMemberDoc(t.member.doc) =>
          /\ IsMemberDoc(t.doc)
          /\ t.doc.authorized = t.member.doc.authorized /\ t.doc.roles = t.member.doc.roles
          /\ t.doc.capabilities = t.member.doc.capabilities

\* The mutex is not concerned.
OutsideIpam(w) == task[w].pc \notin InIpam /\ task'[w].pc \notin InIpam /\ ipamMu' = ipamMu

Keeps(w) == task'[w] = task[w] /\ members' = members /\ ipamMu' = ipamMu

Ends(w) == task'[w] = Idle /\ members' = members /\ (Release(w) \/ OutsideIpam(w))

Begins(w) ==
    LET u == task'[w] IN
    /\ task[w].pc = "idle" /\ members' = members /\ OutsideIpam(w)
    /\ u.op \in Operations
    /\ HoldsMember(u) => u.k \in DOMAIN members /\ u.member = members[u.k]
    /\ DocFromRow(u)

Goes(w) ==
    LET t == task[w]  u == task'[w] IN
    /\ members' = members
    /\ Keeping(t, u) /\ (HoldsMember(u) => HoldsMember(t))
    /\ u.pc \notin {"save", "ipamList", "ipamSave"}
    /\ \/ OutsideIpam(w)
       \/ t.pc \notin InIpam /\ u.pc = "ipamGet" /\ ipamMu = Nobody /\ ipamMu' = w
       \/ u.pc \notin InIpam /\ Release(w)

Reads(w) ==
    LET t == task[w]  u == task'[w] IN
    /\ members' = members
    /\ t.op = "config" /\ u.op = t.op /\ u.k = t.k /\ u.doc = t.doc
    /\ t.k \in DOMAIN members /\ u.member = members[t.k]
    /\ \/ u.pc = "upsert" /\ OutsideIpam(w)
       \/ u.pc = "ipamList" /\ t.pc \in InIpam /\ ipamMu' = ipamMu
       \/ u.pc = "list" /\ Release(w)

Chooses(w) ==
    LET t == task[w]  u == task'[w]
        ips == Assigned(t.network.doc, t.member.doc, Listed(t.k[1])) IN
    /\ members' = members /\ ipamMu' = ipamMu
    /\ t.op = "config" /\ t.pc = "ipamList" /\ u.pc = "ipamSave"
    /\ u.op = t.op /\ u.k = t.k /\ u.member = t.member
    /\ u.doc = [t.member.doc EXCEPT !.ips = @ \cup ips]

Saves(w) ==
    LET t == task[w]  u == task'[w] IN
    /\ Writes(t) /\ DB!IsCurrent(members, t.k, t.member.revision)
    /\ members' = DB!Put(members, t.k, [revision |-> t.member.revision + 1, doc |-> t.doc])
    /\ ipamMu' = ipamMu
    /\ \/ t.op = "config" /\ Keeping(t, u) /\ u.pc = "ipamReget"
       \/ t.op # "config" /\ Keeping(t, u) /\ u.pc = "bumpGet"
       \/ t.op = "setAuthorization" /\ t.doc.roles = {} /\ Keeping(t, u) /\ u.pc = "bumped"
       \/ t.op = "updateMember" /\ ~ SpecialistsChanged(t.member, t.doc) /\ u = Idle

Creates(w) ==
    LET t == task[w]  u == task'[w] IN
    /\ t.pc = "create" /\ t.k \notin DOMAIN members
    /\ members' = DB!Put(members, t.k, [revision |-> 1, doc |-> NewMember])
    /\ Keeping(t, u) /\ (HoldsMember(u) => HoldsMember(t)) /\ u.pc = "registerReget"
    /\ ipamMu' = ipamMu

Deletes(w) ==
    /\ task[w].op \in {"deleteNetwork", "deleteMember"}
    /\ \E S \in SUBSET DOMAIN members : members' = DB!Restrict(members, S)
    /\ task'[w] = Idle /\ OutsideIpam(w)

Outcome(w) ==
    Keeps(w) \/ Ends(w) \/ Begins(w) \/ Goes(w) \/ Reads(w) \/ Chooses(w) \/ Saves(w)
    \/ Creates(w) \/ Deletes(w)

(* Idle is a task, outside the assignment and without a member. *)
LEMMA IdleTask ==
    /\ IsTask(Idle) /\ Idle.op = "none" /\ Idle.pc = "idle"
    /\ ~ HoldsMember(Idle) /\ ~ Writes(Idle)
  <1>1. IsTask(Idle) /\ Idle.op = "none" /\ Idle.pc = "idle"
    BY DEF Idle, IsTask, Serving
  <1> QED  BY <1>1 DEF HoldsMember, Writes

(* The fields of a request are what it was made of. *)
LEMMA ServingFields ==
    ASSUME NEW op, NEW pc, NEW k, NEW doc, NEW network, NEW member
    PROVE  LET t == Serving(op, pc, k, doc, network, member) IN
           /\ IsTask(t)
           /\ t.op = op /\ t.pc = pc /\ t.k = k /\ t.doc = doc
           /\ t.network = network /\ t.member = member
    BY DEF IsTask, Serving

(* A request that ends leaves the other requests alone. *)
LEMMA Finishes ==
    ASSUME AreTasks(task), NEW w \in Workers, Finish(w)
    PROVE  AreTasks(task') /\ SameFor(task, task', w) /\ task'[w] = Idle
  <1>1. task' = [task EXCEPT ![w] = Idle] /\ IsTask(Idle)
    BY IdleTask DEF Finish
  <1> QED  BY <1>1, SetTask

(* A request that goes on to another store call keeps all it has read. *)
LEMMA GoesOn ==
    ASSUME AreTasks(task), NEW w \in Workers, NEW pc, Goto(w, pc)
    PROVE  /\ AreTasks(task') /\ SameFor(task, task', w)
           /\ Keeping(task[w], task'[w]) /\ task'[w].pc = pc
  <1>1. task' = WithPc(task, w, pc)
    BY DEF Goto, WithPc
  <1>2. /\ AreTasks(task') /\ SameFor(task, task', w)
        /\ task'[w] = Serving(task[w].op, pc, task[w].k, task[w].doc, task[w].network,
                              task[w].member)
    BY <1>1, SetPc
  <1> QED  BY <1>2, ServingFields DEF Keeping

(* Every request that arrives begins with rows that are current. *)
LEMMA RequestOutcome ==
    ASSUME AreTasks(task), NEW w \in Workers, Request(w)
    PROVE  AreTasks(task') /\ SameFor(task, task', w) /\ (Keeps(w) \/ Begins(w))
  <1> USE DEF OnlyTask, tables, OutsideIpam, InIpam
  <1>i. task[w] = Idle => task[w].pc = "idle"
    BY IdleTask
  <1>s. ASSUME NEW op, NEW pc, NEW k, NEW doc, NEW network, NEW member,
               Start(w, Serving(op, pc, k, doc, network, member))
        PROVE  /\ AreTasks(task') /\ SameFor(task, task', w)
               /\ task'[w].op = op /\ task'[w].pc = pc /\ task'[w].k = k /\ task'[w].doc = doc
               /\ task'[w].member = member
    <2> DEFINE t == Serving(op, pc, k, doc, network, member)
    <2>1. /\ IsTask(t) /\ t.op = op /\ t.pc = pc /\ t.k = k /\ t.doc = doc
          /\ t.member = member
      BY ServingFields
    <2>2. task' = [task EXCEPT ![w] = t]
      BY <1>s DEF Start
    <2> HIDE DEF t
    <2> QED  BY <2>1, <2>2, SetTask
  <1>1. ASSUME NEW n, NEW doc, CreateNetwork(w, n, doc)
        PROVE  AreTasks(task') /\ SameFor(task, task', w) /\ Keeps(w)
    BY <1>1 DEF CreateNetwork, Keeps, SameFor, DB!CreateNetwork
  <1>2. ASSUME NEW n, NEW doc, NEW r, UpdateNetworkGet(w, n, doc, r)
        PROVE  AreTasks(task') /\ SameFor(task, task', w) /\ Begins(w)
    BY <1>2, <1>s, <1>i DEF UpdateNetworkGet, Begin, Begins, HoldsMember, DocFromRow
  <1>3. ASSUME NEW n, DeleteNetworkGet(w, n)
        PROVE  AreTasks(task') /\ SameFor(task, task', w) /\ Begins(w)
    BY <1>3, <1>s, <1>i DEF DeleteNetworkGet, Begin, Begins, HoldsMember, DocFromRow
  <1>4. ASSUME NEW k, RegisterMember(w, k)
        PROVE  AreTasks(task') /\ SameFor(task, task', w) /\ Begins(w)
    BY <1>4, <1>s, <1>i DEF RegisterMember, Begin, Begins, HoldsMember, DocFromRow
  <1>5. ASSUME NEW k, NEW authorized, NEW r, SetAuthorizationGet(w, k, authorized, r)
        PROVE  AreTasks(task') /\ SameFor(task, task', w) /\ Begins(w)
    <2> DEFINE doc == [members[k].doc EXCEPT !.authorized = authorized]
    <2>1. IsMemberDoc(members[k].doc) =>
            /\ IsMemberDoc(doc)
            /\ doc.ips = members[k].doc.ips /\ doc.roles = members[k].doc.roles
            /\ doc.capabilities = members[k].doc.capabilities
      BY DEF IsMemberDoc
    <2> HIDE DEF doc
    <2>2. Start(w, Serving("setAuthorization", "save", k, doc, NoRow, members[k]))
      BY <1>5 DEF SetAuthorizationGet, doc
    <2> QED  BY <1>5, <1>s, <1>i, <2>1, <2>2
             DEF SetAuthorizationGet, Begin, Begins, HoldsMember, DocFromRow
  <1>6. ASSUME NEW k, NEW update \in MemberUpdates, NEW r, UpdateMemberGet(w, k, update, r)
        PROVE  AreTasks(task') /\ SameFor(task, task', w) /\ Begins(w)
    <2> DEFINE doc == Updated(members[k].doc, update)
    <2>1. /\ IsMemberDoc(doc) /\ doc.authorized = members[k].doc.authorized
          /\ doc.ips = update.ips /\ doc.capabilities = update.capabilities
      BY DEF IsMemberDoc, Updated
    <2> HIDE DEF doc
    <2>2. Start(w, Serving("updateMember", "save", k, doc, NoRow, members[k]))
      BY <1>6 DEF UpdateMemberGet, doc
    <2> QED  BY <1>6, <1>s, <1>i, <2>1, <2>2
             DEF UpdateMemberGet, Begin, Begins, HoldsMember, DocFromRow
  <1>7. ASSUME NEW k, DeleteMemberGet(w, k)
        PROVE  AreTasks(task') /\ SameFor(task, task', w) /\ Begins(w)
    <2>1. PICK pc \in {"bumpGet", "bumped"} :
                 Start(w, Serving("deleteMember", pc, k, NoRow, NoRow, members[k]))
      BY <1>7 DEF DeleteMemberGet
    <2> QED  BY <1>7, <1>s, <1>i, <2>1 DEF DeleteMemberGet, Begin, Begins, HoldsMember, DocFromRow
  <1>8. ASSUME NEW k, ConfigGetNetwork(w, k)
        PROVE  AreTasks(task') /\ SameFor(task, task', w) /\ Begins(w)
    BY <1>8, <1>s, <1>i DEF ConfigGetNetwork, Begin, Begins, HoldsMember, DocFromRow
  <1> QED  BY <1>1, <1>2, <1>3, <1>4, <1>5, <1>6, <1>7, <1>8 DEF Request

(* Every store call of a request in progress has one of the outcomes. *)
LEMMA StepOutcome ==
    ASSUME AreTasks(task), NEW w \in Workers, Step(w) \/ IpamLock(w) \/ Fail(w)
    PROVE  AreTasks(task') /\ SameFor(task, task', w) /\ Outcome(w)
  <1> USE DEF OnlyTask, tables, OutsideIpam, InIpam
  <1> DEFINE Good == AreTasks(task') /\ SameFor(task, task', w) /\ Outcome(w)
  <1>e. ASSUME Finish(w), members' = members,
               Release(w) \/ (task[w].pc \notin InIpam /\ ipamMu' = ipamMu)
        PROVE  Good
    BY <1>e, Finishes, IdleTask DEF Outcome, Ends
  <1>g. ASSUME NEW pc, Goto(w, pc), members' = members,
               pc \notin {"save", "ipamList", "ipamSave", "register", "create", "registerReget"},
               task[w].pc \notin {"register", "create", "registerReget"},
               \/ task[w].pc \notin InIpam /\ pc \notin InIpam /\ ipamMu' = ipamMu
               \/ task[w].pc \notin InIpam /\ pc = "ipamGet" /\ ipamMu = Nobody /\ ipamMu' = w
               \/ pc \notin InIpam /\ Release(w)
        PROVE  Good
    <2>1. /\ AreTasks(task') /\ SameFor(task, task', w)
          /\ Keeping(task[w], task'[w]) /\ task'[w].pc = pc
      BY <1>g, GoesOn
    <2>2. HoldsMember(task'[w]) => HoldsMember(task[w])
      BY <1>g, <2>1 DEF HoldsMember, Keeping
    <2> QED  BY <1>g, <2>1, <2>2 DEF Outcome, Goes
  <1>m. ASSUME NEW pc, task' = [task EXCEPT ![w].pc = pc, ![w].member = members[task[w].k]],
               members' = members, task[w].op = "config", task[w].k \in DOMAIN members,
               \/ pc = "upsert" /\ task[w].pc \notin InIpam /\ ipamMu' = ipamMu
               \/ pc = "ipamList" /\ task[w].pc \in InIpam /\ ipamMu' = ipamMu
               \/ pc = "list" /\ Release(w)
        PROVE  Good
    <2> DEFINE row == members[task[w].k]
    <2>0. task' = [task EXCEPT ![w].pc = pc, ![w].member = row]
      BY <1>m
    <2> HIDE DEF row
    <2>1. /\ AreTasks(task') /\ SameFor(task, task', w)
          /\ task'[w] = Serving(task[w].op, pc, task[w].k, task[w].doc, task[w].network, row)
      BY <2>0, SetMemberRead
    <2>2. /\ task'[w].op = task[w].op /\ task'[w].pc = pc /\ task'[w].k = task[w].k
          /\ task'[w].doc = task[w].doc /\ task'[w].member = members[task[w].k]
      BY <2>1, ServingFields DEF row
    <2> QED  BY <1>m, <2>1, <2>2 DEF Outcome, Reads
  <1>s. SUFFICES Good
    OBVIOUS
  <1> HIDE DEF Good
  <1>1. CASE UpdateNetworkSave(w)
    BY <1>1, <1>e DEF UpdateNetworkSave, At, DB!SaveNetwork
  <1>2. CASE DeleteNetworkDelete(w)
    <2>1. CASE members' = members
      BY <1>2, <1>e, <2>1 DEF DeleteNetworkDelete, At
    <2>2. CASE members' # members
      <3>1. DB!DeleteNetwork(task[w].k[1])
        BY <1>2, <2>2 DEF DeleteNetworkDelete
      <3>2. \E S \in SUBSET DOMAIN members : members' = DB!Restrict(members, S)
        BY <3>1 DEF DB!DeleteNetwork
      <3> QED  BY <1>2, <3>2, Finishes, IdleTask DEF DeleteNetworkDelete, At, Good, Outcome, Deletes
    <2> QED  BY <2>1, <2>2
  <1>3. CASE BumpGet(w)
    <2> DEFINE row == networks[task[w].k[1]]
    <2>1. CASE task' = [task EXCEPT ![w].pc = "bumpSave", ![w].network = row]
      <3>1. /\ AreTasks(task') /\ SameFor(task, task', w)
            /\ task'[w] = Serving(task[w].op, "bumpSave", task[w].k, task[w].doc, row,
                                  task[w].member)
        BY <2>1, SetTwo
      <3>2. Keeping(task[w], task'[w]) /\ task'[w].pc = "bumpSave"
        BY <3>1, ServingFields DEF Keeping
      <3>3. HoldsMember(task'[w]) => HoldsMember(task[w])
        BY <1>3, <3>2 DEF HoldsMember, Keeping, BumpGet
      <3> QED  BY <1>3, <3>1, <3>2, <3>3 DEF BumpGet, Good, Outcome, Goes
    <2>2. CASE Finish(w)
      BY <1>3, <1>e, <2>2 DEF BumpGet
    <2> QED  BY <1>3, <2>1, <2>2 DEF BumpGet
  <1>4. CASE BumpSave(w)
    BY <1>4, <1>e, <1>g DEF BumpSave, DB!SaveNetwork
  <1>5. CASE RegisterGet(w)
    <2>1. CASE task[w].k \in DOMAIN members
      BY <1>5, <1>m, <2>1 DEF RegisterGet, At
    <2>2. CASE Goto(w, "create")
      <3>1. /\ AreTasks(task') /\ SameFor(task, task', w)
            /\ Keeping(task[w], task'[w]) /\ task'[w].pc = "create"
        BY <2>2, GoesOn
      <3>2. ~ HoldsMember(task'[w])
        BY <1>5, <3>1 DEF HoldsMember, Keeping, RegisterGet, At
      <3> QED  BY <1>5, <3>1, <3>2 DEF RegisterGet, At, Good, Outcome, Goes
    <2> QED  BY <1>5, <2>1, <2>2 DEF RegisterGet
  <1>6. CASE RegisterCreate(w)
    <2>1. CASE Finish(w) /\ UNCHANGED tables
      BY <1>6, <1>e, <2>1 DEF RegisterCreate
    <2>2. CASE Goto(w, "registerReget")
      <3>1. /\ AreTasks(task') /\ SameFor(task, task', w)
            /\ Keeping(task[w], task'[w]) /\ task'[w].pc = "registerReget"
        BY <2>2, GoesOn
      <3>2. HoldsMember(task'[w]) => HoldsMember(task[w])
        BY <3>1 DEF HoldsMember, Keeping
      <3>3. CASE members' = members
        BY <1>6, <3>1, <3>2, <3>3 DEF RegisterCreate, Good, Outcome, Goes
      <3>4. CASE task[w].k \notin DOMAIN members /\ DB!CreateMember(task[w].k, NewMember)
        BY <1>6, <3>1, <3>2, <3>4 DEF RegisterCreate, Good, Outcome, Creates, DB!CreateMember
      <3>5. (task[w].k \notin DOMAIN members /\ DB!CreateMember(task[w].k, NewMember))
              \/ members' = members
        BY <1>6 DEF RegisterCreate
      <3> QED  BY <3>3, <3>4, <3>5
    <2> QED  BY <1>6, <2>1, <2>2 DEF RegisterCreate
  <1>7. CASE RegisterReget(w)
    <2>1. CASE task[w].k \in DOMAIN members /\ task[w].op = "config"
      BY <1>7, <1>m, <2>1 DEF RegisterReget
    <2>2. CASE Finish(w)
      BY <1>7, <1>e, <2>2 DEF RegisterReget
    <2> QED  BY <1>7, <2>1, <2>2 DEF RegisterReget
  <1>8. CASE SetAuthorizationSave(w)
    <2>1. CASE DB!IsCurrent(members, task[w].k, task[w].member.revision)
      <3>1. PICK pc \in {"bumpGet", "bumped"} :
               Goto(w, pc) /\ (pc = "bumped" => task[w].doc.roles = {})
        BY <1>8, <2>1 DEF SetAuthorizationSave
      <3>2. /\ AreTasks(task') /\ SameFor(task, task', w)
            /\ Keeping(task[w], task'[w]) /\ task'[w].pc = pc
        BY <3>1, GoesOn
      <3> QED  BY <1>8, <2>1, <3>1, <3>2
               DEF SetAuthorizationSave, At, Good, Outcome, Saves, Writes, DB!SaveMember
    <2>2. CASE UNCHANGED tables /\ Finish(w)
      BY <1>8, <1>e, <2>2 DEF SetAuthorizationSave, At
    <2> QED  BY <1>8, <2>1, <2>2 DEF SetAuthorizationSave
  <1>9. CASE SetAuthorizationReget(w)
    BY <1>9, <1>e DEF SetAuthorizationReget, At
  <1>10. CASE UpdateMemberSave(w)
    <2>1. CASE DB!IsCurrent(members, task[w].k, task[w].member.revision)
      <3>1. CASE Goto(w, "bumpGet")
        <4>1. /\ AreTasks(task') /\ SameFor(task, task', w)
              /\ Keeping(task[w], task'[w]) /\ task'[w].pc = "bumpGet"
          BY <3>1, GoesOn
        <4> QED  BY <1>10, <2>1, <4>1
                 DEF UpdateMemberSave, At, Good, Outcome, Saves, Writes, DB!SaveMember
      <3>2. CASE Finish(w) /\ ~ SpecialistsChanged(task[w].member, task[w].doc)
        <4>1. AreTasks(task') /\ SameFor(task, task', w) /\ task'[w] = Idle
          BY <3>2, Finishes
        <4> QED  BY <1>10, <2>1, <3>2, <4>1
                 DEF UpdateMemberSave, At, Good, Outcome, Saves, Writes, DB!SaveMember
      <3> QED  BY <1>10, <2>1, <3>1, <3>2 DEF UpdateMemberSave
    <2>2. CASE UNCHANGED tables /\ Finish(w)
      BY <1>10, <1>e, <2>2 DEF UpdateMemberSave, At
    <2> QED  BY <1>10, <2>1, <2>2 DEF UpdateMemberSave
  <1>11. CASE UpdateMemberReget(w)
    BY <1>11, <1>e DEF UpdateMemberReget, At
  <1>12. CASE DeleteMemberDelete(w)
    <2>1. CASE members' = members
      BY <1>12, <1>e, <2>1 DEF DeleteMemberDelete, At
    <2>2. CASE members' # members
      <3>1. DB!DeleteMember(task[w].k)
        BY <1>12, <2>2 DEF DeleteMemberDelete
      <3>2. \E S \in SUBSET DOMAIN members : members' = DB!Restrict(members, S)
        BY <3>1 DEF DB!DeleteMember
      <3> QED  BY <1>12, <3>2, Finishes, IdleTask DEF DeleteMemberDelete, At, Good, Outcome, Deletes
    <2> QED  BY <2>1, <2>2
  <1>13. CASE ConfigUpsert(w)
    <2>1. members' = members /\ ipamMu' = ipamMu /\ task[w].pc = "upsert"
      BY <1>13 DEF ConfigUpsert, At, DB!UpsertAgentMetadata
    <2>2. Finish(w) \/ \E pc \in {"ipamLock", "list"} : Goto(w, pc)
      BY <1>13 DEF ConfigUpsert
    <2> QED  BY <1>e, <1>g, <2>1, <2>2
  <1>14. CASE IpamLock(w)
    BY <1>14, <1>g DEF IpamLock, At
  <1>15. CASE IpamGet(w)
    BY <1>15, <1>e, <1>m DEF IpamGet, At
  <1>16. CASE IpamList(w)
    <2> DEFINE t == task[w]
               ips == Assigned(t.network.doc, t.member.doc, Listed(t.k[1]))
               doc == [t.member.doc EXCEPT !.ips = @ \cup ips]
    <2>1. members' = members /\ task[w].op = "config" /\ task[w].pc = "ipamList"
      BY <1>16 DEF IpamList, At
    <2>2. CASE Finish(w) /\ Release(w)
      BY <1>e, <2>1, <2>2
    <2>3. CASE Goto(w, "list") /\ Release(w)
      BY <1>g, <2>1, <2>3
    <2>4. CASE /\ task' = [task EXCEPT ![w].pc = "ipamSave", ![w].doc = doc]
               /\ ipamMu' = ipamMu
      <3>1. /\ AreTasks(task') /\ SameFor(task, task', w)
            /\ task'[w] = Serving(task[w].op, "ipamSave", task[w].k, doc, task[w].network,
                                  task[w].member)
        BY <2>4, SetTwo
      <3>2. /\ task'[w].op = task[w].op /\ task'[w].pc = "ipamSave" /\ task'[w].k = task[w].k
            /\ task'[w].doc = doc /\ task'[w].member = task[w].member
        BY <3>1, ServingFields
      <3> QED  BY <2>1, <2>4, <3>1, <3>2 DEF Good, Outcome, Chooses
    <2> QED  BY <1>16, <2>2, <2>3, <2>4 DEF IpamList
  <1>17. CASE IpamSave(w)
    <2>1. CASE DB!IsCurrent(members, task[w].k, task[w].member.revision)
      <3>1. /\ AreTasks(task') /\ SameFor(task, task', w)
            /\ Keeping(task[w], task'[w]) /\ task'[w].pc = "ipamReget"
        BY <1>17, <2>1, GoesOn DEF IpamSave
      <3> QED  BY <1>17, <2>1, <3>1
               DEF IpamSave, At, Good, Outcome, Saves, Writes, DB!SaveMember
    <2>2. CASE UNCHANGED tables /\ Finish(w) /\ Release(w)
      BY <1>e, <2>2
    <2> QED  BY <1>17, <2>1, <2>2 DEF IpamSave
  <1>18. CASE IpamReget(w)
    BY <1>18, <1>e, <1>m DEF IpamReget, At
  <1>19. CASE ConfigIssue(w)
    BY <1>19, <1>e DEF ConfigIssue, At
  <1>20. CASE Fail(w)
    BY <1>20, <1>e DEF Fail
  <1> QED  BY <1>1, <1>2, <1>3, <1>4, <1>5, <1>6, <1>7, <1>8, <1>9, <1>10, <1>11, <1>12, <1>13,
              <1>14, <1>15, <1>16, <1>17, <1>18, <1>19, <1>20 DEF Step

(* Every step of the controller is the step of one request. *)
LEMMA NextOutcome ==
    ASSUME AreTasks(task), Next
    PROVE  \E w \in Workers : AreTasks(task') /\ SameFor(task, task', w) /\ Outcome(w)
    BY RequestOutcome, StepOutcome DEF Next, Outcome

-----------------------------------------------------------------------------
(* The mutex. *)

MutexInvariant ==
    /\ AreTasks(task)
    /\ ipamMu \in Workers \cup {Nobody}
    /\ AssignmentExclusive

(* Taking the mutex needs it free, and whatever leaves the assignment      *)
(* releases it.                                                            *)
LEMMA MutexStep ==
    ASSUME MutexInvariant, [Next]_vars
    PROVE  MutexInvariant'
  <1> USE DEF MutexInvariant, AssignmentExclusive
  <1>1. CASE UNCHANGED vars
    BY <1>1 DEF vars
  <1>2. ASSUME NEW w \in Workers, AreTasks(task'), SameFor(task, task', w), Outcome(w)
        PROVE  MutexInvariant'
    <2> USE <1>2 DEF SameFor, InIpam
    <2>1. CASE Keeps(w)
      BY <2>1 DEF Keeps
    <2>2. CASE Ends(w)
      BY <2>2, IdleTask DEF Ends, Release, OutsideIpam
    <2>3. CASE Begins(w)
      BY <2>3 DEF Begins, OutsideIpam
    <2>4. CASE Goes(w)
      BY <2>4 DEF Goes, Release, OutsideIpam
    <2>5. CASE Reads(w)
      BY <2>5 DEF Reads, Release, OutsideIpam
    <2>6. CASE Chooses(w)
      BY <2>6 DEF Chooses
    <2>7. CASE Saves(w)
      BY <2>7, IdleTask DEF Saves, Writes
    <2>8. CASE Creates(w)
      BY <2>8 DEF Creates
    <2>9. CASE Deletes(w)
      BY <2>9 DEF Deletes, OutsideIpam
    <2> QED  BY <2>1, <2>2, <2>3, <2>4, <2>5, <2>6, <2>7, <2>8, <2>9 DEF Outcome
  <1> QED  BY <1>1, <1>2, NextOutcome

(* The initial state has no requests. *)
LEMMA MutexInit == Init => MutexInvariant
  <1>1. ASSUME Init PROVE AreTasks(task) /\ \A w \in Workers : task[w].pc = "idle"
    BY <1>1, IdleTask DEF Init, AreTasks
  <1> QED  BY <1>1 DEF Init, MutexInvariant, AssignmentExclusive

(* The mutex invariant holds in every reachable state. *)
LEMMA MutexInvariantHolds == Spec => []MutexInvariant
  <1>1. MutexInvariant /\ [Next]_vars => MutexInvariant'
    BY MutexStep
  <1> QED  BY <1>1, MutexInit, PTL DEF Spec

(* ensureAutomaticAssignments never runs twice at once, and every way out  *)
(* of it, a failing store call included, releases ipamMu: no request waits *)
(* for a mutex that nobody is going to release.                            *)
THEOREM MutexExclusive == Spec => []AssignmentExclusive
  <1>1. MutexInvariant => AssignmentExclusive
    BY DEF MutexInvariant
  <1> QED  BY <1>1, MutexInvariantHolds, PTL

-----------------------------------------------------------------------------
(* The rows, and the copies that requests hold of them. *)

IsRow(row) ==
    row.revision \in Nat \ {0} /\ IsMemberDoc(row.doc) /\ IsIDSet(row.doc.capabilities)

RowsInvariant ==
    /\ \A k \in DOMAIN members : IsRow(members[k])
    /\ \A w \in Workers :
          /\ task[w].op \in Operations \cup {"none"}
          /\ HoldsMember(task[w]) => IsRow(task[w].member)
          /\ DocFromRow(task[w])

(* A save or a create puts a well-formed row into the table. *)
LEMMA PutRow ==
    ASSUME NEW table, \A k \in DOMAIN table : IsRow(table[k]), NEW key, NEW row, IsRow(row)
    PROVE  /\ \A k \in DOMAIN DB!Put(table, key, row) : IsRow(DB!Put(table, key, row)[k])
           /\ DOMAIN DB!Put(table, key, row) = DOMAIN table \cup {key}
           /\ DB!Put(table, key, row)[key] = row
           /\ \A k \in DOMAIN table : k # key => DB!Put(table, key, row)[k] = table[k]
    BY DEF DB!Put

(* Rows and copies stay well formed, and a document to be written is made  *)
(* from the copy as its operation says.                                    *)
LEMMA RowsStep ==
    ASSUME MutexInvariant, RowsInvariant, [Next]_vars
    PROVE  RowsInvariant'
  <1>1. CASE UNCHANGED vars
    BY <1>1 DEF vars, RowsInvariant
  <1>2. ASSUME NEW w \in Workers, AreTasks(task'), SameFor(task, task', w), Outcome(w)
        PROVE  RowsInvariant'
    <2> DEFINE t == task[w]
               u == task'[w]
               RowsOK == \A k \in DOMAIN members' : IsRow(members'[k])
               TaskOK == /\ u.op \in Operations \cup {"none"}
                         /\ HoldsMember(u) => IsRow(u.member)
                         /\ DocFromRow(u)
    <2>0. /\ \A k \in DOMAIN members : IsRow(members[k])
          /\ t.op \in Operations \cup {"none"}
          /\ HoldsMember(t) => IsRow(t.member)
          /\ DocFromRow(t)
      BY DEF RowsInvariant
    <2>s. SUFFICES RowsOK /\ TaskOK
      BY <1>2 DEF RowsInvariant, SameFor
    <2>i. u = Idle => TaskOK
      BY IdleTask DEF DocFromRow
    <2>1. CASE Keeps(w)
      BY <2>0, <2>1 DEF Keeps
    <2>2. CASE Ends(w)
      BY <2>0, <2>2, <2>i DEF Ends
    <2>3. CASE Begins(w)
      BY <2>0, <2>3 DEF Begins
    <2>4. CASE Goes(w)
      BY <2>0, <2>4 DEF Goes, Keeping, DocFromRow
    <2>5. CASE Reads(w)
      BY <2>0, <2>5 DEF Reads, DocFromRow
    <2>6. CASE Chooses(w)
      <3>1. IsRow(t.member) /\ u.member = t.member /\ u.op = "config" /\ u.pc = "ipamSave"
            /\ members' = members
        BY <2>0, <2>6 DEF Chooses, HoldsMember
      <3> DEFINE ips == Assigned(t.network.doc, t.member.doc, Listed(t.k[1]))
      <3>2. u.doc = [t.member.doc EXCEPT !.ips = @ \cup ips]
        BY <2>6 DEF Chooses
      <3> HIDE DEF ips
      <3>3. /\ IsMemberDoc(u.doc)
            /\ u.doc.authorized = t.member.doc.authorized /\ u.doc.roles = t.member.doc.roles
            /\ u.doc.capabilities = t.member.doc.capabilities
        BY <3>1, <3>2 DEF IsRow, IsMemberDoc
      <3>4. u.op \in Operations \cup {"none"}
        BY <2>0, <2>6 DEF Chooses
      <3> QED  BY <2>0, <3>1, <3>3, <3>4 DEF DocFromRow
    <2>7. CASE Saves(w)
      <3>1. /\ IsMemberDoc(t.doc) /\ t.member.revision + 1 \in Nat \ {0}
            /\ IsIDSet(t.doc.capabilities)
        BY <2>0, <2>7, DocumentsAssumption DEF Saves, Writes, HoldsMember, DocFromRow, IsRow
      <3>2. IsRow([revision |-> t.member.revision + 1, doc |-> t.doc])
        BY <3>1 DEF IsRow
      <3>3. RowsOK
        BY <2>0, <2>7, <3>2, PutRow DEF Saves
      <3>4. TaskOK
        BY <2>0, <2>7, <2>i DEF Saves, Writes, HoldsMember, Keeping, DocFromRow
      <3> QED  BY <3>3, <3>4
    <2>8. CASE Creates(w)
      <3>0. IsMemberDoc(NewMember) /\ NewMember.capabilities = {}
        BY DEF IsMemberDoc, NewMember
      <3>a. IsIDSet({})
        BY FS_EmptySet DEF IsIDSet
      <3>1. IsRow([revision |-> 1, doc |-> NewMember])
        BY <3>0, <3>a DEF IsRow
      <3>2. RowsOK
        BY <2>0, <2>8, <3>1, PutRow DEF Creates
      <3>3. TaskOK
        BY <2>0, <2>8 DEF Creates, Keeping, DocFromRow
      <3> QED  BY <3>2, <3>3
    <2>9. CASE Deletes(w)
      <3>1. RowsOK
        BY <2>0, <2>9 DEF Deletes, DB!Restrict
      <3> QED  BY <2>9, <2>i, <3>1 DEF Deletes
    <2> QED  BY <1>2, <2>1, <2>2, <2>3, <2>4, <2>5, <2>6, <2>7, <2>8, <2>9 DEF Outcome
  <1> QED  BY <1>1, <1>2, NextOutcome DEF MutexInvariant

(* The rows are well formed in every reachable state. *)
LEMMA RowsInvariantHolds == Spec => []RowsInvariant
  <1>1. Init => RowsInvariant
    <2>1. SUFFICES ASSUME Init PROVE RowsInvariant
      OBVIOUS
    <2>2. \A w \in Workers : task[w] = Idle
      BY <2>1 DEF Init
    <2>3. \A k \in DOMAIN members : IsRow(members[k])
      BY <2>1, DocumentsAssumption DEF Init, IsRow
    <2> QED  BY <2>2, <2>3, IdleTask DEF RowsInvariant, DocFromRow
  <1>2. MutexInvariant /\ RowsInvariant /\ [Next]_vars => RowsInvariant'
    BY RowsStep
  <1> QED  BY <1>1, <1>2, MutexInvariantHolds, PTL DEF Spec

\* While nothing is deleted a revision is never used twice.
NoDeletions == Operations \cap {"deleteNetwork", "deleteMember"} = {}

\* A copy is older than the row, or equal to it.
IsCopy(table, k, row) ==
    /\ k \in DOMAIN table
    /\ row.revision <= table[k].revision
    /\ row.revision = table[k].revision => row = table[k]

CopiesInvariant ==
    \A w \in Workers : HoldsMember(task[w]) => IsCopy(members, task[w].k, task[w].member)

RowsAdvance ==
    \A k \in DOMAIN members :
        /\ k \in DOMAIN members'
        /\ members'[k] = members[k] \/ members'[k].revision = members[k].revision + 1

(* Without deletions every step leaves a row alone or advances it by one   *)
(* revision; and whatever wrote it, other than SetMemberAuthorization,     *)
(* wrote the authorization that it had.                                    *)
LEMMA RowsOnlyAdvance ==
    ASSUME NoDeletions, MutexInvariant, RowsInvariant, CopiesInvariant,
           NEW w \in Workers, Outcome(w)
    PROVE  /\ RowsAdvance
           /\ \A k \in DOMAIN members :
                 members'[k].doc.authorized # members[k].doc.authorized =>
                    At(w, "setAuthorization", "save") /\ task[w].k = k /\ Saves(w)
  <1> DEFINE t == task[w]
  <1>0. /\ \A k \in DOMAIN members : IsRow(members[k])
        /\ t.op \in Operations \cup {"none"}
        /\ HoldsMember(t) => IsRow(t.member) /\ IsCopy(members, t.k, t.member)
        /\ DocFromRow(t)
    BY DEF RowsInvariant, CopiesInvariant
  <1>1. CASE members' = members
    BY <1>1 DEF RowsAdvance
  <1>2. CASE Saves(w)
    <2> DEFINE row == [revision |-> t.member.revision + 1, doc |-> t.doc]
    <2>1. /\ HoldsMember(t) /\ t.k \in DOMAIN members
          /\ members[t.k].revision = t.member.revision
      BY <1>2 DEF Saves, Writes, HoldsMember, DB!IsCurrent
    <2>2. t.member = members[t.k] /\ IsMemberDoc(t.member.doc) /\ t.member.revision \in Nat
      BY <1>0, <2>1 DEF IsCopy, IsRow
    <2>3. IsMemberDoc(t.doc)
      BY <1>0, <1>2, <2>2 DEF Saves, Writes, DocFromRow
    <2>5. members' = DB!Put(members, t.k, row)
      BY <1>2 DEF Saves
    <2>6. row.revision = t.member.revision + 1 /\ row.doc = t.doc
      OBVIOUS
    <2> HIDE DEF row
    <2>7. /\ DOMAIN members' = DOMAIN members \cup {t.k}
          /\ members'[t.k] = row
          /\ \A k \in DOMAIN members : k # t.k => members'[k] = members[k]
      BY <2>5 DEF DB!Put
    <2>8. RowsAdvance
      BY <2>1, <2>6, <2>7 DEF RowsAdvance
    <2>9. \/ t.doc.authorized = t.member.doc.authorized
          \/ At(w, "setAuthorization", "save")
      BY <1>0, <1>2, <2>2 DEF Saves, Writes, DocFromRow, At
    <2> QED  BY <1>2, <2>2, <2>6, <2>7, <2>8, <2>9
  <1>3. CASE Creates(w)
    <2>2. /\ t.k \notin DOMAIN members
          /\ DOMAIN members' = DOMAIN members \cup {t.k}
          /\ \A k \in DOMAIN members : k # t.k => members'[k] = members[k]
      BY <1>3 DEF Creates, DB!Put
    <2> QED  BY <2>2 DEF RowsAdvance
  <1>4. ~ Deletes(w)
    BY <1>0 DEF NoDeletions, Deletes
  <1> QED  BY <1>1, <1>2, <1>3, <1>4
           DEF Outcome, Keeps, Ends, Begins, Goes, Reads, Chooses

(* Copies stay copies: what a request holds was the row at some time, and  *)
(* is the row as long as the revision says so.                             *)
LEMMA CopiesStep ==
    ASSUME NoDeletions, MutexInvariant, RowsInvariant, RowsInvariant', CopiesInvariant, [Next]_vars
    PROVE  CopiesInvariant'
  <1>1. CASE UNCHANGED vars
    BY <1>1 DEF vars, CopiesInvariant, IsCopy
  <1>2. ASSUME NEW w \in Workers, AreTasks(task'), SameFor(task, task', w), Outcome(w)
        PROVE  CopiesInvariant'
    <2> DEFINE t == task[w]
               u == task'[w]
    <2>1. RowsAdvance
      BY <1>2, RowsOnlyAdvance
    <2>2. ASSUME NEW k, NEW row, IsRow(row), IsCopy(members, k, row)
          PROVE  IsCopy(members', k, row)
      <3>1. /\ k \in DOMAIN members' /\ row.revision \in Nat
            /\ members[k].revision \in Nat
            /\ members'[k] = members[k] \/ members'[k].revision = members[k].revision + 1
        BY <2>1, <2>2 DEF RowsAdvance, IsCopy, IsRow, RowsInvariant
      <3> QED  BY <2>2, <3>1 DEF IsCopy
    <2>3. ASSUME NEW v \in Workers, HoldsMember(task[v])
          PROVE  IsRow(task[v].member) /\ IsCopy(members, task[v].k, task[v].member)
      BY <2>3 DEF RowsInvariant, CopiesInvariant
    <2>4. ASSUME NEW v \in Workers, v # w, HoldsMember(task'[v])
          PROVE  IsCopy(members', task'[v].k, task'[v].member)
      <3>1. task'[v] = task[v]
        BY <1>2, <2>4 DEF SameFor
      <3> QED  BY <2>2, <2>3, <2>4, <3>1
    <2>5. HoldsMember(u) => IsCopy(members', u.k, u.member)
      <3>1. SUFFICES ASSUME HoldsMember(u) PROVE IsCopy(members', u.k, u.member)
        OBVIOUS
      <3>2. CASE HoldsMember(t) /\ u.k = t.k /\ u.member = t.member
        BY <2>2, <2>3, <3>2
      <3>3. CASE /\ u.k \in DOMAIN members /\ u.member = members[u.k]
                 /\ members' = members
        <4>1. members[u.k].revision \in Nat
          BY <3>3 DEF RowsInvariant, IsRow
        <4> QED  BY <3>3, <4>1 DEF IsCopy
      <3>4. u # Idle
        BY <3>1, IdleTask
      <3> QED  BY <1>2, <3>1, <3>2, <3>3, <3>4
               DEF Outcome, Keeps, Ends, Begins, Goes, Reads, Chooses, Saves, Creates, Deletes,
                   Keeping, Writes, HoldsMember
    <2> QED  BY <2>4, <2>5 DEF CopiesInvariant
  <1> QED  BY <1>1, <1>2, NextOutcome DEF MutexInvariant

(* Without deletions the copies are copies in every reachable state. *)
LEMMA CopiesInvariantHolds ==
    ASSUME NoDeletions
    PROVE  Spec => []CopiesInvariant
  <1>1. Init => CopiesInvariant
    BY IdleTask DEF Init, CopiesInvariant
  <1>2. MutexInvariant /\ RowsInvariant /\ RowsInvariant' /\ CopiesInvariant /\ [Next]_vars
            => CopiesInvariant'
    BY CopiesStep
  <1> QED  BY <1>1, <1>2, MutexInvariantHolds, RowsInvariantHolds, PTL DEF Spec

(* Where no member and no network is deleted, a configuration request or   *)
(* an UpdateMember that overlaps with SetMemberAuthorization never undoes  *)
(* it, although both write the whole member back: the revision they expect *)
(* tells them that the flag they read has not changed.  (A member deleted  *)
(* and registered again starts again at revision 1, and a save of a copy   *)
(* from before can hit it.)                                                *)
THEOREM AuthorizationKept ==
    ASSUME NoDeletions
    PROVE  Spec => AuthorizationOnlyOnRequest
  <1> DEFINE Kept == \A k \in DOMAIN members \cap DOMAIN members' :
                        members'[k].doc.authorized # members[k].doc.authorized =>
                            \E w \in Workers :
                                /\ At(w, "setAuthorization", "save") /\ task'[w].pc # "save"
                                /\ task[w].k = k /\ members'[k].doc = task[w].doc
  <1>1. MutexInvariant /\ RowsInvariant /\ CopiesInvariant /\ [Next]_vars => [Kept]_vars
    <2>1. SUFFICES ASSUME MutexInvariant, RowsInvariant, CopiesInvariant, Next
                   PROVE  Kept
      OBVIOUS
    <2>2. PICK w \in Workers : Outcome(w)
      BY <2>1, NextOutcome DEF MutexInvariant
    <2>3. ASSUME NEW k \in DOMAIN members,
                 members'[k].doc.authorized # members[k].doc.authorized
          PROVE  /\ At(w, "setAuthorization", "save") /\ task'[w].pc # "save"
                 /\ task[w].k = k /\ members'[k].doc = task[w].doc
      <3> DEFINE t == task[w]
                 row == [revision |-> t.member.revision + 1, doc |-> t.doc]
      <3>1. At(w, "setAuthorization", "save") /\ t.k = k /\ Saves(w)
        BY <2>1, <2>2, <2>3, RowsOnlyAdvance
      <3>2. members' = DB!Put(members, k, row) /\ row.doc = t.doc /\ task'[w].pc # "save"
        BY <3>1 DEF Saves, At
      <3> HIDE DEF row
      <3>3. members'[k] = row
        BY <3>2 DEF DB!Put
      <3> QED  BY <3>1, <3>2, <3>3
    <2> QED  BY <2>3
  <1> QED  BY <1>1, MutexInvariantHolds, RowsInvariantHolds, CopiesInvariantHolds, PTL
           DEF Spec, AuthorizationOnlyOnRequest

-----------------------------------------------------------------------------
(* The addresses. *)

\* The administrators assign no addresses themselves.
AddressesAutomatic == \A update \in MemberUpdates : update.ips = {}

\* The set shares no address with the members of the network other than k.
Apart(table, k, ips) ==
    \A k2 \in DOMAIN table : k2[1] = k[1] /\ k2 # k => ips \cap table[k2].doc.ips = {}

\* What a request in the assignment is going to write is free, and stays free because
\* no other request is in the assignment.
UniqueInvariant ==
    /\ \A k \in DOMAIN members : Apart(members, k, members[k].doc.ips)
    /\ \A w \in Workers :
          /\ task[w].pc = "ipamList" => Apart(members, task[w].k, task[w].member.doc.ips)
          /\ task[w].pc = "ipamSave" => Apart(members, task[w].k, task[w].doc.ips)

(* firstAvailableAddress never returns an address in use. *)
LEMMA AssignedUnused ==
    ASSUME NEW network, NEW doc, NEW list
    PROVE  Assigned(network, doc, list) \cap UsedAddresses(list) = {}
  <1>1. ASSUME NEW used, NEW f
        PROVE  FirstAvailableAddress(network, used, f) \cap used = {}
    BY DEF FirstAvailableAddress
  <1> QED  BY <1>1 DEF Assigned

(* The addresses of every member of the network that was listed are in use. *)
LEMMA ListedUsed ==
    ASSUME NEW n, NEW k \in DOMAIN members, k[1] = n
    PROVE  members[k].doc.ips \subseteq UsedAddresses(Listed(n))
  <1>1. <<k[2], members[k]>> \in Listed(n)
    BY DEF Listed, DB!MembersOf
  <1> QED  BY <1>1 DEF UsedAddresses

\* No member has an address it did not have before.
AddressesShrink ==
    \A k \in DOMAIN members' :
        \/ k \in DOMAIN members /\ members'[k].doc.ips \subseteq members[k].doc.ips
        \/ members'[k].doc.ips = {}

(* What was free stays free when addresses are only given up. *)
LEMMA ApartShrink ==
    ASSUME AddressesShrink, NEW k, NEW ips, Apart(members, k, ips)
    PROVE  Apart(members', k, ips)
    BY DEF AddressesShrink, Apart

(* The addresses stay unique.  The hypothesis on deletions is needed for   *)
(* SetMemberAuthorization, which writes back the addresses it has read:    *)
(* without deletions they are those of the row.                            *)
LEMMA UniqueStep ==
    ASSUME AddressesAutomatic, NoDeletions \/ "setAuthorization" \notin Operations,
           MutexInvariant, RowsInvariant, NoDeletions => CopiesInvariant, UniqueInvariant,
           [Next]_vars
    PROVE  UniqueInvariant'
  <1>1. CASE UNCHANGED vars
    BY <1>1 DEF vars, UniqueInvariant, Apart
  <1>2. ASSUME NEW w \in Workers, AreTasks(task'), SameFor(task, task', w), Outcome(w)
        PROVE  UniqueInvariant'
    <2> DEFINE t == task[w]
               u == task'[w]
               TaskApart == /\ u.pc = "ipamList" => Apart(members', u.k, u.member.doc.ips)
                            /\ u.pc = "ipamSave" => Apart(members', u.k, u.doc.ips)
    <2>0. /\ t.op \in Operations \cup {"none"}
          /\ HoldsMember(t) => IsRow(t.member)
          /\ DocFromRow(t)
          /\ t.pc = "ipamList" => Apart(members, t.k, t.member.doc.ips)
          /\ t.pc = "ipamSave" => Apart(members, t.k, t.doc.ips)
      BY DEF RowsInvariant, UniqueInvariant
    <2>i. u = Idle => TaskApart
      BY IdleTask
    \* Steps that only give up addresses.
    <2>a. ASSUME AddressesShrink, TaskApart
          PROVE  UniqueInvariant'
      <3>1. ASSUME NEW k \in DOMAIN members'
            PROVE  Apart(members', k, members'[k].doc.ips)
        <4>1. CASE members'[k].doc.ips = {}
          BY <4>1 DEF Apart
        <4>2. CASE k \in DOMAIN members /\ members'[k].doc.ips \subseteq members[k].doc.ips
          <5>1. Apart(members', k, members[k].doc.ips)
            BY <2>a, <4>2, ApartShrink DEF UniqueInvariant
          <5> QED  BY <4>2, <5>1 DEF Apart
        <4> QED  BY <2>a, <4>1, <4>2 DEF AddressesShrink
      <3>2. ASSUME NEW v \in Workers
            PROVE  /\ task'[v].pc = "ipamList" =>
                         Apart(members', task'[v].k, task'[v].member.doc.ips)
                   /\ task'[v].pc = "ipamSave" => Apart(members', task'[v].k, task'[v].doc.ips)
        <4>1. CASE v = w
          BY <2>a, <4>1
        <4>2. CASE v # w
          <5>1. task'[v] = task[v]
            BY <1>2, <4>2 DEF SameFor
          <5> QED  BY <2>a, <5>1, ApartShrink DEF UniqueInvariant
        <4> QED  BY <4>1, <4>2
      <3> QED  BY <3>1, <3>2 DEF UniqueInvariant
    <2>b. members' = members => AddressesShrink
      BY DEF AddressesShrink
    <2> HIDE DEF TaskApart
    <2>1. CASE Keeps(w)
      BY <2>0, <2>1, <2>a, <2>b DEF Keeps, TaskApart
    <2>2. CASE Ends(w)
      BY <2>2, <2>a, <2>b, <2>i DEF Ends
    <2>3. CASE Begins(w)
      BY <2>3, <2>a, <2>b DEF Begins, OutsideIpam, InIpam, TaskApart
    <2>4. CASE Goes(w)
      BY <2>4, <2>a, <2>b DEF Goes, TaskApart
    <2>5. CASE Reads(w)
      <3>1. TaskApart
        BY <2>5 DEF Reads, TaskApart, UniqueInvariant
      <3> QED  BY <2>5, <2>a, <2>b, <3>1 DEF Reads
    <2>6. CASE Chooses(w)
      <3> DEFINE ips == Assigned(t.network.doc, t.member.doc, Listed(t.k[1]))
      <3>1. /\ members' = members /\ t.pc = "ipamList" /\ u.pc = "ipamSave" /\ u.k = t.k
            /\ u.doc = [t.member.doc EXCEPT !.ips = @ \cup ips]
            /\ HoldsMember(t)
        BY <2>6 DEF Chooses, HoldsMember
      <3>2. ips \cap UsedAddresses(Listed(t.k[1])) = {}
        BY AssignedUnused
      <3> HIDE DEF ips
      <3>3. u.doc.ips = t.member.doc.ips \cup ips
        BY <2>0, <3>1 DEF IsRow, IsMemberDoc
      <3>4. Apart(members, t.k, ips)
        BY <3>2, ListedUsed DEF Apart
      <3>5. Apart(members, t.k, u.doc.ips)
        BY <2>0, <3>1, <3>3, <3>4 DEF Apart
      <3>6. TaskApart
        BY <3>1, <3>5 DEF TaskApart
      <3> QED  BY <2>a, <2>b, <3>1, <3>6
    <2>7. CASE Saves(w)
      <3> DEFINE row == [revision |-> t.member.revision + 1, doc |-> t.doc]
      <3>1. /\ members' = DB!Put(members, t.k, row) /\ row.doc = t.doc
            /\ t.k \in DOMAIN members /\ members[t.k].revision = t.member.revision
            /\ Writes(t) /\ HoldsMember(t)
        BY <2>7 DEF Saves, DB!IsCurrent, Writes, HoldsMember
      <3> HIDE DEF row
      <3>2. /\ DOMAIN members' = DOMAIN members \cup {t.k}
            /\ members'[t.k].doc.ips = t.doc.ips
            /\ \A k \in DOMAIN members : k # t.k => members'[k] = members[k]
        BY <3>1 DEF DB!Put
      <3>3. TaskApart
        BY <2>7, <2>i DEF Saves, TaskApart
      <3>4. CASE t.op = "config"
        <4>1. t.pc = "ipamSave" /\ Apart(members, t.k, t.doc.ips)
          BY <2>0, <3>1, <3>4 DEF Writes
        <4>2. \A v \in Workers : v # w => task[v].pc \notin InIpam
          BY <4>1 DEF MutexInvariant, AssignmentExclusive, InIpam
        <4>3. ASSUME NEW k \in DOMAIN members'
              PROVE  Apart(members', k, members'[k].doc.ips)
          <5>1. CASE k = t.k
            BY <3>2, <4>1, <5>1 DEF Apart
          <5>2. CASE k # t.k
            <6>1. Apart(members, k, members[k].doc.ips) /\ members'[k] = members[k]
              BY <3>2, <4>3, <5>2 DEF UniqueInvariant
            <6>2. k[1] = t.k[1] => members[k].doc.ips \cap t.doc.ips = {}
              BY <3>2, <4>1, <4>3, <5>2 DEF Apart
            <6> QED  BY <3>2, <5>2, <6>1, <6>2 DEF Apart
          <5> QED  BY <5>1, <5>2
        <4>4. ASSUME NEW v \in Workers
              PROVE  task'[v].pc \notin {"ipamList", "ipamSave"}
          <5>1. CASE v = w
            BY <2>7, <3>4, <5>1 DEF Saves
          <5>2. CASE v # w
            BY <1>2, <4>2, <5>2 DEF SameFor, InIpam
          <5> QED  BY <5>1, <5>2
        <4> QED  BY <4>3, <4>4 DEF UniqueInvariant
      <3>5. CASE t.op = "updateMember"
        <4>1. t.doc.ips = {}
          BY <2>0, <3>1, <3>5 DEF DocFromRow, Writes, AddressesAutomatic
        <4> QED  BY <2>a, <3>2, <3>3, <4>1 DEF AddressesShrink
      <3>6. CASE t.op = "setAuthorization"
        <4>1. NoDeletions /\ CopiesInvariant
          BY <2>0, <3>6
        <4>2. t.member = members[t.k]
          BY <3>1, <4>1 DEF CopiesInvariant, IsCopy
        <4>3. t.doc.ips = members[t.k].doc.ips
          BY <2>0, <3>1, <3>6, <4>2 DEF DocFromRow, Writes, IsRow
        <4> QED  BY <2>a, <3>1, <3>2, <3>3, <4>3 DEF AddressesShrink
      <3> QED  BY <3>1, <3>4, <3>5, <3>6 DEF Writes
    <2>8. CASE Creates(w)
      <3> DEFINE row == [revision |-> 1, doc |-> NewMember]
      <3>1. /\ members' = DB!Put(members, t.k, row)
            /\ u.pc = "registerReget" /\ row.doc.ips = {}
        BY <2>8 DEF Creates, NewMember
      <3> HIDE DEF row
      <3>2. AddressesShrink
        BY <3>1 DEF DB!Put, AddressesShrink
      <3> QED  BY <2>a, <3>1, <3>2 DEF TaskApart
    <2>9. CASE Deletes(w)
      <3>1. AddressesShrink
        BY <2>9 DEF Deletes, DB!Restrict, AddressesShrink
      <3> QED  BY <2>9, <2>a, <2>i, <3>1 DEF Deletes
    <2> QED  BY <1>2, <2>1, <2>2, <2>3, <2>4, <2>5, <2>6, <2>7, <2>8, <2>9 DEF Outcome
  <1> QED  BY <1>1, <1>2, NextOutcome DEF MutexInvariant

(* As long as administrators assign no addresses, no two members of a      *)
(* network ever share one, however configuration requests, resets,         *)
(* registrations and either deletions or changes of authorization overlap. *)
(* It rests on the mutex, under which the member and the list are read and *)
(* the member is written (ipam.go:26-77), not on the revision alone.       *)
THEOREM AddressesStayUnique ==
    ASSUME AddressesAutomatic, NoDeletions \/ "setAuthorization" \notin Operations,
           \A k \in DOMAIN InitialMembers : Apart(InitialMembers, k, InitialMembers[k].doc.ips)
    PROVE  Spec => []AddressesUnique
  <1>1. Init => UniqueInvariant
    BY IdleTask DEF Init, UniqueInvariant
  <1>2. /\ MutexInvariant /\ RowsInvariant /\ (NoDeletions => CopiesInvariant) /\ UniqueInvariant
        /\ [Next]_vars
        => UniqueInvariant'
    BY UniqueStep
  <1>3. Spec => [](NoDeletions => CopiesInvariant)
    <2>1. CASE NoDeletions
      BY <2>1, CopiesInvariantHolds, PTL
    <2>2. CASE ~ NoDeletions
      <3>1. NoDeletions => CopiesInvariant
        BY <2>2
      <3> QED  BY <3>1, PTL
    <2> QED  BY <2>1, <2>2
  <1>4. UniqueInvariant => AddressesUnique
    BY DEF UniqueInvariant, Apart, AddressesUnique
  <1> QED  BY <1>1, <1>2, <1>3, <1>4, MutexInvariantHolds, RowsInvariantHolds, PTL DEF Spec
-----------------------------------------------------------------------------
(* One address per family. *)

OnePerFamily(ips) == \A a, b \in ips : a.family = b.family => a = b

\* In every row, in every copy of one, and in what an assignment is going to write.
FamilyInvariant ==
    /\ \A k \in DOMAIN members : OnePerFamily(members[k].doc.ips)
    /\ \A w \in Workers :
          /\ HoldsMember(task[w]) => OnePerFamily(task[w].member.doc.ips)
          /\ Writes(task[w]) => OnePerFamily(task[w].doc.ips)

(* firstAvailableAddress returns at most one address, of the family it was *)
(* asked for.                                                              *)
LEMMA FirstAvailableIsOne ==
    ASSUME NEW network, NEW used, NEW f
    PROVE  \A a, b \in FirstAvailableAddress(network, used, f) : a = b /\ a.family = f
  <1> DEFINE candidates == Candidates(network.pools, f)
             candidate(scanned) == [family |-> f, number |-> candidates[scanned]]
             free == {scanned \in 1..MaxIPAMPoolScan :
                        /\ scanned <= Len(candidates)
                        /\ candidate(scanned) \notin used
                        /\ AddressHasManagedRoute(network.routes, candidate(scanned))}
             least == {x \in free : \A y \in free : x <= y}
  <1>1. FirstAvailableAddress(network, used, f) = {candidate(first) : first \in least}
    BY DEF FirstAvailableAddress
  <1>2. \A x, y \in least : x = y
    BY MaxIPAMPoolScanAssumption
  <1>3. \A x : candidate(x).family = f
    OBVIOUS
  <1> HIDE DEF least, candidate
  <1> QED  BY <1>1, <1>2, <1>3

(* What is assigned is of families that the member has no address of, and  *)
(* one of each.                                                            *)
LEMMA AssignedOnePerFamily ==
    ASSUME NEW network, NEW doc, NEW list, OnePerFamily(doc.ips)
    PROVE  OnePerFamily(doc.ips \cup Assigned(network, doc, list))
  <1> DEFINE ips == Assigned(network, doc, list)
  <1>1. ASSUME NEW a \in ips
        PROVE  \E f \in Needs(network, doc) :
                  a \in FirstAvailableAddress(network, UsedAddresses(list), f) /\ a.family = f
    BY <1>1, FirstAvailableIsOne DEF Assigned
  <1>2. ASSUME NEW a \in ips, NEW b \in ips, a.family = b.family PROVE a = b
    <2>1. /\ a \in FirstAvailableAddress(network, UsedAddresses(list), a.family)
          /\ b \in FirstAvailableAddress(network, UsedAddresses(list), a.family)
      BY <1>1, <1>2
    <2> QED  BY <2>1, FirstAvailableIsOne
  <1>3. ASSUME NEW a \in ips, NEW b \in doc.ips PROVE a.family # b.family
    <2>1. a.family \in Needs(network, doc)
      BY <1>1
    <2> QED  BY <2>1 DEF Needs, HasAddressFamily
  <1>4. SUFFICES OnePerFamily(doc.ips \cup ips)
    OBVIOUS
  <1> HIDE DEF ips
  <1> QED  BY <1>2, <1>3 DEF OnePerFamily

\* No document that administrators write has two addresses of a family.
UpdatesOnePerFamily == \A update \in MemberUpdates : OnePerFamily(update.ips)

(* No step gives a row, a copy or a document two addresses of a family.    *)
LEMMA FamilyStep ==
    ASSUME UpdatesOnePerFamily, MutexInvariant, RowsInvariant, FamilyInvariant, [Next]_vars
    PROVE  FamilyInvariant'
  <1>1. CASE UNCHANGED vars
    BY <1>1 DEF vars, FamilyInvariant
  <1>2. ASSUME NEW w \in Workers, AreTasks(task'), SameFor(task, task', w), Outcome(w)
        PROVE  FamilyInvariant'
    <2> DEFINE t == task[w]
               u == task'[w]
               RowsOne == \A k \in DOMAIN members' : OnePerFamily(members'[k].doc.ips)
               TaskOne == /\ HoldsMember(u) => OnePerFamily(u.member.doc.ips)
                          /\ Writes(u) => OnePerFamily(u.doc.ips)
    <2>0. /\ \A k \in DOMAIN members : OnePerFamily(members[k].doc.ips) /\ IsRow(members[k])
          /\ HoldsMember(t) => IsRow(t.member) /\ OnePerFamily(t.member.doc.ips)
          /\ Writes(t) => OnePerFamily(t.doc.ips)
      BY DEF FamilyInvariant, RowsInvariant
    <2>s. SUFFICES RowsOne /\ TaskOne
      BY <1>2 DEF FamilyInvariant, SameFor
    <2>i. u = Idle => TaskOne
      BY IdleTask
    <2>r. members' = members => RowsOne
      BY <2>0
    <2> HIDE DEF RowsOne
    <2>1. CASE Keeps(w)
      BY <2>0, <2>1, <2>r DEF Keeps
    <2>2. CASE Ends(w)
      BY <2>2, <2>i, <2>r DEF Ends
    <2>3. CASE Begins(w)
      <3>1. HoldsMember(u) => OnePerFamily(u.member.doc.ips) /\ IsRow(u.member)
        BY <2>0, <2>3 DEF Begins
      <3>2. Writes(u) => OnePerFamily(u.doc.ips)
        BY <2>3, <3>1 DEF Begins, Writes, HoldsMember, DocFromRow, UpdatesOnePerFamily, IsRow,
                          OutsideIpam, InIpam
      <3> QED  BY <2>3, <2>r, <3>1, <3>2 DEF Begins
    <2>4. CASE Goes(w)
      BY <2>0, <2>4, <2>r DEF Goes, Keeping, Writes
    <2>5. CASE Reads(w)
      BY <2>0, <2>5, <2>r DEF Reads, Writes
    <2>6. CASE Chooses(w)
      <3> DEFINE ips == Assigned(t.network.doc, t.member.doc, Listed(t.k[1]))
      <3>1. /\ members' = members /\ HoldsMember(t) /\ u.member = t.member
            /\ u.doc = [t.member.doc EXCEPT !.ips = @ \cup ips]
        BY <2>6 DEF Chooses, HoldsMember
      <3>2. OnePerFamily(t.member.doc.ips \cup ips)
        BY <2>0, <3>1, AssignedOnePerFamily
      <3> HIDE DEF ips
      <3>3. u.doc.ips = t.member.doc.ips \cup ips
        BY <2>0, <3>1 DEF IsRow, IsMemberDoc
      <3> QED  BY <2>0, <2>r, <3>1, <3>2, <3>3
    <2>7. CASE Saves(w)
      <3> DEFINE row == [revision |-> t.member.revision + 1, doc |-> t.doc]
      <3>1. members' = DB!Put(members, t.k, row) /\ OnePerFamily(row.doc.ips)
        BY <2>0, <2>7 DEF Saves
      <3> HIDE DEF row
      <3>2. RowsOne
        BY <2>0, <3>1 DEF DB!Put, RowsOne
      <3>3. TaskOne
        BY <2>0, <2>7, <2>i DEF Saves, Writes, HoldsMember, Keeping
      <3> QED  BY <3>2, <3>3
    <2>8. CASE Creates(w)
      <3> DEFINE row == [revision |-> 1, doc |-> NewMember]
      <3>1. members' = DB!Put(members, t.k, row) /\ OnePerFamily(row.doc.ips)
        BY <2>8 DEF Creates, NewMember, OnePerFamily
      <3> HIDE DEF row
      <3>2. RowsOne
        BY <2>0, <3>1 DEF DB!Put, RowsOne
      <3>3. TaskOne
        BY <2>0, <2>8 DEF Creates, Keeping, Writes
      <3> QED  BY <3>2, <3>3
    <2>9. CASE Deletes(w)
      <3>1. RowsOne
        BY <2>0, <2>9 DEF Deletes, DB!Restrict, RowsOne
      <3> QED  BY <2>9, <2>i, <3>1 DEF Deletes
    <2> QED  BY <1>2, <2>1, <2>2, <2>3, <2>4, <2>5, <2>6, <2>7, <2>8, <2>9 DEF Outcome
  <1> QED  BY <1>1, <1>2, NextOutcome DEF MutexInvariant

(* A member never has two addresses of a family unless an administrator    *)
(* gives it two, however its configuration requests, updates and deletions *)
(* overlap: the need is decided again under the mutex, on the row that the *)
(* save is going to replace.                                               *)
THEOREM OneAddressEach ==
    ASSUME UpdatesOnePerFamily,
           \A k \in DOMAIN InitialMembers : OnePerFamily(InitialMembers[k].doc.ips)
    PROVE  Spec => []OneAddressPerFamily
  <1>1. Init => FamilyInvariant
    BY IdleTask DEF Init, FamilyInvariant
  <1>2. MutexInvariant /\ RowsInvariant /\ FamilyInvariant /\ [Next]_vars => FamilyInvariant'
    BY FamilyStep
  <1>3. FamilyInvariant => OneAddressPerFamily
    BY DEF FamilyInvariant, OnePerFamily, OneAddressPerFamily
  <1> QED  BY <1>1, <1>2, <1>3, MutexInvariantHolds, RowsInvariantHolds, PTL DEF Spec

-----------------------------------------------------------------------------
(* The networks, and the copies that requests hold of them. *)

\* Whatever is written to a network.
NetworkContents == NetworkDocs \cup {InitialNetworks[n].doc : n \in DOMAIN InitialNetworks}

IsNetwork(row) == row.revision \in Nat \ {0} /\ row.doc \in NetworkContents

\* The request has read a row of its network.
HoldsNetwork(t) == t.op \in {"config", "updateNetwork"} \/ t.pc = "bumpSave"

\* The network is bumped for a member that was saved.
BumpsAfterSave(t) ==
    t.pc \in {"bumpGet", "bumpSave"} => t.op \in {"setAuthorization", "updateMember"}

NetworksInvariant ==
    /\ \A n \in DOMAIN networks : IsNetwork(networks[n])
    /\ \A w \in Workers :
          /\ HoldsNetwork(task[w]) =>
                IsNetwork(task[w].network) /\ IsCopy(networks, task[w].k[1], task[w].network)
          /\ BumpsAfterSave(task[w])
          /\ task[w].op = "updateNetwork" => task[w].doc \in NetworkDocs

\* The request holds the network it held before, or none, or the current one.
HoldsSame(t, u) == HoldsNetwork(t) /\ u.k = t.k /\ u.network = t.network
HoldsCurrent(u) == u.k[1] \in DOMAIN networks /\ u.network = networks[u.k[1]]

NetworkKept(w) ==
    LET t == task[w]  u == task'[w] IN
    /\ HoldsNetwork(u) => HoldsSame(t, u) \/ HoldsCurrent(u)
    /\ u.op = "updateNetwork" => u.doc \in NetworkDocs

NetworkWritten(w) ==
    LET t == task[w]  u == task'[w] IN
    /\ ~ HoldsNetwork(u)
    /\ u.op # "updateNetwork"
    /\ HoldsNetwork(t)
    /\ DB!IsCurrent(networks, t.k[1], t.network.revision)
    /\ \E doc \in {t.network.doc} \cup NetworkDocs :
          networks' = DB!Put(networks, t.k[1], [revision |-> t.network.revision + 1, doc |-> doc])

NetworkAdded(w) ==
    /\ task' = task
    /\ \E n \in Networks, doc \in NetworkDocs :
          /\ n \notin DOMAIN networks
          /\ networks' = DB!Put(networks, n, [revision |-> 1, doc |-> doc])

NetworkOutcome(w) ==
    /\ BumpsAfterSave(task'[w])
    /\ (networks' = networks /\ NetworkKept(w)) \/ NetworkWritten(w) \/ NetworkAdded(w)

(* Idle holds no network. *)
LEMMA IdleHoldsNone ==
    ~ HoldsNetwork(Idle) /\ Idle.op # "updateNetwork" /\ BumpsAfterSave(Idle)
    BY IdleTask DEF HoldsNetwork, BumpsAfterSave

(* Without deletions a step writes a network only where the revision it    *)
(* read is the current one, and keeps what it has read or reads anew.      *)
LEMMA NetworkSteps ==
    ASSUME NoDeletions, MutexInvariant, RowsInvariant, NetworksInvariant, NEW w \in Workers,
           Request(w) \/ Step(w) \/ IpamLock(w) \/ Fail(w)
    PROVE  NetworkOutcome(w)
  <1> DEFINE t == task[w]
             u == task'[w]
  <1> USE DEF OnlyTask, tables
  <1>0. /\ AreTasks(task) /\ t.op \in Operations \cup {"none"}
        /\ t.op = "updateNetwork" => t.doc \in NetworkDocs
        /\ BumpsAfterSave(t)
    BY DEF MutexInvariant, RowsInvariant, NetworksInvariant
  <1>s. ASSUME NEW op, NEW pc, NEW k, NEW doc, NEW network, NEW member,
               Start(w, Serving(op, pc, k, doc, network, member))
        PROVE  u.op = op /\ u.pc = pc /\ u.k = k /\ u.doc = doc /\ u.network = network
    <2> DEFINE r == Serving(op, pc, k, doc, network, member)
    <2>1. /\ IsTask(r) /\ r.op = op /\ r.pc = pc /\ r.k = k /\ r.doc = doc /\ r.network = network
      BY ServingFields
    <2>2. task' = [task EXCEPT ![w] = r]
      BY <1>s DEF Start
    <2> HIDE DEF r
    <2> QED  BY <1>0, <2>1, <2>2, SetTask
  <1>e. ASSUME Finish(w), networks' = networks
        PROVE  NetworkOutcome(w)
    BY <1>0, <1>e, Finishes, IdleHoldsNone DEF NetworkOutcome, NetworkKept
  <1>g. ASSUME NEW pc, Goto(w, pc)
        PROVE  u.op = t.op /\ u.pc = pc /\ u.k = t.k /\ u.doc = t.doc /\ u.network = t.network
    <2>1. task' = WithPc(task, w, pc)
      BY <1>g DEF Goto, WithPc
    <2>2. u = Serving(t.op, pc, t.k, t.doc, t.network, t.member)
      BY <1>0, <2>1, SetPc
    <2> QED  BY <2>2, ServingFields
  <1>h. ASSUME NEW pc, Goto(w, pc), networks' = networks, pc # "bumpSave",
               pc = "bumpGet" => t.op \in {"setAuthorization", "updateMember"}
        PROVE  NetworkOutcome(w)
    BY <1>0, <1>g, <1>h DEF BumpsAfterSave, NetworkOutcome, NetworkKept, HoldsNetwork, HoldsSame
  <1>m. ASSUME NEW pc, task' = [task EXCEPT ![w].pc = pc, ![w].member = members[t.k]],
               networks' = networks, t.op = "config", pc \notin {"bumpGet", "bumpSave"}
        PROVE  NetworkOutcome(w)
    <2> DEFINE row == members[t.k]
    <2>0. task' = [task EXCEPT ![w].pc = pc, ![w].member = row]
      BY <1>m
    <2> HIDE DEF row
    <2>1. u = Serving(t.op, pc, t.k, t.doc, t.network, row)
      BY <1>0, <2>0, SetMemberRead
    <2>2. u.op = t.op /\ u.pc = pc /\ u.k = t.k /\ u.network = t.network
      BY <2>1, ServingFields
    <2> QED  BY <1>m, <2>2 DEF BumpsAfterSave, NetworkOutcome, NetworkKept, HoldsNetwork, HoldsSame
  <1>1. CASE Request(w)
    <2>1. ASSUME NEW n \in Networks, NEW doc \in NetworkDocs, CreateNetwork(w, n, doc)
          PROVE  NetworkOutcome(w)
      <3>1. /\ task' = task /\ n \notin DOMAIN networks
            /\ networks' = DB!Put(networks, n, [revision |-> 1, doc |-> doc])
        BY <2>1 DEF CreateNetwork, DB!CreateNetwork
      <3>2. BumpsAfterSave(u)
        BY <1>0, <3>1 DEF BumpsAfterSave
      <3>3. NetworkAdded(w)
        BY <3>1 DEF NetworkAdded
      <3> QED  BY <3>2, <3>3 DEF NetworkOutcome
    <2>2. ASSUME NEW n, NEW doc \in NetworkDocs, NEW r, UpdateNetworkGet(w, n, doc, r)
          PROVE  NetworkOutcome(w)
      <3>1. /\ u.k = <<n, Nobody>> /\ u.doc = doc /\ u.network = networks[n] /\ n \in DOMAIN networks
            /\ u.pc = "save"
        BY <1>s, <2>2 DEF UpdateNetworkGet
      <3> QED  BY <2>2, <3>1
               DEF UpdateNetworkGet, NetworkOutcome, NetworkKept, HoldsCurrent, BumpsAfterSave
    <2>3. ASSUME NEW n, DeleteNetworkGet(w, n)
          PROVE  FALSE
      BY <2>3 DEF DeleteNetworkGet, Begin, NoDeletions
    <2>4. ASSUME NEW k, RegisterMember(w, k)
          PROVE  NetworkOutcome(w)
      BY <1>s, <2>4 DEF RegisterMember, NetworkOutcome, NetworkKept, HoldsNetwork,
                              BumpsAfterSave
    <2>5. ASSUME NEW k, NEW authorized, NEW r, SetAuthorizationGet(w, k, authorized, r)
          PROVE  NetworkOutcome(w)
      BY <1>s, <2>5 DEF SetAuthorizationGet, NetworkOutcome, NetworkKept, HoldsNetwork,
                              BumpsAfterSave
    <2>6. ASSUME NEW k, NEW update \in MemberUpdates, NEW r, UpdateMemberGet(w, k, update, r)
          PROVE  NetworkOutcome(w)
      BY <1>s, <2>6 DEF UpdateMemberGet, NetworkOutcome, NetworkKept, HoldsNetwork,
                              BumpsAfterSave
    <2>7. ASSUME NEW k, DeleteMemberGet(w, k)
          PROVE  FALSE
      BY <2>7 DEF DeleteMemberGet, Begin, NoDeletions
    <2>8. ASSUME NEW k, ConfigGetNetwork(w, k)
          PROVE  NetworkOutcome(w)
      BY <1>s, <2>8 DEF ConfigGetNetwork, NetworkOutcome, NetworkKept, HoldsCurrent,
                              BumpsAfterSave
    <2> QED  BY <1>1, <2>1, <2>2, <2>3, <2>4, <2>5, <2>6, <2>7, <2>8 DEF Request
  <1>2. CASE UpdateNetworkSave(w)
    <2>1. CASE DB!IsCurrent(networks, t.k[1], t.network.revision)
      <3>1. u = Idle /\ t.op = "updateNetwork"
        BY <1>0, <1>2, Finishes DEF UpdateNetworkSave, At
      <3> QED  BY <1>0, <1>2, <2>1, <3>1, IdleHoldsNone
               DEF UpdateNetworkSave, DB!SaveNetwork, NetworkOutcome, NetworkWritten, HoldsNetwork
    <2>2. CASE networks' = networks
      BY <1>2, <1>e, <2>2 DEF UpdateNetworkSave
    <2> QED  BY <1>2, <2>1, <2>2 DEF UpdateNetworkSave
  <1>3. CASE BumpGet(w)
    <2> DEFINE row == networks[t.k[1]]
    <2>1. CASE task' = [task EXCEPT ![w].pc = "bumpSave", ![w].network = row]
               /\ t.k[1] \in DOMAIN networks
      <3>1. u = Serving(t.op, "bumpSave", t.k, t.doc, row, t.member)
        BY <1>0, <2>1, SetTwo
      <3>2. u.op = t.op /\ u.k = t.k /\ u.network = row /\ u.doc = t.doc
        BY <3>1, ServingFields
      <3> HIDE DEF row
      <3> QED  BY <1>0, <1>3, <2>1, <3>2 DEF BumpsAfterSave, row, BumpGet, NetworkOutcome, NetworkKept, HoldsCurrent
    <2>2. CASE Finish(w)
      BY <1>3, <1>e, <2>2 DEF BumpGet
    <2> QED  BY <1>3, <2>1, <2>2 DEF BumpGet
  <1>4. CASE BumpSave(w)
    <2>1. CASE DB!IsCurrent(networks, t.k[1], t.network.revision)
      <3>1. u.pc = "bumped" /\ u.op = t.op
        BY <1>4, <1>g, <2>1 DEF BumpSave
      <3>2. t.op \notin {"config", "updateNetwork"}
        BY <1>0, <1>4 DEF BumpSave, BumpsAfterSave
      <3> QED  BY <1>4, <2>1, <3>1, <3>2
               DEF BumpsAfterSave, BumpSave, DB!SaveNetwork, NetworkOutcome, NetworkWritten, HoldsNetwork
    <2>2. CASE networks' = networks /\ Finish(w)
      BY <1>e, <2>2
    <2> QED  BY <1>4, <2>1, <2>2 DEF BumpSave
  <1>5. CASE RegisterGet(w)
    BY <1>5, <1>m, <1>h DEF RegisterGet, At
  <1>6. CASE RegisterCreate(w)
    BY <1>6, <1>e, <1>h DEF RegisterCreate, DB!CreateMember
  <1>7. CASE RegisterReget(w)
    BY <1>7, <1>e, <1>m DEF RegisterReget
  <1>8. CASE SetAuthorizationSave(w)
    <2>1. networks' = networks /\ t.op = "setAuthorization"
      BY <1>8 DEF SetAuthorizationSave, DB!SaveMember, At
    <2>2. Finish(w) \/ \E pc \in {"bumpGet", "bumped"} : Goto(w, pc)
      BY <1>8 DEF SetAuthorizationSave
    <2> QED  BY <1>e, <1>h, <2>1, <2>2
  <1>9. CASE SetAuthorizationReget(w) \/ UpdateMemberReget(w) \/ ConfigIssue(w) \/ Fail(w)
    BY <1>9, <1>e DEF SetAuthorizationReget, UpdateMemberReget, ConfigIssue, Fail
  <1>10. CASE UpdateMemberSave(w)
    BY <1>10, <1>e, <1>h DEF UpdateMemberSave, DB!SaveMember, At
  <1>11. CASE DeleteNetworkDelete(w) \/ DeleteMemberDelete(w)
    BY <1>0, <1>11 DEF DeleteNetworkDelete, DeleteMemberDelete, At, NoDeletions
  <1>12. CASE ConfigUpsert(w)
    <2>1. networks' = networks
      BY <1>12 DEF ConfigUpsert, DB!UpsertAgentMetadata
    <2>2. Finish(w) \/ \E pc \in {"ipamLock", "list"} : Goto(w, pc)
      BY <1>12 DEF ConfigUpsert
    <2> QED  BY <1>e, <1>h, <2>1, <2>2
  <1>13. CASE IpamLock(w)
    BY <1>13, <1>h DEF IpamLock
  <1>14. CASE IpamGet(w)
    BY <1>14, <1>e, <1>m DEF IpamGet, At
  <1>15. CASE IpamList(w)
    <2> DEFINE doc == [t.member.doc EXCEPT !.ips =
                          @ \cup Assigned(t.network.doc, t.member.doc, Listed(t.k[1]))]
    <2>1. networks' = networks /\ t.op = "config"
      BY <1>15 DEF IpamList, At
    <2>2. CASE Finish(w) \/ Goto(w, "list")
      BY <1>e, <1>h, <2>1, <2>2
    <2>3. CASE task' = [task EXCEPT ![w].pc = "ipamSave", ![w].doc = doc]
      <3> HIDE DEF doc
      <3>1. u = Serving(t.op, "ipamSave", t.k, doc, t.network, t.member)
        BY <1>0, <2>3, SetTwo
      <3>2. u.op = t.op /\ u.pc = "ipamSave" /\ u.k = t.k /\ u.network = t.network
        BY <3>1, ServingFields
      <3> QED  BY <2>1, <3>2 DEF BumpsAfterSave, NetworkOutcome, NetworkKept, HoldsNetwork, HoldsSame
    <2> QED  BY <1>15, <2>2, <2>3 DEF IpamList
  <1>16. CASE IpamSave(w)
    BY <1>16, <1>e, <1>h DEF IpamSave, DB!SaveMember
  <1>17. CASE IpamReget(w)
    BY <1>17, <1>e, <1>m DEF IpamReget, At
  <1> QED  BY <1>1, <1>2, <1>3, <1>4, <1>5, <1>6, <1>7, <1>8, <1>9, <1>10, <1>11, <1>12, <1>13,
              <1>14, <1>15, <1>16, <1>17 DEF Step

NetworksAdvance ==
    \A n \in DOMAIN networks :
        /\ n \in DOMAIN networks'
        /\ networks'[n] = networks[n] \/ networks'[n].revision = networks[n].revision + 1

(* The rows of the networks advance one by one, and their contents are     *)
(* what administrators wrote.                                              *)
LEMMA NetworksOnlyAdvance ==
    ASSUME NetworksInvariant, NEW w \in Workers, NetworkOutcome(w)
    PROVE  NetworksAdvance /\ \A n \in DOMAIN networks' : IsNetwork(networks'[n])
  <1> DEFINE t == task[w]
  <1>0. /\ \A n \in DOMAIN networks : IsNetwork(networks[n])
        /\ HoldsNetwork(t) => IsNetwork(t.network)
    BY DEF NetworksInvariant
  <1>1. CASE networks' = networks
    BY <1>0, <1>1 DEF NetworksAdvance
  <1>2. ASSUME NEW n, NEW row, IsNetwork(row), networks' = DB!Put(networks, n, row),
               n \in DOMAIN networks => row.revision = networks[n].revision + 1
        PROVE  NetworksAdvance /\ \A x \in DOMAIN networks' : IsNetwork(networks'[x])
    <2>1. /\ DOMAIN networks' = DOMAIN networks \cup {n} /\ networks'[n] = row
          /\ \A x \in DOMAIN networks : x # n => networks'[x] = networks[x]
      BY <1>2 DEF DB!Put
    <2> QED  BY <1>0, <1>2, <2>1 DEF NetworksAdvance
  <1>3. CASE NetworkWritten(w)
    <2>1. PICK doc \in {t.network.doc} \cup NetworkDocs :
             networks' = DB!Put(networks, t.k[1], [revision |-> t.network.revision + 1, doc |-> doc])
      BY <1>3 DEF NetworkWritten
    <2> DEFINE row == [revision |-> t.network.revision + 1, doc |-> doc]
    <2>2. /\ t.network.revision \in Nat \ {0} /\ doc \in NetworkContents
          /\ networks[t.k[1]].revision = t.network.revision
      BY <1>0, <1>3 DEF NetworkWritten, IsNetwork, NetworkContents, DB!IsCurrent
    <2>3. IsNetwork(row) /\ row.revision = networks[t.k[1]].revision + 1
      BY <2>2 DEF IsNetwork
    <2>4. networks' = DB!Put(networks, t.k[1], row)
      BY <2>1
    <2> HIDE DEF row
    <2> QED  BY <1>2, <2>3, <2>4
  <1>4. CASE NetworkAdded(w)
    <2>1. PICK n \in Networks, doc \in NetworkDocs :
             /\ n \notin DOMAIN networks
             /\ networks' = DB!Put(networks, n, [revision |-> 1, doc |-> doc])
      BY <1>4 DEF NetworkAdded
    <2> DEFINE row == [revision |-> 1, doc |-> doc]
    <2>2. IsNetwork(row)
      BY DEF IsNetwork, NetworkContents
    <2>3. networks' = DB!Put(networks, n, row)
      BY <2>1
    <2> HIDE DEF row
    <2> QED  BY <1>2, <2>1, <2>2, <2>3
  <1> QED  BY <1>1, <1>3, <1>4 DEF NetworkOutcome

(* A copy of a row stays one while rows only advance. *)
LEMMA CopyStays ==
    ASSUME NEW old, NEW new, NEW k, NEW row, IsCopy(old, k, row),
           row.revision \in Nat, old[k].revision \in Nat,
           k \in DOMAIN new, new[k] = old[k] \/ new[k].revision = old[k].revision + 1
    PROVE  IsCopy(new, k, row) /\ new[k].revision >= old[k].revision
    BY DEF IsCopy

(* Copies of networks stay copies. *)
LEMMA NetworksStep ==
    ASSUME NoDeletions, MutexInvariant, RowsInvariant, NetworksInvariant, [Next]_vars
    PROVE  NetworksInvariant'
  <1>1. CASE UNCHANGED vars
    BY <1>1 DEF vars, NetworksInvariant, IsCopy
  <1>2. CASE Next
    <2>1. PICK w \in Workers : Request(w) \/ Step(w) \/ IpamLock(w) \/ Fail(w)
      BY <1>2 DEF Next
    <2> DEFINE t == task[w]
               u == task'[w]
    <2>2. NetworkOutcome(w) /\ SameFor(task, task', w)
      BY <2>1, NetworkSteps, RequestOutcome, StepOutcome DEF MutexInvariant
    <2>3. NetworksAdvance /\ \A n \in DOMAIN networks' : IsNetwork(networks'[n])
      BY <2>2, NetworksOnlyAdvance
    <2>4. ASSUME NEW n, NEW row, IsNetwork(row), IsCopy(networks, n, row)
          PROVE  IsCopy(networks', n, row)
      <3>1. /\ n \in DOMAIN networks' /\ row.revision \in Nat /\ networks[n].revision \in Nat
            /\ networks'[n] = networks[n] \/ networks'[n].revision = networks[n].revision + 1
        BY <2>3, <2>4 DEF NetworksAdvance, IsCopy, IsNetwork, NetworksInvariant
      <3> QED  BY <2>4, <3>1, CopyStays
    <2>5. ASSUME NEW v \in Workers, HoldsNetwork(task[v])
          PROVE  IsNetwork(task[v].network) /\ IsCopy(networks, task[v].k[1], task[v].network)
      BY <2>5 DEF NetworksInvariant
    <2>6. ASSUME NEW v \in Workers, v # w
          PROVE  /\ HoldsNetwork(task'[v]) => /\ IsNetwork(task'[v].network)
                                              /\ IsCopy(networks', task'[v].k[1], task'[v].network)
                 /\ BumpsAfterSave(task'[v])
                 /\ task'[v].op = "updateNetwork" => task'[v].doc \in NetworkDocs
      <3>1. task'[v] = task[v]
        BY <2>2, <2>6 DEF SameFor
      <3> QED  BY <2>4, <2>5, <3>1 DEF NetworksInvariant
    <2>7. HoldsNetwork(u) => IsNetwork(u.network) /\ IsCopy(networks', u.k[1], u.network)
      <3>1. SUFFICES ASSUME HoldsNetwork(u)
                     PROVE  IsNetwork(u.network) /\ IsCopy(networks', u.k[1], u.network)
        OBVIOUS
      <3>2. CASE HoldsNetwork(t) /\ u.k = t.k /\ u.network = t.network
        BY <2>4, <2>5, <3>2
      <3>3. CASE HoldsCurrent(u) /\ networks' = networks
        <4>1. IsNetwork(networks[u.k[1]])
          BY <3>3 DEF NetworksInvariant, HoldsCurrent
        <4> QED  BY <3>3, <4>1 DEF HoldsCurrent, IsCopy, IsNetwork
      <3> QED  BY <2>2, <3>1, <3>2, <3>3
               DEF NetworkOutcome, NetworkKept, NetworkWritten, NetworkAdded, HoldsSame
    <2>8. u.op = "updateNetwork" => u.doc \in NetworkDocs
      BY <2>2 DEF NetworkOutcome, NetworkKept, NetworkWritten, NetworkAdded, NetworksInvariant
    <2>9. BumpsAfterSave(u)
      BY <2>2 DEF NetworkOutcome
    <2> QED  BY <2>3, <2>6, <2>7, <2>8, <2>9 DEF NetworksInvariant
  <1> QED  BY <1>1, <1>2

(* Without deletions the copies of networks are copies in every reachable  *)
(* state.                                                                  *)
LEMMA NetworksInvariantHolds ==
    ASSUME NoDeletions
    PROVE  Spec => []NetworksInvariant
  <1>1. Init => NetworksInvariant
    <2>1. SUFFICES ASSUME Init PROVE NetworksInvariant
      OBVIOUS
    <2>2. \A n \in DOMAIN networks : IsNetwork(networks[n])
      BY <2>1, DocumentsAssumption DEF Init, IsNetwork, NetworkContents
    <2>3. \A w \in Workers : task[w] = Idle
      BY <2>1 DEF Init
    <2> QED  BY <2>2, <2>3, IdleHoldsNone DEF NetworksInvariant
  <1>2. MutexInvariant /\ RowsInvariant /\ NetworksInvariant /\ [Next]_vars => NetworksInvariant'
    BY NetworksStep
  <1> QED  BY <1>1, <1>2, MutexInvariantHolds, RowsInvariantHolds, PTL DEF Spec

-----------------------------------------------------------------------------
(* The specialists of a network, and the bumps that announce them. *)

Specialist(doc) == doc.authorized /\ doc.roles # {}

ListOf(table, n) == {<<k[2], table[k]>> : k \in {x \in DOMAIN table : x[1] = n}}

(* A specialist is an authorized member with a role. *)
LEMMA SpecialistsOf ==
    ASSUME NEW table, NEW n, NEW e
    PROVE  e \in Specialists(ListOf(table, n)) <=>
              \E k \in DOMAIN table : /\ k[1] = n /\ Specialist(table[k].doc)
                                      /\ e = <<k[2], table[k].doc.roles>>
  <1> DEFINE chosen == {y \in ListOf(table, n) : y[2].doc.authorized /\ y[2].doc.roles # {}}
  <1>1. \A y : y \in chosen <=> \E k \in DOMAIN table : /\ k[1] = n /\ Specialist(table[k].doc)
                                                        /\ y = <<k[2], table[k]>>
    BY DEF ListOf, Specialist
  <1>2. Specialists(ListOf(table, n)) = {<<x[1], x[2].doc.roles>> : x \in chosen}
    BY DEF Specialists
  <1> HIDE DEF chosen
  <1>3. e \in Specialists(ListOf(table, n)) <=>
           \E x \in chosen : e = <<x[1], x[2].doc.roles>>
    BY <1>2
  <1>4. ASSUME NEW k \in DOMAIN table, k[1] = n, Specialist(table[k].doc)
        PROVE  \E x \in chosen : x[1] = k[2] /\ x[2] = table[k]
    <2>1. <<k[2], table[k]>> \in chosen
      BY <1>1, <1>4
    <2> QED  BY <2>1
  <1>5. ASSUME NEW x \in chosen
        PROVE  \E k \in DOMAIN table : /\ k[1] = n /\ Specialist(table[k].doc)
                                       /\ x[1] = k[2] /\ x[2] = table[k]
    BY <1>1, <1>5
  <1> QED  BY <1>3, <1>4, <1>5

\* The two documents make the same specialist, or none.
SameSpecialist(old, new) ==
    /\ Specialist(old) <=> Specialist(new)
    /\ Specialist(new) => old.roles = new.roles

SpecialistsKept(n) ==
    /\ DOMAIN members \subseteq DOMAIN members'
    /\ \A k \in DOMAIN members' : k[1] = n =>
          \/ k \in DOMAIN members /\ SameSpecialist(members[k].doc, members'[k].doc)
          \/ k \notin DOMAIN members /\ ~ Specialist(members'[k].doc)

(* As long as the documents make the same ones the set is the same. *)
LEMMA SpecialistsSame ==
    ASSUME NEW n, SpecialistsKept(n)
    PROVE  Specialists(DB!MembersOf(n))' = Specialists(DB!MembersOf(n))
  <1>1. DB!MembersOf(n) = ListOf(members, n) /\ DB!MembersOf(n)' = ListOf(members', n)
    BY DEF DB!MembersOf, ListOf
  <1> DEFINE old == Specialists(ListOf(members, n))
             new == Specialists(ListOf(members', n))
  <1>2. Specialists(DB!MembersOf(n)) = old /\ Specialists(DB!MembersOf(n))' = new
    BY <1>1 DEF Specialists
  <1>3. ASSUME NEW e PROVE e \in old <=> e \in new
    <2>1. e \in old <=> \E k \in DOMAIN members :
             k[1] = n /\ Specialist(members[k].doc) /\ e = <<k[2], members[k].doc.roles>>
      BY SpecialistsOf
    <2>2. e \in new <=> \E k \in DOMAIN members' :
             k[1] = n /\ Specialist(members'[k].doc) /\ e = <<k[2], members'[k].doc.roles>>
      BY SpecialistsOf
    <2> QED  BY <2>1, <2>2 DEF SpecialistsKept, SameSpecialist
  <1>4. \A x : (x \in old) <=> (x \in new)
    BY <1>3
  <1>5. \A x \in old : x \in new
    BY <1>4
  <1>6. \A x \in new : x \in old
    BY <1>4
  <1> HIDE DEF old, new
  <1> QED  BY <1>2, <1>5, <1>6

\* The network has a newer revision, or a request is about to give it one.
WillBump(t, n, revision) ==
    /\ t.k[1] = n
    /\ t.pc = "bumpGet" \/ (t.pc = "bumpSave" /\ t.network.revision >= revision)

Outdated(n, revision) ==
    \/ networks[n].revision > revision
    \/ \E w \in Workers : WillBump(task[w], n, revision)

(* Where no call fails, a request that has to bump a network does it. *)
LEMMA BumpsOnly ==
    ASSUME ~ CallsMayFail, NEW w \in Workers, task[w].pc \in {"bumpGet", "bumpSave"},
           Request(w) \/ Step(w) \/ IpamLock(w) \/ Fail(w)
    PROVE  BumpGet(w) \/ BumpSave(w)
  <1>1. task[w] # Idle
    BY IdleTask
  <1>2. ~ Request(w)
    BY <1>1 DEF Request, CreateNetwork, UpdateNetworkGet, DeleteNetworkGet, RegisterMember,
                SetAuthorizationGet, UpdateMemberGet, DeleteMemberGet, ConfigGetNetwork, Begin
  <1>3. ~ IpamLock(w) /\ ~ Fail(w)
    BY DEF IpamLock, Fail, At
  <1>4. ~ UpdateNetworkSave(w) /\ ~ DeleteNetworkDelete(w) /\ ~ RegisterGet(w)
        /\ ~ RegisterCreate(w) /\ ~ RegisterReget(w)
    BY DEF UpdateNetworkSave, DeleteNetworkDelete, RegisterGet, RegisterCreate, RegisterReget, At
  <1>5. ~ SetAuthorizationSave(w) /\ ~ SetAuthorizationReget(w) /\ ~ UpdateMemberSave(w)
        /\ ~ UpdateMemberReget(w) /\ ~ DeleteMemberDelete(w)
    BY DEF SetAuthorizationSave, SetAuthorizationReget, UpdateMemberSave, UpdateMemberReget,
           DeleteMemberDelete, At
  <1>6. ~ ConfigUpsert(w) /\ ~ IpamGet(w) /\ ~ IpamList(w) /\ ~ IpamSave(w) /\ ~ IpamReget(w)
        /\ ~ ConfigIssue(w)
    BY DEF ConfigUpsert, IpamGet, IpamList, IpamSave, IpamReget, ConfigIssue, At
  <1> QED  BY <1>2, <1>3, <1>4, <1>5, <1>6 DEF Step

(* A revision that is outdated, or about to be, stays so: the save of a    *)
(* bump fails only if another request has advanced the revision.           *)
LEMMA OutdatedStays ==
    ASSUME ~ CallsMayFail, NoDeletions, MutexInvariant, RowsInvariant, NetworksInvariant,
           NEW w \in Workers, Request(w) \/ Step(w) \/ IpamLock(w) \/ Fail(w),
           NEW n \in DOMAIN networks, NEW revision \in Nat, networks[n].revision >= revision,
           Outdated(n, revision)
    PROVE  Outdated(n, revision)'
  <1> DEFINE t == task[w]
             u == task'[w]
  <1>1. NetworkOutcome(w) /\ SameFor(task, task', w) /\ AreTasks(task)
    BY NetworkSteps, RequestOutcome, StepOutcome DEF MutexInvariant
  <1>2. /\ networks[n].revision \in Nat
        /\ networks'[n] = networks[n] \/ networks'[n].revision = networks[n].revision + 1
    BY <1>1, NetworksOnlyAdvance DEF NetworksAdvance, NetworksInvariant, IsNetwork
  <1>3. CASE networks[n].revision > revision
    BY <1>2, <1>3 DEF Outdated
  <1>4. ASSUME NEW v \in Workers, WillBump(task[v], n, revision), v # w
        PROVE  Outdated(n, revision)'
    <2>1. task'[v] = task[v]
      BY <1>1, <1>4 DEF SameFor
    <2> QED  BY <1>4, <2>1 DEF Outdated, WillBump
  <1>5. ASSUME WillBump(t, n, revision)
        PROVE  Outdated(n, revision)'
    <2>1. t.k[1] = n /\ (BumpGet(w) \/ BumpSave(w))
      BY <1>5, BumpsOnly DEF WillBump
    <2>2. CASE BumpGet(w)
      <3> DEFINE row == networks[t.k[1]]
      <3>1. task' = [task EXCEPT ![w].pc = "bumpSave", ![w].network = row]
        BY <2>1, <2>2 DEF BumpGet
      <3>2. u = Serving(t.op, "bumpSave", t.k, t.doc, row, t.member)
        BY <1>1, <3>1, SetTwo
      <3>3. u.k[1] = n /\ u.pc = "bumpSave" /\ u.network = networks[n]
        BY <2>1, <3>2, ServingFields
      <3> QED  BY <3>3 DEF Outdated, WillBump
    <2>3. CASE BumpSave(w)
      <3>1. /\ t.network.revision >= revision /\ t.network.revision \in Nat
            /\ IsCopy(networks, n, t.network)
        BY <1>5, <2>1, <2>3 DEF WillBump, BumpSave, NetworksInvariant, HoldsNetwork, IsNetwork
      <3>2. CASE DB!IsCurrent(networks, n, t.network.revision)
        <4>1. networks' = DB!Put(networks, n,
                             [revision |-> t.network.revision + 1, doc |-> t.network.doc])
          BY <2>1, <2>3, <3>2 DEF BumpSave, DB!SaveNetwork
        <4>2. networks'[n].revision = t.network.revision + 1
          BY <4>1 DEF DB!Put
        <4> QED  BY <3>1, <4>2 DEF Outdated
      <3>3. CASE ~ DB!IsCurrent(networks, n, t.network.revision)
        <4>1. networks' = networks
          BY <2>1, <2>3, <3>3 DEF BumpSave, tables
        <4>2. networks[n].revision > t.network.revision
          BY <1>2, <3>1, <3>3 DEF DB!IsCurrent, IsCopy
        <4> QED  BY <1>2, <3>1, <4>1, <4>2 DEF Outdated
      <3> QED  BY <3>2, <3>3
    <2> QED  BY <2>1, <2>2, <2>3
  <1> QED  BY <1>3, <1>4, <1>5 DEF Outdated

(* A step that changes the specialists of a network has its request bump   *)
(* the network next: nothing else writes a role or an authorization.       *)
LEMMA SpecialistsStep ==
    ASSUME NoDeletions, MutexInvariant, RowsInvariant, CopiesInvariant,
           NEW w \in Workers, Outcome(w), NEW n
    PROVE  SpecialistsKept(n) \/ (task'[w].pc = "bumpGet" /\ task'[w].k[1] = n)
  <1> DEFINE t == task[w]
             u == task'[w]
  <1>0. /\ t.op \in Operations \cup {"none"} /\ DocFromRow(t)
        /\ HoldsMember(t) => IsRow(t.member) /\ IsCopy(members, t.k, t.member)
    BY DEF RowsInvariant, CopiesInvariant
  <1>1. CASE members' = members
    BY <1>1 DEF SpecialistsKept, SameSpecialist
  <1>2. CASE Creates(w)
    <2> DEFINE row == [revision |-> 1, doc |-> NewMember]
    <2>1. t.k \notin DOMAIN members /\ members' = DB!Put(members, t.k, row)
      BY <1>2 DEF Creates
    <2>2. ~ Specialist(row.doc)
      BY DEF Specialist, NewMember
    <2> HIDE DEF row
    <2>3. /\ DOMAIN members' = DOMAIN members \cup {t.k} /\ members'[t.k] = row
          /\ \A k \in DOMAIN members : k # t.k => members'[k] = members[k]
      BY <2>1 DEF DB!Put
    <2> QED  BY <2>1, <2>2, <2>3 DEF SpecialistsKept, SameSpecialist
  <1>3. CASE Saves(w)
    <2> DEFINE row == [revision |-> t.member.revision + 1, doc |-> t.doc]
    <2>1. /\ Writes(t) /\ HoldsMember(t) /\ t.k \in DOMAIN members
          /\ members[t.k].revision = t.member.revision
          /\ members' = DB!Put(members, t.k, row) /\ row.doc = t.doc
      BY <1>3 DEF Saves, Writes, HoldsMember, DB!IsCurrent
    <2>2. t.member = members[t.k] /\ IsMemberDoc(t.member.doc)
      BY <1>0, <2>1 DEF IsCopy, IsRow
    <2> HIDE DEF row
    <2>3. /\ DOMAIN members' = DOMAIN members \cup {t.k} /\ members'[t.k].doc = t.doc
          /\ \A k \in DOMAIN members : k # t.k => members'[k] = members[k]
      BY <2>1 DEF DB!Put
    <2>4. CASE SameSpecialist(t.member.doc, t.doc) \/ t.k[1] # n
      BY <2>1, <2>2, <2>3, <2>4 DEF SpecialistsKept, SameSpecialist
    <2>5. CASE ~ SameSpecialist(t.member.doc, t.doc) /\ t.k[1] = n
      <3>1. CASE t.op = "config"
        <4>1. t.doc.authorized = t.member.doc.authorized /\ t.doc.roles = t.member.doc.roles
          BY <1>0, <2>1, <2>2, <3>1 DEF DocFromRow, Writes
        <4> QED  BY <2>5, <4>1 DEF SameSpecialist, Specialist
      <3>2. CASE t.op = "setAuthorization"
        <4>1. t.doc.roles = t.member.doc.roles
          BY <1>0, <2>1, <2>2, <3>2 DEF DocFromRow, Writes
        <4>2. t.doc.roles # {}
          BY <2>5, <4>1 DEF SameSpecialist, Specialist
        <4> QED  BY <1>3, <2>5, <3>2, <4>2 DEF Saves, Keeping
      <3>3. CASE t.op = "updateMember"
        <4>1. t.doc.authorized = t.member.doc.authorized
          BY <1>0, <2>1, <2>2, <3>3 DEF DocFromRow, Writes
        <4>2. SpecialistsChanged(t.member, t.doc)
          BY <2>5, <4>1 DEF SameSpecialist, Specialist, SpecialistsChanged
        <4> QED  BY <1>3, <2>5, <3>3, <4>2 DEF Saves, Keeping
      <3> QED  BY <2>1, <3>1, <3>2, <3>3 DEF Writes
    <2> QED  BY <2>4, <2>5
  <1>4. ~ Deletes(w)
    BY <1>0 DEF NoDeletions, Deletes
  <1> QED  BY <1>1, <1>2, <1>3, <1>4
           DEF Outcome, Keeps, Ends, Begins, Goes, Reads, Chooses

-----------------------------------------------------------------------------
(* The configurations that agents hold. *)

\* What BuildSignedChunks and the agent's reader make of two rows and a list.
Issued(network, member, list) ==
    Config(BuildSignedChunks(ConfigRevision(network.revision, member.revision),
                             Serialized(Entries(network, member, list))))

\* The list of members was the present one, or the network has moved on or is about to.
ListCurrent(n, network, list) ==
    \/ CallsMayFail
    \/ Specialists(list) = Specialists(DB!MembersOf(n))
    \/ Outdated(n, network.revision)

\* A configuration was made from copies of the rows.
FromRows(k, network, member, list) ==
    /\ IsNetwork(network) /\ IsCopy(networks, k[1], network)
    /\ IsRow(member) /\ IsCopy(members, k, member)
    /\ ConfigRevisionFits(network.revision, member.revision)
    /\ configs[k] = Issued(network, member, list)
    /\ ListCurrent(k[1], network, list)

ConfigsInvariant ==
    /\ DOMAIN configs = Keys
    /\ \A k \in Keys : configs[k] = NoConfig
                          \/ \E network, member, list : FromRows(k, network, member, list)

(* Only the last step of a configuration request changes what an agent     *)
(* has: it sends the agent a configuration made from the two rows that the *)
(* request holds and the present members.                                  *)
LEMMA ConfigsOutcome ==
    ASSUME NEW w \in Workers, Request(w) \/ Step(w) \/ IpamLock(w) \/ Fail(w)
    PROVE  LET t == task[w]  list == DB!MembersOf(t.k[1]) IN
           \/ configs' = configs
           \/ /\ t.op = "config" /\ t.pc = "list"
              /\ ConfigRevisionFits(t.network.revision, t.member.revision)
              /\ configs' = [configs EXCEPT ![t.k] = Issued(t.network, t.member, list)]
              /\ networks' = networks /\ members' = members /\ task'= [task EXCEPT ![w] = Idle]
  <1> USE DEF OnlyTask, tables
  <1>1. CASE Request(w)
    BY <1>1 DEF Request, CreateNetwork, UpdateNetworkGet, DeleteNetworkGet, RegisterMember,
                SetAuthorizationGet, UpdateMemberGet, DeleteMemberGet, ConfigGetNetwork
  <1>2. CASE IpamLock(w) \/ Fail(w)
    BY <1>2 DEF IpamLock, Fail
  <1>3. CASE ConfigIssue(w)
    BY <1>3 DEF ConfigIssue, At, Listed, CanIssue, Dictionary, Issued, Finish
  <1>4. CASE UpdateNetworkSave(w) \/ DeleteNetworkDelete(w) \/ BumpGet(w) \/ BumpSave(w)
             \/ RegisterGet(w) \/ RegisterCreate(w) \/ RegisterReget(w)
    BY <1>4 DEF UpdateNetworkSave, DeleteNetworkDelete, BumpGet, BumpSave, RegisterGet,
                RegisterCreate, RegisterReget
  <1>5. CASE SetAuthorizationSave(w) \/ SetAuthorizationReget(w) \/ UpdateMemberSave(w)
             \/ UpdateMemberReget(w) \/ DeleteMemberDelete(w)
    BY <1>5 DEF SetAuthorizationSave, SetAuthorizationReget, UpdateMemberSave,
                UpdateMemberReget, DeleteMemberDelete
  <1>6. CASE ConfigUpsert(w) \/ IpamGet(w) \/ IpamList(w) \/ IpamSave(w) \/ IpamReget(w)
    BY <1>6 DEF ConfigUpsert, IpamGet, IpamList, IpamSave, IpamReget
  <1> QED  BY <1>1, <1>2, <1>3, <1>4, <1>5, <1>6 DEF Step

(* A configuration stays one that was made from copies of the rows, and    *)
(* from the present specialists unless the network revision advances.      *)
LEMMA ConfigsStep ==
    ASSUME NoDeletions, MutexInvariant, RowsInvariant, RowsInvariant', CopiesInvariant,
           NetworksInvariant, ConfigsInvariant, [Next]_vars
    PROVE  ConfigsInvariant'
  <1>1. CASE UNCHANGED vars
    <2>1. ASSUME NEW k, NEW network, NEW member, NEW list, FromRows(k, network, member, list)
          PROVE  FromRows(k, network, member, list)'
      BY <1>1, <2>1 DEF vars, FromRows, IsCopy, ListCurrent, Outdated, WillBump, DB!MembersOf
    <2> QED  BY <1>1, <2>1 DEF vars, ConfigsInvariant
  <1>2. CASE Next
    <2>1. PICK w \in Workers : Request(w) \/ Step(w) \/ IpamLock(w) \/ Fail(w)
      BY <1>2 DEF Next
    <2> DEFINE t == task[w]
               u == task'[w]
    <2>2. NetworkOutcome(w) /\ Outcome(w)
      BY <2>1, NetworkSteps, RequestOutcome, StepOutcome DEF MutexInvariant, Outcome
    <2>3. NetworksAdvance /\ RowsAdvance
      BY <2>2, NetworksOnlyAdvance, RowsOnlyAdvance
    <2>4. ASSUME NEW k, NEW network, NEW member, NEW list, FromRows(k, network, member, list)
          PROVE  /\ IsCopy(networks', k[1], network) /\ IsCopy(members', k, member)
                 /\ ListCurrent(k[1], network, list)'
      <3> DEFINE n == k[1]
      <3>1. /\ n \in DOMAIN networks /\ n \in DOMAIN networks'
            /\ network.revision \in Nat /\ networks[n].revision \in Nat
            /\ networks'[n] = networks[n] \/ networks'[n].revision = networks[n].revision + 1
            /\ IsCopy(networks, n, network)
        BY <2>3, <2>4 DEF FromRows, NetworksAdvance, IsCopy, IsNetwork, NetworksInvariant
      <3>2. IsCopy(networks', n, network)
        BY <3>1, CopyStays
      <3>3. /\ k \in DOMAIN members' /\ member.revision \in Nat /\ members[k].revision \in Nat
            /\ members'[k] = members[k] \/ members'[k].revision = members[k].revision + 1
            /\ IsCopy(members, k, member)
        BY <2>3, <2>4 DEF FromRows, RowsAdvance, IsCopy, IsRow, RowsInvariant
      <3>4. IsCopy(members', k, member)
        BY <3>3, CopyStays
      <3>5. CASE CallsMayFail
        BY <3>2, <3>4, <3>5 DEF ListCurrent
      <3>6. CASE ~ CallsMayFail /\ Outdated(n, network.revision)
        <4>1. networks[n].revision >= network.revision
          BY <3>1 DEF IsCopy
        <4>2. Outdated(n, network.revision)'
          BY <2>1, <3>1, <3>6, <4>1, OutdatedStays
        <4> QED  BY <3>2, <3>4, <4>2 DEF ListCurrent
      <3>7. CASE Specialists(list) = Specialists(DB!MembersOf(n)) /\ SpecialistsKept(n)
        <4>1. Specialists(DB!MembersOf(n))' = Specialists(DB!MembersOf(n))
          BY <3>7, SpecialistsSame
        <4>2. Specialists(list)' = Specialists(list)
          BY DEF Specialists
        <4> QED  BY <3>2, <3>4, <3>7, <4>1, <4>2 DEF ListCurrent
      <3>8. CASE u.pc = "bumpGet" /\ u.k[1] = n
        <4>1. Outdated(n, network.revision)'
          BY <3>8 DEF Outdated, WillBump
        <4> QED  BY <3>2, <3>4, <4>1 DEF ListCurrent
      <3>9. SpecialistsKept(n) \/ (u.pc = "bumpGet" /\ u.k[1] = n)
        BY <2>2, SpecialistsStep
      <3> QED  BY <2>4, <3>5, <3>6, <3>7, <3>8, <3>9 DEF FromRows, ListCurrent
    <2>5. ASSUME NEW k \in Keys, configs'[k] = configs[k]
          PROVE  configs'[k] = NoConfig \/ \E network, member, list : FromRows(k, network, member, list)'
      <3>1. CASE configs[k] = NoConfig
        BY <2>5, <3>1
      <3>2. ASSUME NEW network, NEW member, NEW list, FromRows(k, network, member, list)
            PROVE  FromRows(k, network, member, list)'
        BY <2>4, <2>5, <3>2 DEF FromRows
      <3> QED  BY <3>1, <3>2 DEF ConfigsInvariant
    <2>6. CASE configs' = configs
      BY <2>5, <2>6 DEF ConfigsInvariant
    <2>7. CASE /\ t.op = "config" /\ t.pc = "list"
               /\ ConfigRevisionFits(t.network.revision, t.member.revision)
               /\ configs' = [configs EXCEPT ![t.k] = Issued(t.network, t.member, DB!MembersOf(t.k[1]))]
               /\ networks' = networks /\ members' = members
      <3>1. /\ IsNetwork(t.network) /\ IsCopy(networks, t.k[1], t.network)
            /\ IsRow(t.member) /\ IsCopy(members, t.k, t.member)
        BY <2>7 DEF NetworksInvariant, HoldsNetwork, RowsInvariant, CopiesInvariant, HoldsMember
      <3>2. ASSUME NEW k \in Keys, k = t.k
            PROVE  \E network, member, list : FromRows(k, network, member, list)'
        <4>1. PICK network, member, list : /\ network = t.network /\ member = t.member
                                           /\ list = DB!MembersOf(t.k[1])
          OBVIOUS
        <4>2. configs'[k] = Issued(network, member, list)
          BY <2>7, <3>2, <4>1 DEF ConfigsInvariant
        <4>3. Specialists(list) = Specialists(DB!MembersOf(k[1]))'
          BY <2>7, <3>2, <4>1 DEF DB!MembersOf, Specialists
        <4>4. FromRows(k, network, member, list)'
          BY <2>7, <3>1, <3>2, <4>1, <4>2, <4>3 DEF FromRows, IsCopy, ListCurrent
        <4> QED  BY <4>4
      <3>3. ASSUME NEW k \in Keys, k # t.k
            PROVE  configs'[k] = configs[k]
        BY <2>7, <3>3 DEF ConfigsInvariant
      <3>4. DOMAIN configs' = Keys
        BY <2>7 DEF ConfigsInvariant
      <3> QED  BY <2>5, <3>2, <3>3, <3>4 DEF ConfigsInvariant
    <2> QED  BY <2>1, <2>6, <2>7, ConfigsOutcome
  <1> QED  BY <1>1, <1>2

(* Without deletions agents hold only configurations made from copies of   *)
(* the rows, in every reachable state.                                     *)
LEMMA ConfigsInvariantHolds ==
    ASSUME NoDeletions
    PROVE  Spec => []ConfigsInvariant
  <1>1. Init => ConfigsInvariant
    BY DEF Init, ConfigsInvariant
  <1>2. MutexInvariant /\ RowsInvariant /\ RowsInvariant' /\ CopiesInvariant /\ NetworksInvariant
           /\ ConfigsInvariant /\ [Next]_vars => ConfigsInvariant'
    BY ConfigsStep
  <1> QED  BY <1>1, <1>2, MutexInvariantHolds, RowsInvariantHolds, CopiesInvariantHolds,
              NetworksInvariantHolds, PTL DEF Spec

(* Within the bound nothing wraps around: the revision of a configuration  *)
(* is one less than the sum of the two.                                    *)
LEMMA RevisionIsSum ==
    ASSUME NEW a \in Nat \ {0}, NEW b \in Nat \ {0}, ConfigRevisionFits(a, b)
    PROVE  ConfigRevision(a, b) = a + b - 1 /\ ConfigRevision(a, b) \in 1..MaxUint
  <1>1. MaxUint \in Nat
    BY DictionaryAssumption
  <1>2. a + b - 1 \in 1..MaxUint
    BY <1>1 DEF ConfigRevisionFits
  <1>3. ASSUME NEW m \in Nat, NEW x \in 0..m
        PROVE  x % (m + 1) = x
    BY <1>3
  <1> HIDE ControllerAssumption
  <1> QED  BY <1>1, <1>2, <1>3 DEF ConfigRevision

(* An agent reads in a configuration what the rows it was made from say. *)
LEMMA IssuedReadsBack ==
    ASSUME NEW network, IsNetwork(network), NEW member, NEW list,
           ConfigRevision(network.revision, member.revision) \in 1..MaxUint
    PROVE  LET config == Issued(network, member, list) IN
           /\ config # Unreadable
           /\ HexUint(config, "r") = ConfigRevision(network.revision, member.revision)
           /\ Field(config, "n") = network.doc.name
           /\ Field(config, "CAP") = Packed(IssuedCapabilities(network.doc, member.doc))
           /\ Field(config, "TAG") = Packed(Graph(IssuedTags(network.doc, member.doc)))
           /\ Field(config, "S") = Packed(Specialists(list))
           /\ Field(config, "RT") = Packed(network.doc.routes)
           /\ Field(config, "I") = Packed(StaticIPs(network.doc, member.doc))
  <1>1. ReadsBack(ConfigRevision(network.revision, member.revision), network.doc.name,
                  IssuedCapabilities(network.doc, member.doc),
                  Graph(IssuedTags(network.doc, member.doc)), Specialists(list),
                  network.doc.routes, StaticIPs(network.doc, member.doc))
    <2>1. IsText(network.doc.name)
      BY DocumentsAssumption DEF IsNetwork, NetworkContents
    <2> QED  BY <2>1, ConfigReadsBack
  <1> QED  BY <1>1 DEF ReadsBack, Issued, Entries

(* An agent whose configuration has the current revision was sent one made *)
(* from the current rows: neither of two counters goes back, so their sum  *)
(* is what it was only if both are.                                        *)
LEMMA CurrentRows ==
    ASSUME RowsInvariant, NetworksInvariant, NEW k, HasCurrentRevision(k),
           NEW network, NEW member, NEW list, FromRows(k, network, member, list)
    PROVE  network = networks[k[1]] /\ member = members[k]
  <1> DEFINE n == k[1]
             a == network.revision
             b == member.revision
             c == networks[n].revision
             d == members[k].revision
  <1>1. /\ a \in Nat \ {0} /\ b \in Nat \ {0} /\ c \in Nat \ {0} /\ d \in Nat \ {0}
        /\ ConfigRevisionFits(a, b) /\ ConfigRevisionFits(c, d)
        /\ HexUint(configs[k], "r") = ConfigRevision(c, d)
    <2>1. IsNetwork(network) /\ IsRow(member) /\ ConfigRevisionFits(a, b)
      BY DEF FromRows
    <2>2. IsNetwork(networks[n]) /\ IsRow(members[k])
      BY DEF HasCurrentRevision, FromRows, IsCopy, NetworksInvariant, RowsInvariant
    <2>3. ConfigRevisionFits(c, d) /\ HexUint(configs[k], "r") = ConfigRevision(c, d)
      BY DEF HasCurrentRevision
    <2> QED  BY <2>1, <2>2, <2>3 DEF IsNetwork, IsRow
  <1>2. HexUint(configs[k], "r") = ConfigRevision(a, b)
    BY <1>1, RevisionIsSum, IssuedReadsBack DEF FromRows
  <1>3. a + b - 1 = c + d - 1
    BY <1>1, <1>2, RevisionIsSum
  <1>4. a <= c /\ b <= d
    BY DEF FromRows, IsCopy
  <1>5. a = c /\ b = d
    BY <1>1, <1>3, <1>4
  <1> QED  BY <1>5 DEF FromRows, IsCopy

(* What such an agent reads is what the current rows say. *)
LEMMA CurrentFields ==
    ASSUME RowsInvariant, NetworksInvariant, ConfigsInvariant,
           NEW k \in Keys, HasCurrentRevision(k)
    PROVE  \E list :
              LET network == networks[k[1]]  member == members[k] IN
              /\ IsNetwork(network) /\ IsRow(member)
              /\ ListCurrent(k[1], network, list)
              /\ Field(configs[k], "n") = network.doc.name
              /\ Field(configs[k], "CAP") = Packed(IssuedCapabilities(network.doc, member.doc))
              /\ Field(configs[k], "TAG") = Packed(Graph(IssuedTags(network.doc, member.doc)))
              /\ Field(configs[k], "S") = Packed(Specialists(list))
              /\ Field(configs[k], "RT") = Packed(network.doc.routes)
              /\ Field(configs[k], "I") = Packed(StaticIPs(network.doc, member.doc))
  <1>1. PICK network, member, list : FromRows(k, network, member, list)
    BY DEF ConfigsInvariant, HasCurrentRevision
  <1>2. network = networks[k[1]] /\ member = members[k]
    BY <1>1, CurrentRows
  <1>3. /\ IsNetwork(network) /\ IsRow(member) /\ ListCurrent(k[1], network, list)
        /\ configs[k] = Issued(network, member, list)
        /\ ConfigRevision(network.revision, member.revision) \in 1..MaxUint
    BY <1>1, RevisionIsSum DEF FromRows, IsNetwork, IsRow
  <1>4. /\ Field(configs[k], "n") = network.doc.name
        /\ Field(configs[k], "CAP") = Packed(IssuedCapabilities(network.doc, member.doc))
        /\ Field(configs[k], "TAG") = Packed(Graph(IssuedTags(network.doc, member.doc)))
        /\ Field(configs[k], "S") = Packed(Specialists(list))
        /\ Field(configs[k], "RT") = Packed(network.doc.routes)
        /\ Field(configs[k], "I") = Packed(StaticIPs(network.doc, member.doc))
    BY <1>3, IssuedReadsBack
  <1> QED  BY <1>2, <1>3, <1>4

(* The number configRevision makes of two revisions identifies what the    *)
(* agent was sent: while nothing is deleted, an agent can read every       *)
(* configuration, and one with the current number holds the name, the      *)
(* routes and the addresses of the current rows, however the requests that *)
(* read the rows overlapped with the ones that wrote them.                 *)
THEOREM RevisionsIdentify ==
    ASSUME NoDeletions
    PROVE  Spec => []RevisionIdentifiesContent
  <1>1. ASSUME RowsInvariant, NetworksInvariant, ConfigsInvariant
        PROVE  RevisionIdentifiesContent
    <2>1. ASSUME NEW k \in Keys PROVE configs[k] # Unreadable
      <3>1. CASE configs[k] = NoConfig
        BY <3>1, DocumentsAssumption
      <3>2. ASSUME NEW network, NEW member, NEW list, FromRows(k, network, member, list)
            PROVE  configs[k] # Unreadable
        <4>1. ConfigRevision(network.revision, member.revision) \in 1..MaxUint
          BY <3>2, RevisionIsSum DEF FromRows, IsNetwork, IsRow
        <4> QED  BY <3>2, <4>1, IssuedReadsBack DEF FromRows
      <3> QED  BY <1>1, <3>1, <3>2 DEF ConfigsInvariant
    <2>2. ASSUME NEW k \in Keys, HasCurrentRevision(k)
          PROVE  /\ Field(configs[k], "n") = networks[k[1]].doc.name
                 /\ Field(configs[k], "RT") = Packed(networks[k[1]].doc.routes)
                 /\ Field(configs[k], "I") = Packed(StaticIPs(networks[k[1]].doc, members[k].doc))
      BY <1>1, <2>2, CurrentFields
    <2> QED  BY <2>1, <2>2 DEF RevisionIdentifiesContent
  <1> QED  BY <1>1, RowsInvariantHolds, NetworksInvariantHolds, ConfigsInvariantHolds, PTL

(* What is packed into a field is carried by it. *)
LEMMA CarriedPacked ==
    ASSUME NEW k, NEW key, NEW x, Field(configs[k], key) = Packed(x)
    PROVE  Carried(k, key) = x
  <1>1. CASE x = {}
    BY <1>1 DEF Carried, Packed
  <1>2. CASE x # {}
    BY <1>2 DEF Carried, Packed, Blob
  <1> QED  BY <1>1, <1>2

(* An administrator who gives or takes a role reaches every member: where  *)
(* nothing is deleted and no call fails, an agent with the current         *)
(* revision, and no request on its way to advance it, knows the current    *)
(* specialists.                                                            *)
THEOREM SpecialistsFollow ==
    ASSUME NoDeletions, ~ CallsMayFail
    PROVE  Spec => []SpecialistsRefreshed
  <1>1. ASSUME RowsInvariant, NetworksInvariant, ConfigsInvariant
        PROVE  SpecialistsRefreshed
    <2>1. ASSUME NEW k \in Keys, HasCurrentRevision(k), ~ BumpPending(k[1])
          PROVE  Carried(k, "S") = Specialists(DB!MembersOf(k[1]))
      <3>1. PICK list : /\ IsNetwork(networks[k[1]])
                        /\ ListCurrent(k[1], networks[k[1]], list)
                        /\ Field(configs[k], "S") = Packed(Specialists(list))
        BY <1>1, <2>1, CurrentFields
      <3>2. ~ Outdated(k[1], networks[k[1]].revision)
        BY <2>1, <3>1 DEF Outdated, WillBump, BumpPending, IsNetwork
      <3> QED  BY <3>1, <3>2, CarriedPacked DEF ListCurrent
    <2> QED  BY <2>1 DEF SpecialistsRefreshed
  <1> QED  BY <1>1, RowsInvariantHolds, NetworksInvariantHolds, ConfigsInvariantHolds, PTL

(* Nothing is cut from a list that is not too long. *)
LEMMA LowestIsAll ==
    ASSUME NEW n \in Nat, NEW ids, IsIDSet(ids), Cardinality(ids) <= n
    PROVE  Lowest(n, ids) = ids
  <1>1. ASSUME NEW i \in ids
        PROVE  Cardinality({j \in ids : j < i}) < n
    <2> DEFINE below == {j \in ids : j < i}
               others == ids \ {i}
    <2>1. below \subseteq others
      BY DEF IsIDSet
    <2>2. /\ IsFiniteSet(others) /\ Cardinality(others) = Cardinality(ids) - 1
          /\ Cardinality(ids) \in Nat
      BY FS_RemoveElement, FS_CardinalityType DEF IsIDSet
    <2>3. Cardinality(below) <= Cardinality(others) /\ Cardinality(below) \in Nat
      BY <2>1, <2>2, FS_Subset, FS_CardinalityType
    <2> QED  BY <2>2, <2>3
  <1> QED  BY <1>1 DEF Lowest

(* While nothing is deleted, an agent with the current revision holds the  *)
(* capabilities it is entitled to and no other, and tags with the values   *)
(* the member and the network give them, whatever happened between the     *)
(* reads of the two rows.                                                  *)
THEOREM CredentialsFollowRows ==
    ASSUME NoDeletions
    PROVE  Spec => []CredentialsEntitled
  <1>1. ASSUME RowsInvariant, NetworksInvariant, ConfigsInvariant
        PROVE  CredentialsEntitled
    <2>1. SUFFICES
            ASSUME NEW k \in Keys, HasCurrentRevision(k)
            PROVE  LET network == networks[k[1]].doc
                       member == members[k].doc
                       entitled == {c \in DOMAIN network.capabilities :
                                       network.capabilities[c].default \/ c \in member.capabilities}
                   IN /\ Carried(k, "CAP") \subseteq entitled
                      /\ Cardinality(entitled \cup member.capabilities) <= MaxIssuedCapabilities
                            => Carried(k, "CAP") = entitled
                      /\ \A tag \in Carried(k, "TAG") :
                            IF tag[1] \in DOMAIN member.tags THEN tag[2] = member.tags[tag[1]]
                            ELSE tag[2] \in network.tags[tag[1]]
      BY DEF CredentialsEntitled
    <2> DEFINE network == networks[k[1]].doc
               member == members[k].doc
               ids == CapabilityIDs(network, member)
               entitled == {c \in DOMAIN network.capabilities :
                               network.capabilities[c].default \/ c \in member.capabilities}
    <2>2. /\ IsNetwork(networks[k[1]]) /\ IsRow(members[k])
          /\ Field(configs[k], "CAP") = Packed(IssuedCapabilities(network, member))
          /\ Field(configs[k], "TAG") = Packed(Graph(IssuedTags(network, member)))
      BY <1>1, <2>1, CurrentFields
    <2>3. /\ Carried(k, "CAP") = Lowest(MaxIssuedCapabilities, ids) \cap DOMAIN network.capabilities
          /\ Carried(k, "TAG") = Graph(IssuedTags(network, member))
      BY <2>2, CarriedPacked DEF IssuedCapabilities
    <2>4. ids \cap DOMAIN network.capabilities = entitled /\ ids = entitled \cup member.capabilities
      BY DEF CapabilityIDs
    <2>5. Carried(k, "CAP") \subseteq entitled
      BY <2>3, <2>4 DEF Lowest
    <2>6. ASSUME Cardinality(entitled \cup member.capabilities) <= MaxIssuedCapabilities
          PROVE  Carried(k, "CAP") = entitled
      <3>1. IsIDSet(DOMAIN network.capabilities) /\ IsIDSet(member.capabilities)
        BY <2>2, DocumentsAssumption DEF IsNetwork, NetworkContents, IsRow
      <3>2. IsIDSet(ids)
        <4>1. IsFiniteSet(DOMAIN network.capabilities \cup member.capabilities)
          BY <3>1, FS_Union DEF IsIDSet
        <4>2. ids \subseteq DOMAIN network.capabilities \cup member.capabilities
          BY <2>4
        <4> QED  BY <3>1, <4>1, <4>2, FS_Subset DEF IsIDSet
      <3>3. MaxIssuedCapabilities \in Nat
        BY CredentialsAssumption
      <3>4. Lowest(MaxIssuedCapabilities, ids) = ids
        BY <2>4, <2>6, <3>2, <3>3, LowestIsAll
      <3> QED  BY <2>3, <2>4, <3>4
    <2>7. ASSUME NEW tag \in Carried(k, "TAG")
          PROVE  IF tag[1] \in DOMAIN member.tags THEN tag[2] = member.tags[tag[1]]
                 ELSE tag[2] \in network.tags[tag[1]]
      <3> DEFINE values == TagValues(network, member)
                 kept == Lowest(MaxIssuedTags, DOMAIN values)
      <3>1. PICK x \in kept : tag = <<x, values[x]>>
        BY <2>3 DEF Graph, IssuedTags, Restrict
      <3>2. x \in DOMAIN values
        BY DEF Lowest
      <3>3. /\ x \in DOMAIN member.tags => values[x] = member.tags[x]
            /\ x \notin DOMAIN member.tags => /\ network.tags[x] # {}
                                              /\ values[x] = CHOOSE v \in network.tags[x] : TRUE
        BY <3>2 DEF TagValues
      <3> QED  BY <3>1, <3>3
    <2> QED  BY <2>5, <2>6, <2>7
  <1> QED  BY <1>1, RowsInvariantHolds, NetworksInvariantHolds, ConfigsInvariantHolds, PTL

-----------------------------------------------------------------------------
(* The tables. *)

\* What a step of the service may do to the tables: what their mutations do.
Mutation ==
    \/ UNCHANGED tables
    \/ \E n, doc : n \notin DOMAIN networks /\ DB!CreateNetwork(n, doc)
    \/ \E n, r, doc : DB!IsCurrent(networks, n, r) /\ DB!SaveNetwork(n, r, doc)
    \/ \E n : DB!DeleteNetwork(n)
    \/ \E k, doc : /\ k[1] \in DOMAIN networks /\ k \notin DOMAIN members
                   /\ DB!CreateMember(k, doc)
    \/ \E k, r, doc : DB!IsCurrent(members, k, r) /\ DB!SaveMember(k, r, doc)
    \/ \E k : DB!DeleteMember(k)
    \/ \E k, doc : k \in DOMAIN members /\ DB!UpsertAgentMetadata(k, doc)

(* Every step of a request is one of them, under the guard it needs. *)
LEMMA ServiceMutates ==
    ASSUME [Next]_vars
    PROVE  Mutation
  <1>1. CASE UNCHANGED vars
    BY <1>1 DEF vars, tables, Mutation
  <1>2. CASE Next
    <2>1. PICK w \in Workers : Request(w) \/ Step(w) \/ IpamLock(w) \/ Fail(w)
      BY <1>2 DEF Next
    <2> USE DEF OnlyTask, Mutation
    <2>2. CASE Request(w)
      <3>1. ASSUME NEW n, NEW doc, CreateNetwork(w, n, doc) PROVE Mutation
        BY <3>1 DEF CreateNetwork
      <3>2. ASSUME ~ \E n \in Networks, doc \in NetworkDocs : CreateNetwork(w, n, doc)
            PROVE  UNCHANGED tables
        BY <2>2, <3>2 DEF Request, UpdateNetworkGet, DeleteNetworkGet, RegisterMember,
              SetAuthorizationGet, UpdateMemberGet, DeleteMemberGet, ConfigGetNetwork
      <3> QED  BY <3>1, <3>2
    <2>3. CASE Step(w)
      <3>1. CASE UpdateNetworkSave(w)
        BY <3>1 DEF UpdateNetworkSave
      <3>2. CASE DeleteNetworkDelete(w)
        BY <3>2 DEF DeleteNetworkDelete
      <3>3. CASE BumpSave(w)
        BY <3>3 DEF BumpSave
      <3>4. CASE RegisterCreate(w)
        BY <3>4 DEF RegisterCreate
      <3>5. CASE SetAuthorizationSave(w)
        BY <3>5 DEF SetAuthorizationSave
      <3>6. CASE UpdateMemberSave(w)
        BY <3>6 DEF UpdateMemberSave
      <3>7. CASE DeleteMemberDelete(w)
        BY <3>7 DEF DeleteMemberDelete
      <3>8. CASE ConfigUpsert(w)
        BY <3>8 DEF ConfigUpsert
      <3>9. CASE IpamSave(w)
        BY <3>9 DEF IpamSave
      <3>10. CASE BumpGet(w) \/ RegisterGet(w) \/ RegisterReget(w) \/ SetAuthorizationReget(w)
                    \/ UpdateMemberReget(w) \/ IpamGet(w) \/ IpamList(w) \/ IpamReget(w)
                    \/ ConfigIssue(w)
        BY <3>10 DEF BumpGet, RegisterGet, RegisterReget, SetAuthorizationReget,
              UpdateMemberReget, IpamGet, IpamList, IpamReget, ConfigIssue
      <3> QED  BY <2>3, <3>1, <3>2, <3>3, <3>4, <3>5, <3>6, <3>7, <3>8, <3>9, <3>10 DEF Step
    <2>4. CASE IpamLock(w) \/ Fail(w)
      BY <2>4 DEF IpamLock, Fail
    <2> QED  BY <2>1, <2>2, <2>3, <2>4
  <1> QED  BY <1>1, <1>2

(* The persisted rows refer to each other whatever requests overlap, fail  *)
(* or end half done: a member belongs to a network that exists, although a *)
(* configuration request reads the network store calls before              *)
(* RegisterMember creates the member, and metadata to a member that        *)
(* exists, although UpsertAgentMetadata follows the read of the member.    *)
THEOREM ServiceIntegrity == Spec => []DB!ReferentialIntegrity
  <1>1. Init => DB!ReferentialIntegrity
    BY InitialRowsAssumption DEF Init, DB!ReferentialIntegrity
  <1>2. DB!ReferentialIntegrity /\ Mutation => DB!ReferentialIntegrity'
    <2>0. SUFFICES ASSUME DB!ReferentialIntegrity, Mutation PROVE DB!ReferentialIntegrity'
      OBVIOUS
    <2> USE DEF DB!ReferentialIntegrity
    <2>1. CASE UNCHANGED tables
      BY <2>0, <2>1 DEF tables
    <2>2. ASSUME NEW n, NEW doc, DB!CreateNetwork(n, doc) PROVE DB!ReferentialIntegrity'
      BY <2>0, <2>2 DEF DB!CreateNetwork, DB!Put
    <2>3. ASSUME NEW n, NEW r, NEW doc, DB!SaveNetwork(n, r, doc) PROVE DB!ReferentialIntegrity'
      BY <2>0, <2>3 DEF DB!SaveNetwork, DB!Put
    <2>4. ASSUME NEW n, DB!DeleteNetwork(n) PROVE DB!ReferentialIntegrity'
      BY <2>0, <2>4 DEF DB!DeleteNetwork, DB!Restrict
    <2>5. ASSUME NEW k, NEW doc, k[1] \in DOMAIN networks, DB!CreateMember(k, doc)
          PROVE  DB!ReferentialIntegrity'
      BY <2>0, <2>5 DEF DB!CreateMember, DB!Put
    <2>6. ASSUME NEW k, NEW r, NEW doc, DB!IsCurrent(members, k, r), DB!SaveMember(k, r, doc)
          PROVE  DB!ReferentialIntegrity'
      BY <2>0, <2>6 DEF DB!SaveMember, DB!IsCurrent, DB!Put
    <2>7. ASSUME NEW k, DB!DeleteMember(k) PROVE DB!ReferentialIntegrity'
      BY <2>0, <2>7 DEF DB!DeleteMember, DB!Restrict
    <2>8. ASSUME NEW k, NEW doc, k \in DOMAIN members, DB!UpsertAgentMetadata(k, doc)
          PROVE  DB!ReferentialIntegrity'
      BY <2>0, <2>8 DEF DB!UpsertAgentMetadata, DB!Put
    <2> HIDE DEF DB!ReferentialIntegrity
    <2> QED  BY <2>0, <2>1, <2>2, <2>3, <2>4, <2>5, <2>6, <2>7, <2>8 DEF Mutation
  <1>3. [Next]_vars => Mutation
    BY ServiceMutates
  <1> QED  BY <1>1, <1>2, <1>3, PTL DEF Spec

(* No request of the service hides a write: a row appears with revision 1  *)
(* and changes only together with an increment of its revision by exactly  *)
(* one, whatever requests, deletions and failures overlap.                 *)
THEOREM ServiceRevisions == Spec => DB!RevisionsCountWrites
  <1> DEFINE Counted == DB!RowStep(networks, networks') /\ DB!RowStep(members, members')
  <1>1. Mutation => Counted
    <2>0. SUFFICES ASSUME Mutation PROVE Counted
      OBVIOUS
    <2> USE DEF DB!RowStep
    <2>1. CASE UNCHANGED tables
      BY <2>1 DEF tables
    <2>2. ASSUME NEW n, NEW doc, n \notin DOMAIN networks, DB!CreateNetwork(n, doc) PROVE Counted
      BY <2>2 DEF DB!CreateNetwork, DB!Put
    <2>3. ASSUME NEW n, NEW r, NEW doc, DB!IsCurrent(networks, n, r), DB!SaveNetwork(n, r, doc)
          PROVE  Counted
      BY <2>3 DEF DB!SaveNetwork, DB!IsCurrent, DB!Put
    <2>4. ASSUME NEW n, DB!DeleteNetwork(n) PROVE Counted
      BY <2>4 DEF DB!DeleteNetwork, DB!Restrict
    <2>5. ASSUME NEW k, NEW doc, k \notin DOMAIN members, DB!CreateMember(k, doc) PROVE Counted
      BY <2>5 DEF DB!CreateMember, DB!Put
    <2>6. ASSUME NEW k, NEW r, NEW doc, DB!IsCurrent(members, k, r), DB!SaveMember(k, r, doc)
          PROVE  Counted
      BY <2>6 DEF DB!SaveMember, DB!IsCurrent, DB!Put
    <2>7. ASSUME NEW k, DB!DeleteMember(k) PROVE Counted
      BY <2>7 DEF DB!DeleteMember, DB!Restrict
    <2>8. ASSUME NEW k, NEW doc, DB!UpsertAgentMetadata(k, doc) PROVE Counted
      BY <2>8 DEF DB!UpsertAgentMetadata
    <2> HIDE DEF Counted
    <2> QED  BY <2>0, <2>1, <2>2, <2>3, <2>4, <2>5, <2>6, <2>7, <2>8 DEF Mutation
  <1>2. [Next]_vars => [Counted]_DB!tables
    BY <1>1, ServiceMutates
  <1> QED  BY <1>2, PTL DEF Spec, DB!RevisionsCountWrites

-----------------------------------------------------------------------------
(* Revocations: the controller goes on as before. *)

(* The steps of a request are those of the controller. *)
LEMMA ServiceStep ==
    ASSUME NEW w \in Workers,
           Serve(w) \/ SaveAuthorization(w) \/ Deauthorized(w) \/ IssueCOM(w) \/ Proceed(w)
    PROVE  /\ Next
           /\ AreTasks(task) => AreTasks(task') /\ SameFor(task, task', w) /\ Outcome(w)
  <1>1. Request(w) \/ Step(w) \/ IpamLock(w) \/ Fail(w)
    BY DEF Serve, SaveAuthorization, Deauthorized, IssueCOM, Proceed, Step
  <1> QED  BY <1>1, RequestOutcome, StepOutcome DEF Next, Outcome

(* Whatever else happens leaves the controller alone. *)
LEMMA RuntimeStep ==
    ASSUME RevocationNext
    PROVE  \/ \E w \in Workers : Serve(w) \/ SaveAuthorization(w) \/ Deauthorized(w)
                                 \/ IssueCOM(w) \/ Proceed(w)
           \/ UNCHANGED vars
    BY DEF RevocationNext, ReadClock, ListRecipients, BroadcastFails, Return, BuildFor, WriteTo,
           Connect, Disconnect, Tick, CloseSocket, BroadcastOnly

(* So all that was proved of the controller holds here as well. *)
LEMMA RevocationImplementsController == RevocationSpec => Spec
  <1>1. RevocationInit => Init
    BY DEF RevocationInit
  <1>2. [RevocationNext]_<<vars, runtime>> => [Next]_vars
    BY RuntimeStep, ServiceStep
  <1> QED  BY <1>1, <1>2, PTL DEF RevocationSpec, Spec

-----------------------------------------------------------------------------
(* A broadcast reaches every member that keeps its session. *)

IsCallback(b) ==
    b = [pc |-> b.pc, k |-> b.k, threshold |-> b.threshold, todo |-> b.todo, out |-> b.out,
         revision |-> b.revision, due |-> b.due]

\* A member that is still to be sent its datagram has a session and is going to be
\* looked up, or has been and its datagram is ready.
ReachInvariant ==
    /\ broadcast = [w \in Workers |-> broadcast[w]]
    /\ \A w \in Workers : broadcast[w] # NoBroadcast =>
          LET b == broadcast[w] IN
          /\ IsCallback(b)
          /\ b.due \subseteq sessions
          /\ b.pc = "list" => b.due = {}
          /\ udpOpen => b.due \subseteq b.todo \cup b.out
    /\ RevocationReachesMembers

(* The fields of a callback that has listed the members. *)
LEMMA SendingFields ==
    ASSUME NEW b, NEW todo, NEW out, NEW due
    PROVE  LET c == Sending(b, todo, out, due) IN
           /\ IsCallback(c) /\ c.pc = "build" /\ c.k = b.k /\ c.threshold = b.threshold
           /\ c.revision = b.revision /\ c.todo = todo /\ c.out = out /\ c.due = due
    BY DEF Sending, IsCallback

(* A member whose session is removed is not due any more. *)
LEMMA DropDue ==
    ASSUME NEW b, IsCallback(b), NEW due
    PROVE  LET c == [b EXCEPT !.due = due] IN
           /\ IsCallback(c) /\ c.pc = b.pc /\ c.k = b.k /\ c.threshold = b.threshold
           /\ c.revision = b.revision /\ c.todo = b.todo /\ c.out = b.out /\ c.due = due
  <1> DEFINE c == [b EXCEPT !.due = due]
  <1>1. c = [pc |-> b.pc, k |-> b.k, threshold |-> b.threshold, todo |-> b.todo, out |-> b.out,
             revision |-> b.revision, due |-> due]
    BY DEF IsCallback
  <1> HIDE DEF c
  <1>2. /\ c.pc = b.pc /\ c.k = b.k /\ c.threshold = b.threshold
        /\ c.revision = b.revision /\ c.todo = b.todo /\ c.out = b.out /\ c.due = due
    BY <1>1
  <1>3. IsCallback(c)
    BY <1>1, <1>2 DEF IsCallback
  <1> QED  BY <1>2, <1>3 DEF c

(* The invariant survives every step of the callback and of its            *)
(* surroundings.                                                           *)
LEMMA ReachStep ==
    ASSUME ReachInvariant, [RevocationNext]_<<vars, runtime>>
    PROVE  ReachInvariant'
  <1> DEFINE OK(b, s, open) == b # NoBroadcast =>
                /\ IsCallback(b)
                /\ b.due \subseteq s
                /\ b.pc = "list" => b.due = {}
                /\ open => b.due \subseteq b.todo \cup b.out
  <1>0. \A w \in Workers : OK(broadcast[w], sessions, udpOpen)
    BY DEF ReachInvariant
  <1>s. ASSUME broadcast' = [w \in Workers |-> broadcast'[w]],
               \A w \in Workers : OK(broadcast'[w], sessions', udpOpen'),
               RevocationReachesMembers'
        PROVE  ReachInvariant'
    BY <1>s DEF ReachInvariant
  <1> HIDE DEF OK
  <1>r. RevocationReachesMembers /\ broadcast = [w \in Workers |-> broadcast[w]]
    BY DEF ReachInvariant
  \* A step that replaces the callback of one worker.
  <1>b. ASSUME NEW w \in Workers, NEW b, broadcast' = [broadcast EXCEPT ![w] = b],
               OK(b, sessions, udpOpen), sessions' = sessions, udpOpen' = udpOpen,
               RevocationReachesMembers'
        PROVE  ReachInvariant'
    BY <1>0, <1>b, <1>r, <1>s
  <1>n. OK(NoBroadcast, sessions, udpOpen)
    BY DEF OK
  <1>1. CASE UNCHANGED <<vars, runtime>>
    BY <1>1 DEF runtime, ReachInvariant, RevocationReachesMembers
  <1>2. ASSUME NEW w \in Workers,
               Serve(w) \/ ReadClock(w) \/ SaveAuthorization(w) \/ IssueCOM(w) \/ Proceed(w)
        PROVE  ReachInvariant'
    <2>1. UNCHANGED <<broadcast, sessions, udpOpen, announced>>
      BY <1>2 DEF Serve, ReadClock, SaveAuthorization, IssueCOM, Proceed
    <2> QED  BY <2>1 DEF ReachInvariant, RevocationReachesMembers
  <1>3. ASSUME NEW w \in Workers, Deauthorized(w)
        PROVE  ReachInvariant'
    <2>1. UNCHANGED <<sessions, udpOpen, announced>>
      BY <1>3 DEF Deauthorized
    <2>2. RevocationReachesMembers'
      BY <1>r, <2>1 DEF RevocationReachesMembers
    <2>3. CASE broadcast' = broadcast
      BY <2>1, <2>3 DEF ReachInvariant, RevocationReachesMembers
    <2>4. CASE broadcast' = [broadcast EXCEPT ![w] = NewCOMRevocation(w)]
      <3>1. OK(NewCOMRevocation(w), sessions, udpOpen)
        BY DEF NewCOMRevocation, OK, IsCallback
      <3> QED  BY <1>b, <2>1, <2>2, <2>4, <3>1
    <2> QED  BY <1>3, <2>3, <2>4 DEF Deauthorized
  <1>4. ASSUME NEW w \in Workers, ListRecipients(w)
        PROVE  ReachInvariant'
    <2> DEFINE listed == {x[1] : x \in Listed(broadcast[w].k[1])}
               b == Sending(broadcast[w], listed, {}, listed \cap sessions)
    <2>1. UNCHANGED <<sessions, udpOpen, announced>>
      BY <1>4 DEF ListRecipients, BroadcastOnly
    <2>2. RevocationReachesMembers'
      BY <1>r, <2>1 DEF RevocationReachesMembers
    <2>3. broadcast' = [broadcast EXCEPT ![w] = b]
      BY <1>4 DEF ListRecipients
    <2>4. OK(b, sessions, udpOpen)
      <3> HIDE DEF listed
      <3> QED  BY SendingFields DEF OK
    <2> HIDE DEF b
    <2> QED  BY <1>b, <2>1, <2>2, <2>3, <2>4
  <1>5. ASSUME NEW w \in Workers, NEW i, BuildFor(w, i)
        PROVE  ReachInvariant'
    <2> DEFINE b == broadcast[w]
               c == Sending(b, b.todo \ {i}, b.out \cup ({i} \cap sessions), b.due)
    <2>1. UNCHANGED <<sessions, udpOpen, announced>> /\ broadcast' = [broadcast EXCEPT ![w] = c]
      BY <1>5 DEF BuildFor, BroadcastOnly
    <2>2. RevocationReachesMembers'
      BY <1>r, <2>1 DEF RevocationReachesMembers
    <2>3. /\ b.due \subseteq sessions
          /\ udpOpen => b.due \subseteq b.todo \cup b.out
      BY <1>0, <1>5 DEF OK, BuildFor, InBroadcast
    <2>4. OK(c, sessions, udpOpen)
      BY <2>3, SendingFields DEF OK
    <2> HIDE DEF c
    <2> QED  BY <1>b, <2>1, <2>2, <2>4
  <1>6. ASSUME NEW w \in Workers, NEW i, WriteTo(w, i)
        PROVE  ReachInvariant'
    <2> DEFINE b == broadcast[w]
               due == IF udpOpen THEN b.due \ {i} ELSE b.due
               c == Sending(b, {}, b.out \ {i}, due)
    <2>1. UNCHANGED <<sessions, udpOpen, announced>> /\ broadcast' = [broadcast EXCEPT ![w] = c]
      BY <1>6 DEF WriteTo, BroadcastOnly
    <2>2. RevocationReachesMembers'
      BY <1>r, <2>1 DEF RevocationReachesMembers
    <2>3. /\ b.due \subseteq sessions /\ b.todo = {}
          /\ udpOpen => b.due \subseteq b.todo \cup b.out
      BY <1>0, <1>6 DEF OK, WriteTo, InBroadcast
    <2>4. due \subseteq sessions /\ (udpOpen => due \subseteq b.out \ {i})
      BY <2>3
    <2> HIDE DEF due
    <2>5. OK(c, sessions, udpOpen)
      BY <2>4, SendingFields DEF OK
    <2> HIDE DEF c
    <2> QED  BY <1>b, <2>1, <2>2, <2>5
  <1>7. ASSUME NEW w \in Workers, Return(w)
        PROVE  ReachInvariant'
    <2> DEFINE b == broadcast[w]
               a == [k |-> b.k, threshold |-> b.threshold, revision |-> b.revision,
                     missed |-> b.due]
    <2>1. /\ UNCHANGED <<sessions, udpOpen>> /\ broadcast' = [broadcast EXCEPT ![w] = NoBroadcast]
          /\ announced' = announced \cup {a}
      BY <1>7 DEF Return, BroadcastOnly
    <2>2. udpOpen => b.due = {}
      BY <1>0, <1>7 DEF OK, Return, InBroadcast
    <2>3. a.missed = b.due
      OBVIOUS
    <2> HIDE DEF a
    <2>4. RevocationReachesMembers'
      BY <1>r, <2>1, <2>2, <2>3 DEF RevocationReachesMembers
    <2> QED  BY <1>b, <1>n, <2>1, <2>4
  <1>8. ASSUME NEW i, Connect(i)
        PROVE  ReachInvariant'
    BY <1>8 DEF Connect, ReachInvariant, RevocationReachesMembers
  <1>9. ASSUME NEW i, Disconnect(i)
        PROVE  ReachInvariant'
    <2>1. /\ sessions' = sessions \ {i} /\ UNCHANGED <<udpOpen, announced>>
          /\ broadcast' = [w \in Workers |->
                             IF broadcast[w] = NoBroadcast THEN NoBroadcast
                             ELSE [broadcast[w] EXCEPT !.due = @ \ {i}]]
      BY <1>9 DEF Disconnect
    <2>2. ASSUME NEW w \in Workers
          PROVE  OK(broadcast'[w], sessions', udpOpen')
      <3>1. CASE broadcast[w] = NoBroadcast
        BY <2>1, <3>1 DEF OK
      <3>2. CASE broadcast[w] # NoBroadcast
        <4> DEFINE b == broadcast[w]
                   c == [b EXCEPT !.due = b.due \ {i}]
        <4>1. broadcast'[w] = c
          BY <2>1, <3>2
        <4>2. IsCallback(b)
          BY <1>0, <3>2 DEF OK
        <4>3. /\ IsCallback(c) /\ c.pc = b.pc /\ c.due = b.due \ {i}
              /\ c.todo = b.todo /\ c.out = b.out
          BY <4>2, DropDue
        <4> HIDE DEF c
        <4> QED  BY <1>0, <2>1, <3>2, <4>1, <4>3 DEF OK
      <3> QED  BY <3>1, <3>2
    <2>3. broadcast' = [w \in Workers |-> broadcast'[w]]
      BY <2>1
    <2>4. RevocationReachesMembers'
      BY <1>r, <2>1 DEF RevocationReachesMembers
    <2> QED  BY <1>s, <2>2, <2>3, <2>4
  <1>10. CASE Tick
    BY <1>10 DEF Tick, ReachInvariant, RevocationReachesMembers
  <1>11. CASE CloseSocket
    BY <1>11 DEF CloseSocket, ReachInvariant, RevocationReachesMembers
  <1>12. ASSUME NEW w \in Workers, BroadcastFails(w)
         PROVE  ReachInvariant'
    <2>1. /\ UNCHANGED <<sessions, udpOpen, announced>>
          /\ broadcast' = [broadcast EXCEPT ![w] = NoBroadcast]
      BY <1>12 DEF BroadcastFails, BroadcastOnly
    <2>2. RevocationReachesMembers'
      BY <1>r, <2>1 DEF RevocationReachesMembers
    <2> QED  BY <1>b, <1>n, <2>1, <2>2
  <1> QED  BY <1>1, <1>2, <1>3, <1>4, <1>5, <1>6, <1>7, <1>8, <1>9, <1>10, <1>11, <1>12
           DEF RevocationNext

(* A broadcast that ends while the socket is open has written a datagram   *)
(* to every member listed that kept its session, whatever other sessions   *)
(* came and went and however many broadcasts ran at once                   *)
(* (transport/revocation.go:42-67).                                        *)
THEOREM BroadcastReaches == RevocationSpec => []RevocationReachesMembers
  <1>1. RevocationInit => ReachInvariant
    BY DEF RevocationInit, ReachInvariant, RevocationReachesMembers
  <1>2. ReachInvariant /\ [RevocationNext]_<<vars, runtime>> => ReachInvariant'
    BY ReachStep
  <1>3. ReachInvariant => RevocationReachesMembers
    BY DEF ReachInvariant
  <1> QED  BY <1>1, <1>2, <1>3, PTL DEF RevocationSpec
-----------------------------------------------------------------------------
(* A revocation spares what follows a new authorization. *)

\* Every COM of member k made from a row after this revision is as new as the threshold.
Spares(coms, k, revision, threshold) ==
    \A c \in coms : c.k = k /\ c.revision > revision => c.at >= threshold

\* A transition that is saved, being announced or announced spares what it should, and
\* its threshold is in the past: the COMs to come are as new.
ThresholdInvariant ==
    /\ clock \in Nat
    /\ stamp = [w \in Workers |-> stamp[w]]
    /\ \A w \in Workers : stamp[w] \in Nat /\ stamp[w] <= clock
    /\ \A c \in issued : /\ c.k \in DOMAIN members /\ c.revision \in Nat
                         /\ c.revision <= members[c.k].revision
    /\ \A w \in Workers : task[w].op = "setAuthorization" /\ task[w].pc # "save" =>
          Spares(issued, task[w].k, task[w].member.revision + 1, stamp[w])
    /\ broadcast = [w \in Workers |-> broadcast[w]]
    /\ \A w \in Workers : broadcast[w] # NoBroadcast =>
          LET b == broadcast[w] IN
          /\ IsCallback(b) /\ b.threshold \in Nat /\ b.threshold <= clock
          /\ Spares(issued, b.k, b.revision, b.threshold)
    /\ \A a \in announced : /\ a.threshold \in Nat /\ a.threshold <= clock
                            /\ Spares(issued, a.k, a.revision, a.threshold)

\* What a broadcast, and an announcement, must be like for the invariant.
BroadcastSpares(b, coms, now) ==
    b # NoBroadcast => /\ IsCallback(b) /\ b.threshold \in Nat /\ b.threshold <= now
                       /\ Spares(coms, b.k, b.revision, b.threshold)

\* The part of the invariant that is about requests.
RequestsSpare(tasks, coms, stamps) ==
    \A w \in Workers : tasks[w].op = "setAuthorization" /\ tasks[w].pc # "save" =>
        Spares(coms, tasks[w].k, tasks[w].member.revision + 1, stamps[w])

\* The part that is about the COMs.
IssuedFromRows(coms, table) ==
    \A c \in coms : /\ c.k \in DOMAIN table /\ c.revision \in Nat
                    /\ c.revision <= table[c.k].revision

(* Rows that only advance stay ahead of the COMs. *)
LEMMA IssuedStaysBehind ==
    ASSUME RowsInvariant, RowsAdvance, IssuedFromRows(issued, members)
    PROVE  IssuedFromRows(issued, members')
  <1> SUFFICES ASSUME NEW c \in issued
               PROVE  /\ c.k \in DOMAIN members' /\ c.revision \in Nat
                      /\ c.revision <= members'[c.k].revision
    BY DEF IssuedFromRows
  <1>1. /\ c.k \in DOMAIN members /\ c.revision \in Nat
        /\ c.revision <= members[c.k].revision
    BY DEF IssuedFromRows
  <1>2. members[c.k].revision \in Nat
    BY <1>1 DEF RowsInvariant, IsRow
  <1> QED  BY <1>1, <1>2 DEF RowsAdvance

(* What a step of a request does to the invariant. *)
LEMMA RequestsKeepSparing ==
    ASSUME NoDeletions, MutexInvariant, RowsInvariant, CopiesInvariant, ThresholdInvariant,
           NEW w \in Workers,
           Serve(w) \/ SaveAuthorization(w) \/ Deauthorized(w) \/ Proceed(w)
    PROVE  /\ IssuedFromRows(issued, members')
           /\ RequestsSpare(task', issued, stamp')
           /\ stamp' = [v \in Workers |-> stamp'[v]]
           /\ \A v \in Workers : stamp'[v] \in Nat /\ stamp'[v] <= clock
  <1> DEFINE t == task[w]
             u == task'[w]
  <1>0. /\ clock \in Nat
        /\ stamp = [v \in Workers |-> stamp[v]]
        /\ \A v \in Workers : stamp[v] \in Nat /\ stamp[v] <= clock
        /\ IssuedFromRows(issued, members)
        /\ RequestsSpare(task, issued, stamp)
    BY DEF ThresholdInvariant, IssuedFromRows, RequestsSpare
  <1>1. SameFor(task, task', w) /\ Outcome(w)
    BY ServiceStep DEF MutexInvariant
  <1>2. IssuedFromRows(issued, members')
    BY <1>0, <1>1, RowsOnlyAdvance, IssuedStaysBehind
  <1>3. /\ \A v \in Workers : v # w => stamp'[v] = stamp[v]
        /\ stamp' = [v \in Workers |-> stamp'[v]]
        /\ stamp'[w] \in {0, clock, stamp[w]}
    BY <1>0 DEF Serve, SaveAuthorization, Deauthorized, Proceed
  <1>4. \A v \in Workers : stamp'[v] \in Nat /\ stamp'[v] <= clock
    BY <1>0, <1>3
  \* No COM of the member can be from a row after the one that the request replaces.
  <1>5. ASSUME u.k \in DOMAIN members, u.member.revision = members[u.k].revision
        PROVE  Spares(issued, u.k, u.member.revision + 1, stamp'[w])
    <2>1. members[u.k].revision \in Nat
      BY <1>5 DEF RowsInvariant, IsRow
    <2> QED  BY <1>0, <1>5, <2>1 DEF IssuedFromRows, Spares
  <1>6. ASSUME u.op = "setAuthorization", u.pc # "save"
        PROVE  Spares(issued, u.k, u.member.revision + 1, stamp'[w])
    <2>1. CASE Serve(w)
      <3>1. Keeps(w) \/ Begins(w)
        BY <2>1, RequestOutcome DEF Serve, MutexInvariant
      <3>2. CASE Begins(w)
        BY <1>5, <1>6, <3>2 DEF Begins, HoldsMember
      <3>3. CASE Keeps(w)
        <4>1. Request(w) /\ u = t
          BY <2>1, <3>3 DEF Serve, Keeps
        <4>2. t = Idle
          BY <4>1 DEF Request, CreateNetwork, UpdateNetworkGet, DeleteNetworkGet, RegisterMember,
                      SetAuthorizationGet, UpdateMemberGet, DeleteMemberGet, ConfigGetNetwork, Begin
        <4> QED  BY <1>6, <4>1, <4>2, IdleTask
      <3> QED  BY <3>1, <3>2, <3>3
    <2>2. CASE SaveAuthorization(w)
      <3>1. u # Idle
        BY <1>6, IdleTask
      <3>2. ~ Finish(w)
        BY <3>1, Finishes DEF MutexInvariant
      <3>3. /\ DB!IsCurrent(members, t.k, t.member.revision)
            /\ \E pc \in {"bumpGet", "bumped"} : Goto(w, pc)
        BY <2>2, <3>2 DEF SaveAuthorization, SetAuthorizationSave
      <3>4. u.k = t.k /\ u.member = t.member
        BY <3>3, GoesOn DEF Keeping, MutexInvariant
      <3> QED  BY <1>5, <3>3, <3>4 DEF DB!IsCurrent
    <2>3. CASE Deauthorized(w)
      <3>1. u = Idle
        BY <2>3, Finishes DEF Deauthorized, SetAuthorizationReget, MutexInvariant
      <3> QED  BY <1>6, <3>1, IdleTask
    <2>4. CASE Proceed(w)
      <3>1. u # Idle
        BY <1>6, IdleTask
      <3>2. stamp'[w] = stamp[w]
        BY <2>4, <3>1 DEF Proceed
      <3>3. u.k = t.k /\ u.member = t.member /\ t.op = "setAuthorization" /\ t.pc # "save"
        <4>1. ~ Fail(w)
          BY <3>1, Finishes DEF Fail, MutexInvariant
        <4>2. CASE IpamLock(w)
          <5>1. u.op = "config"
            BY <4>2, GoesOn DEF IpamLock, At, Keeping, MutexInvariant
          <5> QED  BY <1>6, <5>1
        <4>3. CASE ~ At(w, "setAuthorization", "save") /\ Step(w)
          <5>1. t.op = "setAuthorization" => t.pc # "save"
            BY <4>3 DEF At
          <5>2. ~ Begins(w)
            BY <4>3
               DEF Step, UpdateNetworkSave, DeleteNetworkDelete, BumpGet, BumpSave, RegisterGet,
                   RegisterCreate, RegisterReget, SetAuthorizationSave, SetAuthorizationReget,
                   UpdateMemberSave, UpdateMemberReget, DeleteMemberDelete, ConfigUpsert,
                   IpamGet, IpamList, IpamSave, IpamReget, ConfigIssue, At, Begins
          <5> QED  BY <1>1, <1>6, <3>1, <5>1, <5>2
                   DEF Outcome, Keeps, Ends, Goes, Reads, Chooses, Saves, Creates, Deletes,
                       Keeping, Writes
        <4> QED  BY <2>4, <4>1, <4>2, <4>3 DEF Proceed
      <3> QED  BY <1>0, <3>2, <3>3 DEF RequestsSpare
    <2> QED  BY <2>1, <2>2, <2>3, <2>4
  <1>7. RequestsSpare(task', issued, stamp')
    <2> SUFFICES ASSUME NEW v \in Workers, task'[v].op = "setAuthorization", task'[v].pc # "save"
                 PROVE  Spares(issued, task'[v].k, task'[v].member.revision + 1, stamp'[v])
      BY DEF RequestsSpare
    <2>1. CASE v = w
      BY <1>6, <2>1
    <2>2. CASE v # w
      <3>1. task'[v] = task[v] /\ stamp'[v] = stamp[v]
        BY <1>1, <1>3, <2>2 DEF SameFor
      <3> QED  BY <1>0, <3>1 DEF RequestsSpare
    <2> QED  BY <2>1, <2>2
  <1> QED  BY <1>2, <1>3, <1>4, <1>7
(* Thresholds lie in the past, and every step keeps the COMs spared. *)
LEMMA ThresholdStep ==
    ASSUME NoDeletions, MutexInvariant, RowsInvariant, CopiesInvariant, ThresholdInvariant,
           [RevocationNext]_<<vars, runtime>>
    PROVE  ThresholdInvariant'
  <1> DEFINE AnnouncedSpare(as, coms, now) ==
                \A a \in as : /\ a.threshold \in Nat /\ a.threshold <= now
                              /\ Spares(coms, a.k, a.revision, a.threshold)
  <1>0. /\ clock \in Nat
        /\ stamp = [w \in Workers |-> stamp[w]]
        /\ \A w \in Workers : stamp[w] \in Nat /\ stamp[w] <= clock
        /\ IssuedFromRows(issued, members)
        /\ RequestsSpare(task, issued, stamp)
        /\ broadcast = [w \in Workers |-> broadcast[w]]
        /\ \A w \in Workers : BroadcastSpares(broadcast[w], issued, clock)
        /\ AnnouncedSpare(announced, issued, clock)
    BY DEF ThresholdInvariant, IssuedFromRows, RequestsSpare, BroadcastSpares
  <1>s. ASSUME /\ clock' \in Nat
               /\ stamp' = [w \in Workers |-> stamp'[w]]
               /\ \A w \in Workers : stamp'[w] \in Nat /\ stamp'[w] <= clock'
               /\ IssuedFromRows(issued', members')
               /\ RequestsSpare(task', issued', stamp')
               /\ broadcast' = [w \in Workers |-> broadcast'[w]]
               /\ \A w \in Workers : BroadcastSpares(broadcast'[w], issued', clock')
               /\ AnnouncedSpare(announced', issued', clock')
        PROVE  ThresholdInvariant'
    BY <1>s DEF ThresholdInvariant, IssuedFromRows, RequestsSpare, BroadcastSpares
  <1> HIDE DEF AnnouncedSpare
  <1>1. CASE UNCHANGED <<vars, runtime>>
    BY <1>0, <1>1, <1>s DEF vars, runtime
  \* A step that only replaces callbacks.
  <1>b. ASSUME UNCHANGED <<vars, clock, stamp, issued, announced>>,
               broadcast' = [w \in Workers |-> broadcast'[w]],
               \A w \in Workers : BroadcastSpares(broadcast'[w], issued, clock)
        PROVE  ThresholdInvariant'
    BY <1>0, <1>b, <1>s DEF vars
  <1>2. ASSUME NEW w \in Workers, Serve(w) \/ SaveAuthorization(w) \/ Proceed(w)
        PROVE  ThresholdInvariant'
    <2>1. UNCHANGED <<clock, broadcast, issued, announced>>
      BY <1>2 DEF Serve, SaveAuthorization, Proceed
    <2>2. /\ IssuedFromRows(issued, members')
          /\ RequestsSpare(task', issued, stamp')
          /\ stamp' = [v \in Workers |-> stamp'[v]]
          /\ \A v \in Workers : stamp'[v] \in Nat /\ stamp'[v] <= clock
      BY <1>2, RequestsKeepSparing
    <2> QED  BY <1>0, <1>s, <2>1, <2>2
  <1>3. ASSUME NEW w \in Workers, Deauthorized(w)
        PROVE  ThresholdInvariant'
    <2> DEFINE new == NewCOMRevocation(w)
    <2>1. /\ UNCHANGED <<clock, issued, announced>>
          /\ broadcast' = [broadcast EXCEPT ![w] = new] \/ broadcast' = broadcast
          /\ task[w].op = "setAuthorization" /\ task[w].pc # "save"
      BY <1>3 DEF Deauthorized, SetAuthorizationReget, At
    <2>2. /\ IssuedFromRows(issued, members')
          /\ RequestsSpare(task', issued, stamp')
          /\ stamp' = [v \in Workers |-> stamp'[v]]
          /\ \A v \in Workers : stamp'[v] \in Nat /\ stamp'[v] <= clock
      BY <1>3, RequestsKeepSparing
    <2>3. /\ IsCallback(new) /\ new.k = task[w].k /\ new.threshold = stamp[w]
          /\ new.revision = task[w].member.revision + 1
      BY DEF NewCOMRevocation, Threshold, IsCallback
    <2> HIDE DEF new
    <2>4. BroadcastSpares(new, issued, clock)
      BY <1>0, <2>1, <2>3 DEF BroadcastSpares, RequestsSpare
    <2>5. /\ broadcast' = [v \in Workers |-> broadcast'[v]]
          /\ \A v \in Workers : BroadcastSpares(broadcast'[v], issued, clock)
      BY <1>0, <2>1, <2>4
    <2> QED  BY <1>0, <1>s, <2>1, <2>2, <2>5
  <1>4. ASSUME NEW w \in Workers, IssueCOM(w)
        PROVE  ThresholdInvariant'
    <2> DEFINE t == task[w]
               c == [k |-> t.k, at |-> clock, revision |-> t.member.revision,
                     inFlight |-> w \in overtaken,
                     entitled |-> t.k \in DOMAIN members /\ members[t.k].doc.authorized]
    <2>1. /\ UNCHANGED <<clock, stamp, broadcast, announced>> /\ members' = members
          /\ issued' = issued \/ issued' = issued \cup {c}
          /\ HoldsMember(t)
      BY <1>4 DEF IssueCOM, ConfigIssue, tables, HoldsMember, At
    <2>2. c.k = t.k /\ c.at = clock /\ c.revision = t.member.revision
      OBVIOUS
    <2> HIDE DEF c
    <2>3. /\ t.k \in DOMAIN members /\ t.member.revision \in Nat
          /\ t.member.revision <= members[t.k].revision
      BY <2>1 DEF CopiesInvariant, IsCopy, RowsInvariant, IsRow
    <2>4. IssuedFromRows(issued', members')
      BY <1>0, <2>1, <2>2, <2>3 DEF IssuedFromRows
    <2>5. ASSUME NEW k, NEW r, NEW threshold \in Nat, threshold <= clock,
                 Spares(issued, k, r, threshold)
          PROVE  Spares(issued', k, r, threshold)
      BY <1>0, <2>1, <2>2, <2>5 DEF Spares
    <2>6. SameFor(task, task', w) /\ task'[w] = Idle
      <3>1. Finish(w)
        BY <1>4 DEF IssueCOM, ConfigIssue
      <3> QED  BY <3>1, Finishes DEF MutexInvariant
    <2>7. RequestsSpare(task', issued', stamp')
      <3> SUFFICES ASSUME NEW v \in Workers, task'[v].op = "setAuthorization", task'[v].pc # "save"
                   PROVE  Spares(issued', task'[v].k, task'[v].member.revision + 1, stamp[v])
        BY <2>1 DEF RequestsSpare
      <3>1. v # w
        BY <2>6, IdleTask
      <3>2. task'[v] = task[v]
        BY <2>6, <3>1 DEF SameFor
      <3> QED  BY <1>0, <2>5, <3>2 DEF RequestsSpare
    <2>8. \A v \in Workers : BroadcastSpares(broadcast[v], issued', clock)
      BY <1>0, <2>5 DEF BroadcastSpares
    <2>9. AnnouncedSpare(announced, issued', clock)
      BY <1>0, <2>5 DEF AnnouncedSpare
    <2> QED  BY <1>0, <1>s, <2>1, <2>4, <2>7, <2>8, <2>9
  <1>5. ASSUME NEW w \in Workers, NEW i,
               ListRecipients(w) \/ BroadcastFails(w) \/ BuildFor(w, i) \/ WriteTo(w, i)
        PROVE  ThresholdInvariant'
    <2> DEFINE b == broadcast[w]
    <2>1. UNCHANGED <<vars, clock, stamp, issued, announced>> /\ b # NoBroadcast
      BY <1>5 DEF ListRecipients, BroadcastFails, BuildFor, WriteTo, BroadcastOnly, InBroadcast
    <2>2. \/ broadcast' = [broadcast EXCEPT ![w] = NoBroadcast]
          \/ \E todo, out, due : broadcast' = [broadcast EXCEPT ![w] = Sending(b, todo, out, due)]
      <3>1. CASE ListRecipients(w)
        BY <3>1 DEF ListRecipients
      <3>2. CASE BuildFor(w, i)
        BY <3>2 DEF BuildFor
      <3>3. CASE WriteTo(w, i)
        <4> DEFINE due == IF udpOpen THEN b.due \ {i} ELSE b.due
        <4>1. broadcast' = [broadcast EXCEPT ![w] = Sending(b, {}, b.out \ {i}, due)]
          BY <3>3 DEF WriteTo
        <4> HIDE DEF due
        <4> QED  BY <4>1
      <3>4. CASE BroadcastFails(w)
        BY <3>4 DEF BroadcastFails
      <3> QED  BY <1>5, <3>1, <3>2, <3>3, <3>4
    <2>3. BroadcastSpares(b, issued, clock)
      BY <1>0
    <2>4. ASSUME NEW todo, NEW out, NEW due
          PROVE  BroadcastSpares(Sending(b, todo, out, due), issued, clock)
      BY <2>1, <2>3, SendingFields DEF BroadcastSpares
    <2>5. BroadcastSpares(NoBroadcast, issued, clock)
      BY DEF BroadcastSpares
    <2>6. PICK c : broadcast' = [broadcast EXCEPT ![w] = c] /\ BroadcastSpares(c, issued, clock)
      BY <2>2, <2>4, <2>5
    <2> QED  BY <1>0, <1>b, <2>1, <2>6
  <1>6. ASSUME NEW w \in Workers, Return(w)
        PROVE  ThresholdInvariant'
    <2> DEFINE b == broadcast[w]
               a == [k |-> b.k, threshold |-> b.threshold, revision |-> b.revision,
                     missed |-> b.due]
    <2>1. /\ UNCHANGED <<vars, clock, stamp, issued>> /\ b # NoBroadcast
          /\ broadcast' = [broadcast EXCEPT ![w] = NoBroadcast]
          /\ announced' = announced \cup {a}
      BY <1>6 DEF Return, BroadcastOnly, InBroadcast
    <2>2. a.k = b.k /\ a.threshold = b.threshold /\ a.revision = b.revision
      OBVIOUS
    <2> HIDE DEF a
    <2>3. BroadcastSpares(b, issued, clock) /\ BroadcastSpares(NoBroadcast, issued, clock)
      BY <1>0 DEF BroadcastSpares
    <2>4. AnnouncedSpare(announced', issued, clock)
      BY <1>0, <2>1, <2>2, <2>3 DEF AnnouncedSpare, BroadcastSpares
    <2>5. /\ broadcast' = [v \in Workers |-> broadcast'[v]]
          /\ \A v \in Workers : BroadcastSpares(broadcast'[v], issued, clock)
      BY <1>0, <2>1, <2>3
    <2> QED  BY <1>0, <1>s, <2>1, <2>4, <2>5 DEF vars
  <1>7. ASSUME NEW i, Connect(i)
        PROVE  ThresholdInvariant'
    BY <1>0, <1>7, <1>b DEF Connect
  <1>8. ASSUME NEW i, Disconnect(i)
        PROVE  ThresholdInvariant'
    <2>1. UNCHANGED <<vars, clock, stamp, issued, announced>>
      BY <1>8 DEF Disconnect
    <2>2. ASSUME NEW w \in Workers
          PROVE  BroadcastSpares(broadcast'[w], issued, clock)
      <3>1. CASE broadcast[w] = NoBroadcast
        BY <1>8, <3>1 DEF Disconnect, BroadcastSpares
      <3>2. CASE broadcast[w] # NoBroadcast
        <4> DEFINE b == broadcast[w]
                   c == [b EXCEPT !.due = b.due \ {i}]
        <4>1. broadcast'[w] = c
          BY <1>8, <3>2 DEF Disconnect
        <4>2. BroadcastSpares(b, issued, clock)
          BY <1>0
        <4>3. IsCallback(b)
          BY <3>2, <4>2 DEF BroadcastSpares
        <4>4. /\ IsCallback(c) /\ c.k = b.k /\ c.threshold = b.threshold
              /\ c.revision = b.revision
          BY <4>3, DropDue
        <4> HIDE DEF c
        <4> QED  BY <3>2, <4>1, <4>2, <4>4 DEF BroadcastSpares
      <3> QED  BY <3>1, <3>2
    <2>3. broadcast' = [w \in Workers |-> broadcast'[w]]
      BY <1>8 DEF Disconnect
    <2> QED  BY <1>b, <2>1, <2>2, <2>3
  <1>9. CASE Tick
    <2>1. UNCHANGED <<vars, stamp, issued, broadcast, announced>> /\ clock' = clock + 1
      BY <1>9 DEF Tick
    <2>2. /\ clock' \in Nat
          /\ stamp' = [w \in Workers |-> stamp'[w]]
          /\ \A w \in Workers : stamp'[w] \in Nat /\ stamp'[w] <= clock'
      BY <1>0, <2>1
    <2>3. \A w \in Workers : BroadcastSpares(broadcast[w], issued, clock')
      BY <1>0, <2>1 DEF BroadcastSpares
    <2>4. AnnouncedSpare(announced, issued, clock')
      BY <1>0, <2>1 DEF AnnouncedSpare
    <2>5. /\ IssuedFromRows(issued', members') /\ RequestsSpare(task', issued', stamp')
          /\ broadcast' = [w \in Workers |-> broadcast'[w]]
      BY <1>0, <2>1 DEF vars
    <2>6. /\ \A w \in Workers : BroadcastSpares(broadcast'[w], issued', clock')
          /\ AnnouncedSpare(announced', issued', clock')
      BY <2>1, <2>3, <2>4
    <2> QED  BY <1>s, <2>2, <2>5, <2>6
  <1>10. CASE CloseSocket
    BY <1>0, <1>10, <1>b DEF CloseSocket
  \* The request has not saved the transition it dates.
  <1>11. ASSUME NEW w \in Workers, ReadClock(w)
         PROVE  ThresholdInvariant'
    <2>1. /\ UNCHANGED <<vars, clock, issued, broadcast, announced>> /\ task[w].pc = "save"
          /\ stamp' = [stamp EXCEPT ![w] = clock]
      BY <1>11 DEF ReadClock, At
    <2>2. /\ stamp' = [v \in Workers |-> stamp'[v]]
          /\ \A v \in Workers : stamp'[v] \in Nat /\ stamp'[v] <= clock
      BY <1>0, <2>1
    <2>3. RequestsSpare(task, issued, stamp')
      BY <1>0, <2>1 DEF RequestsSpare
    <2> QED  BY <1>0, <1>s, <2>1, <2>2, <2>3 DEF vars
  <1> QED  BY <1>1, <1>2, <1>3, <1>4, <1>5, <1>6, <1>7, <1>8, <1>9, <1>10, <1>11
           DEF RevocationNext

(* While nothing is deleted, a revocation announced however late never     *)
(* hits a COM that was issued from a row saved after the transition, such  *)
(* as that of a member authorized again: its threshold is read before the  *)
(* transition is saved, and no COM of a later row can be issued before.    *)
THEOREM RevocationSpares ==
    ASSUME NoDeletions
    PROVE  RevocationSpec => []ReauthorizationHolds
  <1>1. RevocationInit => ThresholdInvariant
    BY IdleTask DEF RevocationInit, Init, ThresholdInvariant
  <1>2. /\ MutexInvariant /\ RowsInvariant /\ CopiesInvariant /\ ThresholdInvariant
        /\ [RevocationNext]_<<vars, runtime>>
        => ThresholdInvariant'
    BY ThresholdStep
  <1>3. ThresholdInvariant => ReauthorizationHolds
    BY DEF ThresholdInvariant, Spares, ReauthorizationHolds
  <1>4. RevocationSpec => []MutexInvariant /\ []RowsInvariant /\ []CopiesInvariant
    BY RevocationImplementsController, MutexInvariantHolds, RowsInvariantHolds,
       CopiesInvariantHolds, PTL
  <1> QED  BY <1>1, <1>2, <1>3, <1>4, PTL DEF RevocationSpec
-----------------------------------------------------------------------------
(* COMs for members that are not authorized. *)

\* What a configuration request has read of its member still allows a COM, unless a
\* deauthorization has overtaken it.
Entitled(t, table) == t.k \in DOMAIN table /\ table[t.k].doc.authorized

InFlightInvariant ==
    /\ UnentitledOnlyInFlight
    /\ \A w \in Workers : /\ task[w].op = "config" /\ HoldsMember(task[w])
                          /\ task[w].member.doc.authorized /\ w \notin overtaken
                          => Entitled(task[w], members)

(* A request that has no COM in flight begins with a row that is current,  *)
(* and only a deauthorization, which marks it, takes its permission away.  *)
LEMMA InFlightStep ==
    ASSUME NoDeletions, MutexInvariant, RowsInvariant, CopiesInvariant, InFlightInvariant,
           [RevocationNext]_<<vars, runtime>>
    PROVE  InFlightInvariant'
  <1> DEFINE Reader(t) == t.op = "config" /\ HoldsMember(t) /\ t.member.doc.authorized
  <1>0. /\ UnentitledOnlyInFlight
        /\ \A v \in Workers : Reader(task[v]) /\ v \notin overtaken => Entitled(task[v], members)
    BY DEF InFlightInvariant
  <1>s. ASSUME UnentitledOnlyInFlight',
               \A v \in Workers : Reader(task'[v]) /\ v \notin overtaken'
                                     => Entitled(task'[v], members')
        PROVE  InFlightInvariant'
    BY <1>s DEF InFlightInvariant
  <1> HIDE DEF Reader
  <1>1. ASSUME UNCHANGED vars, UNCHANGED <<issued, overtaken>>
        PROVE  InFlightInvariant'
    BY <1>1 DEF vars, InFlightInvariant, UnentitledOnlyInFlight
  <1>2. ASSUME NEW w \in Workers,
               Serve(w) \/ SaveAuthorization(w) \/ Deauthorized(w) \/ IssueCOM(w) \/ Proceed(w)
        PROVE  InFlightInvariant'
    <2> DEFINE t == task[w]
               u == task'[w]
    <2>1. AreTasks(task') /\ SameFor(task, task', w) /\ Outcome(w)
      BY <1>2, ServiceStep DEF MutexInvariant
    <2>2. /\ RowsAdvance
          /\ \A k \in DOMAIN members :
                members'[k].doc.authorized # members[k].doc.authorized =>
                   At(w, "setAuthorization", "save") /\ task[w].k = k /\ Saves(w)
      BY <2>1, RowsOnlyAdvance
    \* The COM that is issued, if one is.
    <2>3. UnentitledOnlyInFlight'
      <3>1. CASE issued' = issued
        BY <1>0, <3>1 DEF UnentitledOnlyInFlight
      <3>2. CASE IssueCOM(w) /\ issued' # issued
        <4> DEFINE c == [k |-> t.k, at |-> clock, revision |-> t.member.revision,
                         inFlight |-> w \in overtaken,
                         entitled |-> t.k \in DOMAIN members /\ members[t.k].doc.authorized]
        <4>1. issued' = issued \cup {c} /\ CanIssue(t, Listed(t.k[1])) /\ At(w, "config", "list")
          BY <3>2 DEF IssueCOM, ConfigIssue
        <4>2. Reader(t)
          BY <4>1 DEF CanIssue, Issuable, Reader, At, HoldsMember
        <4>3. w \in overtaken \/ Entitled(t, members)
          BY <1>0, <4>2
        <4>4. c.entitled \/ c.inFlight
          BY <4>3 DEF Entitled
        <4> HIDE DEF c
        <4> QED  BY <1>0, <4>1, <4>4 DEF UnentitledOnlyInFlight
      <3> QED  BY <1>2, <3>1, <3>2 DEF Serve, SaveAuthorization, Deauthorized, Proceed
    \* No request loses its mark while it lasts.
    <2>4. \A v \in Workers : v \in overtaken /\ (v # w \/ u # Idle) => v \in overtaken'
      <3>1. CASE IssueCOM(w)
        <4>1. u = Idle
          BY <3>1, Finishes DEF IssueCOM, ConfigIssue, MutexInvariant
        <4> QED  BY <3>1, <4>1 DEF IssueCOM
      <3>2. CASE ~ IssueCOM(w)
        BY <1>2, <3>2 DEF Serve, SaveAuthorization, Deauthorized, Proceed
      <3> QED  BY <3>1, <3>2
    \* A permission that was read stays, or the request is marked.
    <2>5. ASSUME NEW v \in Workers, Reader(task[v]), Entitled(task[v], members)
          PROVE  v \in overtaken' \/ Entitled(task[v], members')
      <3> DEFINE k == task[v].k
      <3>1. k \in DOMAIN members /\ k \in DOMAIN members' /\ members[k].doc.authorized
        BY <2>2, <2>5 DEF Entitled, RowsAdvance
      <3>2. CASE members'[k].doc.authorized = members[k].doc.authorized
        BY <3>1, <3>2 DEF Entitled
      <3>3. CASE At(w, "setAuthorization", "save") /\ task[w].k = k /\ Saves(w)
        <4>1. SaveAuthorization(w)
          <5>1. ~ Serve(w)
            <6>1. ASSUME Request(w) PROVE t = Idle
              BY <6>1 DEF Request, CreateNetwork, UpdateNetworkGet, DeleteNetworkGet,
                          RegisterMember, SetAuthorizationGet, UpdateMemberGet, DeleteMemberGet,
                          ConfigGetNetwork, Begin
            <6> QED  BY <3>3, <6>1, IdleTask DEF Serve, At
          <5>2. ~ Deauthorized(w) /\ ~ IssueCOM(w)
            BY <3>3 DEF Deauthorized, SetAuthorizationReget, IssueCOM, ConfigIssue, At
          <5>3. ~ Proceed(w)
            <6>1. ~ IpamLock(w)
              BY <3>3 DEF IpamLock, At
            <6>2. ~ Fail(w)
              <7>1. u = Idle /\ members' = members => ~ Saves(w)
                <8> DEFINE row == [revision |-> t.member.revision + 1, doc |-> t.doc]
                <8>1. Saves(w) => /\ members' = DB!Put(members, t.k, row)
                                  /\ t.k \in DOMAIN members
                                  /\ members[t.k].revision = t.member.revision
                  BY DEF Saves, DB!IsCurrent
                <8>2. row.revision = t.member.revision + 1
                  OBVIOUS
                <8> HIDE DEF row
                <8>3. Saves(w) => members'[t.k] = row
                  BY <8>1 DEF DB!Put
                <8>4. Saves(w) => members[t.k].revision \in Nat
                  BY <8>1 DEF RowsInvariant, IsRow
                <8> QED  BY <8>1, <8>2, <8>3, <8>4
              <7> QED  BY <3>3, <7>1, Finishes DEF Fail, tables, MutexInvariant
            <6> QED  BY <3>3, <6>1, <6>2 DEF Proceed
          <5> QED  BY <1>2, <5>1, <5>2, <5>3
        <4>2. members' # members => v \in overtaken' \/ task[w].doc.authorized
          BY <2>5, <3>3, <4>1 DEF SaveAuthorization, Reading, Reader, HoldsMember
        <4>3. members'[k].doc = task[w].doc
          <5> DEFINE row == [revision |-> t.member.revision + 1, doc |-> t.doc]
          <5>1. members' = DB!Put(members, k, row) /\ row.doc = t.doc
            BY <3>3 DEF Saves
          <5> HIDE DEF row
          <5>2. members'[k] = row
            BY <5>1 DEF DB!Put
          <5> QED  BY <5>1, <5>2
        <4> QED  BY <3>1, <4>2, <4>3 DEF Entitled
      <3> QED  BY <2>2, <3>1, <3>2, <3>3
    <2>6. ASSUME NEW v \in Workers, Reader(task'[v]), v \notin overtaken'
          PROVE  Entitled(task'[v], members')
      <3>1. CASE Reader(task[v]) /\ task'[v].k = task[v].k /\ (v # w \/ u # Idle)
        <4>1. v \notin overtaken
          BY <2>4, <2>6, <3>1
        <4>2. Entitled(task'[v], members') <=> Entitled(task[v], members')
          BY <3>1 DEF Entitled
        <4> QED  BY <1>0, <2>5, <2>6, <3>1, <4>1, <4>2
      <3>2. CASE v # w
        BY <2>1, <2>6, <3>1, <3>2 DEF SameFor
      <3>3. CASE v = w
        <4>1. u # Idle
          BY <2>6, <3>3, IdleTask DEF Reader
        <4>2. CASE u.k \in DOMAIN members /\ u.member = members[u.k] /\ members' = members
          BY <2>6, <3>3, <4>2 DEF Reader, Entitled
        <4>3. CASE HoldsMember(t) /\ u.op = t.op /\ u.k = t.k /\ u.member = t.member
          BY <2>6, <3>1, <3>3, <4>1, <4>3 DEF Reader
        <4> QED  BY <2>1, <2>6, <3>3, <4>1, <4>2, <4>3
                 DEF Outcome, Keeps, Ends, Begins, Goes, Reads, Chooses, Saves, Creates, Deletes,
                     Keeping, Writes, HoldsMember, Reader
      <3> QED  BY <3>2, <3>3
    <2> QED  BY <1>s, <2>3, <2>6
  <1>3. CASE UNCHANGED <<vars, runtime>>
    BY <1>1, <1>3 DEF runtime
  <1>4. ASSUME NEW w \in Workers, NEW i,
               \/ ReadClock(w) \/ ListRecipients(w) \/ BroadcastFails(w) \/ Return(w)
               \/ BuildFor(w, i) \/ WriteTo(w, i)
        PROVE  InFlightInvariant'
    BY <1>1, <1>4 DEF ReadClock, ListRecipients, BroadcastFails, Return, BuildFor, WriteTo,
                      BroadcastOnly
  <1>5. ASSUME NEW i, Connect(i) \/ Disconnect(i) \/ Tick \/ CloseSocket
        PROVE  InFlightInvariant'
    BY <1>1, <1>5 DEF Connect, Disconnect, Tick, CloseSocket
  <1> QED  BY <1>2, <1>3, <1>4, <1>5 DEF RevocationNext

(* While nothing is deleted, no request that reads its member after the    *)
(* deauthorization was saved obtains a COM: one that is issued to a member *)
(* without authorization was in flight when the transition overtook it.    *)
THEOREM NoNewCOMAfterRevocation ==
    ASSUME NoDeletions
    PROVE  RevocationSpec => []UnentitledOnlyInFlight
  <1>1. RevocationInit => InFlightInvariant
    BY IdleTask DEF RevocationInit, Init, InFlightInvariant, UnentitledOnlyInFlight
  <1>2. /\ MutexInvariant /\ RowsInvariant /\ CopiesInvariant /\ InFlightInvariant
        /\ [RevocationNext]_<<vars, runtime>>
        => InFlightInvariant'
    BY InFlightStep
  <1>3. InFlightInvariant => UnentitledOnlyInFlight
    BY DEF InFlightInvariant
  <1>4. RevocationSpec => []MutexInvariant /\ []RowsInvariant /\ []CopiesInvariant
    BY RevocationImplementsController, MutexInvariantHolds, RowsInvariantHolds,
       CopiesInvariantHolds, PTL
  <1> QED  BY <1>1, <1>2, <1>3, <1>4, PTL DEF RevocationSpec
=============================================================================
