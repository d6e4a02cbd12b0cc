------------------------ MODULE GraphProvenanceProofs ------------------------
(***************************************************************************)
(* Proofs about GraphProvenance, for any corpus, any number of builds and  *)
(* any interleaving of them: what a build upserts of its chunks, and what  *)
(* becomes of it in the graph.  With Extraction, for any replies and       *)
(* metadata: all of that is grounded in the chunks it is recorded for.     *)
(***************************************************************************)
EXTENDS Extraction, FiniteSetTheorems, WellFoundedInduction, TLAPS

Provenance == [chunk_id : Seq(Chunks), document_id : Seq(DOMAIN Wikilinks)]

\* What each row guarantees by itself.
RowOK(row) ==
    /\ row \in Row
    /\ row.provenance.chunk_id # << >> /\ IsInjective(row.provenance.chunk_id)
    /\ row.provenance.document_id # << >> /\ IsInjective(row.provenance.document_id)
    /\ Range(row.provenance.document_id) = {Doc(c) : c \in Range(row.provenance.chunk_id)}

RowsInv ==
    \A k \in DOMAIN graph :
        /\ graph[k] \in Seq(Row) /\ graph[k] # << >>
        /\ k[1] # "hyperedge" => Len(graph[k]) = 1
        /\ \A i \in DOMAIN graph[k] : RowOK(graph[k][i])

\* A build that is about to update has read a row of the key.
BuildInv ==
    \A b \in Builds : build[b] # None /\ build[b].step = "update" =>
        /\ build[b].todo # << >>
        /\ Current(b).key \in DOMAIN graph
        /\ build[b].at \in DOMAIN graph[Current(b).key]
        /\ RowOK(build[b].row)

\* U: the chunks upserted, C: the chunks recorded.  While C is a scalar it is
\* all there was; the second chunk makes it a list.
Early(U, C) ==
    /\ U[1] \in Range(C)
    /\ Len(U) >= 2 => U[2] \in Range(C)
    /\ Range(C) \subseteq Range(U)
    /\ Len(C) = 1 => Range(U) = Range(C)

HistoryInv ==
    \A k \in DOMAIN upserted :
        upserted[k] \in Seq(Chunks) /\ upserted[k] # << >> /\ IsInjective(upserted[k])

EarlyInv ==
    \A k \in DOMAIN graph \ raced :
        /\ Len(graph[k]) = 1
        /\ Early(upserted[k], graph[k][1].provenance.chunk_id)

Typed ==
    /\ approved \subseteq Chunks
    /\ build \in [Builds -> Build \cup {None}]
    /\ started \in 0..MaxBuilds
    /\ DOMAIN upserted = DOMAIN graph
    /\ raced \subseteq DOMAIN graph
    /\ built \subseteq Chunks

\* What a build has not upserted yet it has still to do.
PlanInv ==
    \A b \in Builds : build[b] # None =>
        \A u \in Range(build_from_chunks(build[b].list)) :
            u \in Range(build[b].todo) \/ u.key \in DOMAIN graph

LinkKey(c, t) == Edge(Title(Doc(c)), Title(t), "LINKS_TO")

\* The candidates of chunk c have a row of key k.
Supports(c, k) ==
    \/ /\ k[1] = "entity"
       /\ \/ k \in {Title(t) : t \in {Doc(c)} \cup Range(Wikilinks[Doc(c)])}
          \/ \E e \in Range(Corpus[c].entities) :
                /\ k[2] = e.name /\ k[3] = e.type
                /\ \A f \in Range(Corpus[c].entities) :
                     f.name = e.name => f.confidence <= e.confidence
    \/ /\ k[1] = "edge"
       /\ \/ \E r \in Range(Corpus[c].relationships) :
                << r.source, r.target, r.type >> = << k[2][2], k[3][2], k[4] >>
          \/ \E t \in Range(Wikilinks[Doc(c)]) : k = LinkKey(c, t)
    \/ /\ k[1] = "hyperedge"
       /\ \E h \in Range(Corpus[c].hyperedges) :
            k[3] = h.type /\ {m[2] : m \in k[2]} \subseteq Range(h.names)

\* Each chunk that a row of key k records has that row among its candidates, and
\* so has each that a build has read.
Grounded(row, k) == \A c \in Range(row.provenance.chunk_id) : Supports(c, k)

GroundedInv ==
    /\ \A k \in DOMAIN graph : \A i \in DOMAIN graph[k] : Grounded(graph[k][i], k)
    /\ \A b \in Builds : build[b] # None /\ build[b].step = "update" =>
          Grounded(build[b].row, Current(b).key)

IInv == Typed /\ RowsInv /\ BuildInv /\ HistoryInv /\ EarlyInv

-----------------------------------------------------------------------------
(* Positions in sequences.                                                 *)

\* A set of numbers that is not empty has a least one: the library's
\* well-founded order of finite sets, applied to the intervals up to each.
LEMMA LeastNat ==
  ASSUME NEW T \in SUBSET Nat, T # {}
  PROVE  \E m \in T : \A n \in T : m <= n
<1> DEFINE R == StrictSubsetOrdering(Nat)
           U == {0..n : n \in T}
<1>1. IsWellFoundedOn(R, FiniteSubsetsOf(Nat))
  BY FS_StrictSubsetOrderingWellFounded, Zenon
<1>2. U \subseteq FiniteSubsetsOf(Nat) /\ U # {}
  <2>1. ASSUME NEW n \in T PROVE 0..n \in FiniteSubsetsOf(Nat)
    <3>1. 0 \in Int /\ n \in Int
      OBVIOUS
    <3>2. IsFiniteSet(0..n)
      BY <3>1, FS_Interval, Zenon
    <3>3. 0..n \subseteq Nat
      OBVIOUS
    <3> QED
      BY <3>2, <3>3 DEF FiniteSubsetsOf
  <2> QED
    BY <2>1
<1>3. \E X \in U : \A Y \in U : ~ (<<Y, X>> \in R)
  <2> HIDE DEF R, U
  <2> QED BY <1>1, <1>2, WFMin, Zenon
<1>4. PICK m \in T : \A n \in T : ~ (<<0..n, 0..m>> \in R)
  BY <1>3
<1>5. ASSUME NEW n \in T, n < m PROVE FALSE
  <2>1. 0..n \subseteq 0..m /\ m \in 0..m /\ m \notin 0..n
    BY <1>5
  <2>2. 0..n \in SUBSET Nat /\ 0..m \in SUBSET Nat
    OBVIOUS
  <2>3. 0..n # 0..m
    BY <2>1
  <2>4. <<0..n, 0..m>> \in R
    BY <2>1, <2>2, <2>3, Zenon DEF StrictSubsetOrdering
  <2> QED
    BY <2>4, <1>4
<1> QED
  BY <1>5

\* ... and one below a bound a greatest.
LEMMA GreatestNat ==
  ASSUME NEW b \in Nat, NEW T \in SUBSET (1..b), T # {}
  PROVE  Max(T) \in T
<1> DEFINE D == {b - n : n \in T}
<1>1. D \in SUBSET Nat /\ D # {}
  <2>1. \A n \in T : b - n \in Nat
    OBVIOUS
  <2> QED
    BY <2>1
<1>2. \E m \in D : \A n \in D : m <= n
  <2> HIDE DEF D
  <2> QED
    BY <1>1, LeastNat
<1>3. PICK x \in T : \A y \in T : b - x <= b - y
  BY <1>2
<1>4. \A y \in T : x >= y
  BY <1>3
<1> QED
  BY <1>4, Zenon DEF Max

\* A finite set of positions has a first and a last one.
LEMMA Ends ==
  ASSUME NEW m \in Nat, NEW P \in SUBSET (1..m), P # {}
  PROVE  /\ Max(P) \in P /\ \A i \in P : i <= Max(P)
         /\ Min(P) \in P /\ \A i \in P : Min(P) <= i
<1>1. PICK i \in P : \A j \in P : i <= j
  <2>1. P \in SUBSET Nat
    OBVIOUS
  <2> QED
    BY <2>1, LeastNat
<1>2. DEFINE D == {m - x : x \in P}
<1>3. \A x \in P : m - x \in Nat
  OBVIOUS
<1>4. PICK d \in D : \A e \in D : d <= e
  <2>1. D \in SUBSET Nat /\ D # {}
    BY <1>3
  <2> HIDE DEF D
  <2> QED
    BY <2>1, LeastNat
<1>5. PICK k \in P : \A j \in P : m - k <= m - j
  BY <1>4
<1>6. \A j \in P : k >= j
  BY <1>5
<1> QED
  BY <1>1, <1>6, Zenon DEF Max, Min

\* The CHOOSE of Selected is met by one position for each number up to their
\* count: the position with as many up to it.
LEMMA EveryNth ==
  ASSUME NEW m \in Nat, NEW P \in SUBSET (1..m)
  PROVE  LET UpTo(i) == {j \in P : j <= i}
         IN  /\ Cardinality(P) \in Nat
             /\ \A i \in P : Cardinality(UpTo(i)) \in 1..Cardinality(P)
             /\ \A i, j \in P : Cardinality(UpTo(i)) = Cardinality(UpTo(j)) => i = j
             /\ \A n \in 1..Cardinality(P) : \E i \in P : Cardinality(UpTo(i)) = n
<1> DEFINE UpTo(i) == {j \in P : j <= i}
<1>1. /\ IsFiniteSet(P) /\ Cardinality(P) \in Nat
      /\ \A S \in SUBSET P : IsFiniteSet(S) /\ Cardinality(S) \in Nat
                             /\ Cardinality(S) <= Cardinality(P)
  <2>1. IsFiniteSet(1..m)
    BY FS_Interval
  <2>2. IsFiniteSet(P)
    BY <2>1, FS_Subset, Zenon
  <2> QED
    BY <2>2, FS_Subset, FS_CardinalityType, Zenon
<1>2. ASSUME NEW i \in P
      PROVE  LET before == {j \in P : j < i}
             IN  /\ UpTo(i) \in SUBSET P /\ before \in SUBSET P
                 /\ Cardinality(UpTo(i)) = Cardinality(before) + 1
  <2> DEFINE before == {j \in P : j < i}
  <2>1. \A j \in P : (j <= i <=> j < i \/ j = i) /\ ~ (i < i)
    OBVIOUS
  <2>2. UpTo(i) = before \cup {i} /\ i \notin before /\ before \in SUBSET P
    BY <2>1
  <2>3. IsFiniteSet(before)
    BY <1>1, <2>2
  <2>4. Cardinality(before \cup {i}) = Cardinality(before) + 1
    <3> HIDE DEF before
    <3> QED
      BY <2>2, <2>3, FS_AddElement
  <2> QED
    BY <2>2, <2>4
<1>3. \A i \in P : Cardinality(UpTo(i)) \in 1..Cardinality(P)
  <2> SUFFICES ASSUME NEW i \in P PROVE Cardinality(UpTo(i)) \in 1..Cardinality(P)
    OBVIOUS
  <2> DEFINE before == {j \in P : j < i}
  <2>1. /\ Cardinality(UpTo(i)) = Cardinality(before) + 1
        /\ Cardinality(before) \in Nat
        /\ Cardinality(UpTo(i)) <= Cardinality(P)
    BY <1>1, <1>2
  <2> HIDE DEF UpTo, before
  <2> QED
    BY <1>1, <2>1
<1>4. ASSUME NEW i \in P, NEW j \in P, i < j
      PROVE  Cardinality(UpTo(i)) # Cardinality(UpTo(j))
  <2> DEFINE before == {k \in P : k < j}
  <2>1. \A k \in P : k <= i => k < j
    BY <1>4
  <2>0. UpTo(i) \in SUBSET before /\ before \in SUBSET P
    BY <2>1
  <2>2. Cardinality(UpTo(i)) <= Cardinality(before)
    <3>1. IsFiniteSet(before)
      BY <1>1, <2>0
    <3> HIDE DEF before, UpTo
    <3> QED
      BY <2>0, <3>1, FS_Subset
  <2>3. /\ Cardinality(UpTo(j)) = Cardinality(before) + 1
        /\ Cardinality(before) \in Nat /\ Cardinality(UpTo(i)) \in Nat
    BY <1>1, <1>2, <2>0
  <2> HIDE DEF UpTo, before
  <2> QED
    BY <2>2, <2>3
<1>5. ASSUME NEW n \in 1..Cardinality(P) PROVE \E i \in P : Cardinality(UpTo(i)) = n
  <2> DEFINE T == {i \in P : Cardinality(UpTo(i)) >= n}
  <2>1. ASSUME NEW S \in SUBSET P, S # {}, \A i \in S, j \in P : j <= i => j \in S,
               Cardinality(S) >= n
        PROVE  Max(S) \in T /\ Max(S) \in S
    <3>1. Max(S) \in S /\ \A i \in S : i <= Max(S)
      BY <2>1, Ends
    <3>2. UpTo(Max(S)) = S
      BY <2>1, <3>1
    <3> QED
      BY <2>1, <3>1, <3>2
  <2>2. P # {} /\ Cardinality(P) >= n
    BY <1>1, FS_EmptySet
  <2>3. T # {}
    BY <2>1, <2>2
  <2>4. Min(T) \in T /\ \A i \in T : Min(T) <= i
    <3>1. T \in SUBSET (1..m)
      OBVIOUS
    <3> HIDE DEF T
    <3> QED
      BY <2>3, <3>1, Ends
  <2> DEFINE i      == Min(T)
             before == {j \in P : j < i}
  <2>5. /\ i \in P /\ Cardinality(UpTo(i)) = Cardinality(before) + 1
        /\ Cardinality(before) \in Nat /\ before \in SUBSET P
        /\ Cardinality(UpTo(i)) >= n
    BY <1>1, <1>2, <2>4
  <2>6. ASSUME Cardinality(before) >= n PROVE FALSE
    <3>1. before # {}
      <4>1. Cardinality(before) # 0
        BY <2>5, <2>6
      <4> HIDE DEF before
      <4> QED
        BY <4>1, FS_EmptySet
    <3>2. \A k \in before, j \in P : j <= k => j \in before
      <4> HIDE DEF i
      <4>1. \A k, j \in P : k < i /\ j <= k => j < i
        BY <2>5
      <4> QED
        BY <4>1
    <3>3. Max(before) \in T /\ Max(before) \in before
      <4> HIDE DEF before, T
      <4> QED
        BY <2>1, <2>5, <2>6, <3>1, <3>2
    <3>4. PICK b \in before : b \in T
      BY <3>3
    <3>5. i <= b
      BY <2>4, <3>4
    <3>6. b < i /\ b \in P /\ i \in P
      BY <2>5, <3>4
    <3> HIDE DEF i
    <3> QED
      BY <3>5, <3>6
  <2>7. Cardinality(UpTo(i)) = n
    <3> HIDE DEF UpTo, before, i
    <3> QED
      BY <2>5, <2>6
  <2> QED
    BY <2>5, <2>7
<1>6. \A i, j \in P : Cardinality(UpTo(i)) = Cardinality(UpTo(j)) => i = j
  <2>1. \A i, j \in P : i < j \/ j < i \/ i = j
    OBVIOUS
  <2> HIDE DEF UpTo
  <2> QED
    BY <1>4, <2>1
<1> QED
  BY <1>1, <1>3, <1>5, <1>6

-----------------------------------------------------------------------------
(* Sequences and their ranges.                                             *)

\* To be a sequence is to have positions 1..n.
LEMMA SequenceIs ==
  /\ \A s : IsSequence(s) => /\ Len(s) \in Nat /\ DOMAIN s = 1..Len(s)
                             /\ \A i \in DOMAIN s : s[i] \in Range(s)
  /\ \A s, S : s \in Seq(S) => IsSequence(s) /\ Range(s) \subseteq S
  /\ \A s, S : IsSequence(s) /\ Range(s) \subseteq S => s \in Seq(S)
<1>1. \A s : IsSequence(s) => /\ Len(s) \in Nat /\ DOMAIN s = 1..Len(s)
                             /\ \A i \in DOMAIN s : s[i] \in Range(s)
  BY DEF IsSequence, Range
<1>2. ASSUME NEW S, NEW s \in Seq(S) PROVE IsSequence(s) /\ Range(s) \subseteq S
  <2>1. Len(s) \in Nat /\ DOMAIN s = 1..Len(s) /\ s = [i \in 1..Len(s) |-> s[i]]
        /\ \A i \in 1..Len(s) : s[i] \in S /\ s[i] \in Range(s)
    BY DEF Range
  <2> QED
    BY <2>1 DEF IsSequence, Range
<1>3. ASSUME NEW S, NEW s, IsSequence(s), Range(s) \subseteq S PROVE s \in Seq(S)
  BY <1>3 DEF IsSequence
<1> QED
  BY <1>1, <1>2, <1>3

\* Both sequences are in their concatenation, and nothing else.
LEMMA ConcatIs ==
  ASSUME NEW s, IsSequence(s), NEW t, IsSequence(t)
  PROVE  IsSequence(s \o t) /\ Range(s \o t) = Range(s) \cup Range(t)
<1> DEFINE S == Range(s) \cup Range(t)
<1>1. s \in Seq(S) /\ t \in Seq(S)
  BY SequenceIs
<1>2. /\ s \o t \in Seq(S) /\ Len(s \o t) = Len(s) + Len(t) /\ Len(s) \in Nat /\ Len(t) \in Nat
      /\ \A i \in 1..Len(s) : (s \o t)[i] = s[i]
      /\ \A i \in 1..Len(t) : (s \o t)[Len(s) + i] = t[i]
  <2> HIDE DEF S
  <2> QED
    BY <1>1
<1>3. DOMAIN s = 1..Len(s) /\ DOMAIN t = 1..Len(t) /\ DOMAIN (s \o t) = 1..(Len(s) + Len(t))
  BY <1>2, SequenceIs
<1>4. S \subseteq Range(s \o t)
  <2>1. \A i \in 1..Len(s) : i \in DOMAIN (s \o t)
    BY <1>2, <1>3
  <2>2. \A i \in 1..Len(t) : Len(s) + i \in DOMAIN (s \o t)
    BY <1>2, <1>3
  <2> QED
    BY <1>2, <1>3, <2>1, <2>2 DEF Range
<1>5. IsSequence(s \o t) /\ Range(s \o t) \subseteq S
  BY <1>2, SequenceIs
<1> QED
  BY <1>4, <1>5

\* Selected keeps the elements at the positions, and nothing else.
LEMMA SelectedIs ==
  ASSUME NEW s, IsSequence(s), NEW P \in SUBSET DOMAIN s
  PROVE  IsSequence(Selected(s, P)) /\ Range(Selected(s, P)) = {s[i] : i \in P}
<1> DEFINE UpTo(i) == {j \in P : j <= i}
           nth(n)  == CHOOSE i \in P : Cardinality({j \in P : j <= i}) = n
           N       == Cardinality(P)
<1>1. Len(s) \in Nat /\ P \in SUBSET (1..Len(s))
  BY SequenceIs
<1>2. /\ N \in Nat
      /\ \A i \in P : Cardinality(UpTo(i)) \in 1..N
      /\ \A i, j \in P : Cardinality(UpTo(i)) = Cardinality(UpTo(j)) => i = j
      /\ \A n \in 1..N : \E i \in P : Cardinality(UpTo(i)) = n
  BY <1>1, EveryNth
<1>3. \A n \in 1..N : nth(n) \in P /\ Cardinality(UpTo(nth(n))) = n
  BY <1>2
<1>4. \A i \in P : nth(Cardinality(UpTo(i))) = i
  BY <1>2, <1>3
<1>5. Selected(s, P) = [n \in 1..N |-> s[nth(n)]]
  BY DEF Selected
<1> HIDE DEF UpTo, nth, N
<1>6. \A n \in 1..N : s[nth(n)] \in {s[i] : i \in P}
  BY <1>3
<1>7. Selected(s, P) \in Seq({s[i] : i \in P})
  BY <1>2, <1>5, <1>6
<1>8. \A i \in P : s[i] \in Range(Selected(s, P))
  <2>1. \A i \in P : Selected(s, P)[Cardinality(UpTo(i))] = s[i]
    BY <1>2, <1>4, <1>5
  <2>2. DOMAIN Selected(s, P) = 1..N
    BY <1>5
  <2> QED
    BY <1>2, <2>1, <2>2 DEF Range
<1> QED
  BY <1>7, <1>8, SequenceIs

\* The concatenation of the first sequences of s, by recursion as in FlattenSeq.
IsFlat(g, s, n) == g = [i \in 1..n |-> IF i = 1 THEN s[i] ELSE g[i-1] \o s[i]]

\* Such a function exists: no number of sequences is the first without one.
LEMMA FlatExists == ASSUME NEW s, NEW n \in Nat PROVE \E g : IsFlat(g, s, n)
<1> DEFINE T == {m \in Nat : ~ \E g : IsFlat(g, s, m)}
<1> SUFFICES ASSUME T # {} PROVE FALSE
  OBVIOUS
<1>1. PICK m \in T : \A k \in T : m <= k
  <2>1. T \in SUBSET Nat
    OBVIOUS
  <2> HIDE DEF T
  <2> QED
    BY <2>1, LeastNat
<1>2. m # 0
  <2>1. IsFlat(<< >>, s, 0)
    BY DEF IsFlat
  <2> QED
    BY <1>1, <2>1
<1>3. m - 1 \in Nat /\ m - 1 \notin T
  BY <1>1, <1>2
<1>4. PICK g : IsFlat(g, s, m - 1)
  BY <1>3
<1> DEFINE h == [i \in 1..m |-> IF i = 1 THEN s[i] ELSE g[i-1] \o s[i]]
<1>5. m \in Nat \ {0}
  BY <1>1, <1>2
<1>6. \A i \in 1..(m - 1) : g[i] = IF i = 1 THEN s[i] ELSE g[i-1] \o s[i]
  BY <1>4 DEF IsFlat
<1>7. \A i \in 1..m : h[i] = IF i = 1 THEN s[i] ELSE g[i-1] \o s[i]
  OBVIOUS
<1>8. \A i \in 1..m : i # 1 => i - 1 \in 1..(m - 1) /\ i - 1 \in 1..m
  BY <1>5
<1>9. \A i \in 1..(m - 1) : i \in 1..m
  BY <1>5
<1>10. IsFlat(h, s, m)
  <2> HIDE DEF h
  <2>1. \A i \in 1..(m - 1) : h[i] = g[i]
    BY <1>6, <1>7, <1>9
  <2>2. \A i \in 1..m : i # 1 => g[i - 1] = h[i - 1]
    BY <1>8, <2>1
  <2>3. [i \in 1..m |-> IF i = 1 THEN s[i] ELSE g[i-1] \o s[i]]
          = [i \in 1..m |-> IF i = 1 THEN s[i] ELSE h[i-1] \o s[i]]
    BY <2>2
  <2> QED
    BY <2>3 DEF IsFlat, h
<1> QED
  BY <1>1, <1>10

\* FlattenSeq is its last value.
LEMMA FlattenIs ==
  ASSUME NEW s, Len(s) \in Nat, Len(s) # 0
  PROVE  \E g : IsFlat(g, s, Len(s)) /\ FlattenSeq(s) = g[Len(s)]
<1> DEFINE F == CHOOSE g : g = [i \in 1..Len(s) |-> IF i = 1 THEN s[i] ELSE g[i-1] \o s[i]]
<1>1. FlattenSeq(s) = F[Len(s)]
  BY DEF FlattenSeq
<1>2. F = [i \in 1..Len(s) |-> IF i = 1 THEN s[i] ELSE F[i-1] \o s[i]]
  BY FlatExists DEF IsFlat
<1> QED
  BY <1>1, <1>2 DEF IsFlat


\* FlattenSeq holds what the sequences hold, and nothing else.
LEMMA FlattenRange ==
  ASSUME NEW s, IsSequence(s), \A i \in DOMAIN s : IsSequence(s[i])
  PROVE  /\ IsSequence(FlattenSeq(s))
         /\ Range(FlattenSeq(s)) = UNION {Range(s[i]) : i \in DOMAIN s}
<1> DEFINE n == Len(s)
           Below(i) == UNION {Range(s[j]) : j \in 1..i}
<1>1. n \in Nat /\ DOMAIN s = 1..n
  BY SequenceIs
<1>2. CASE n = 0
  <2>1. FlattenSeq(s) = s
    BY <1>2 DEF FlattenSeq
  <2> QED
    BY <1>1, <1>2, <2>1 DEF Range
<1>3. CASE n # 0
  <2>1. PICK g : IsFlat(g, s, n) /\ FlattenSeq(s) = g[n]
    BY <1>1, <1>3, FlattenIs
  <2>2. \A i \in 1..n : g[i] = IF i = 1 THEN s[i] ELSE g[i-1] \o s[i]
    BY <2>1 DEF IsFlat
  <2> DEFINE OK(i) == IsSequence(g[i]) /\ Range(g[i]) = Below(i)
             T     == {i \in 1..n : ~ OK(i)}
  <2>3. ASSUME T # {} PROVE FALSE
    <3>1. PICK i \in T : \A j \in T : i <= j
      <4>1. T \in SUBSET Nat
        OBVIOUS
      <4> HIDE DEF T
      <4> QED
        BY <2>3, <4>1, LeastNat
    <3>2. CASE i = 1
      <4>1. Below(1) = Range(s[1])
        <5>1. 1..1 = {1}
          OBVIOUS
        <5> QED
          BY <5>1
      <4> QED
        BY <1>1, <2>2, <3>1, <3>2, <4>1
    <3>3. CASE i # 1
      <4>1. i \in 1..n /\ i - 1 \in 1..n /\ OK(i - 1)
        <5>1. i \in 1..n
          BY <3>1
        <5>2. i - 1 \in 1..n /\ ~ (i <= i - 1)
          BY <1>1, <3>3, <5>1
        <5>3. i - 1 \notin T
          BY <3>1, <5>2
        <5> QED
          BY <5>1, <5>2, <5>3
      <4>2. g[i] = g[i - 1] \o s[i]
        BY <2>2, <3>3, <4>1
      <4>3. IsSequence(g[i]) /\ Range(g[i]) = Below(i - 1) \cup Range(s[i])
        <5> HIDE DEF Below
        <5> QED
          BY <1>1, <4>1, <4>2, ConcatIs
      <4>4. Below(i) = Below(i - 1) \cup Range(s[i])
        <5>1. 1..i = 1..(i - 1) \cup {i}
          BY <4>1
        <5> QED
          BY <5>1
      <4> QED
        BY <3>1, <4>3, <4>4
    <3> QED
      BY <3>2, <3>3
  <2> HIDE DEF Below
  <2>4. n \in 1..n
    BY <1>1, <1>3
  <2>5. OK(n)
    BY <2>3, <2>4
  <2> QED
    BY <1>1, <2>1, <2>5 DEF Below
<1> QED
  BY <1>2, <1>3

-----------------------------------------------------------------------------
(* What a build upserts.                                                   *)

\* Upserts are of chunks of the corpus, of what their candidates have, with
\* confidences in range.
Planned(us) ==
    /\ IsSequence(us)
    /\ \A u \in Range(us) :
         u.chunk \in Chunks /\ u.confidence \in 0..Full /\ Supports(u.chunk, u.key)

\* EntityMerger keeps candidates, and of each name one of the most confident.
LEMMA MergeIs ==
  ASSUME NEW cs, IsSequence(cs), \A x \in Range(cs) : x.confidence \in 0..Full
  PROVE  /\ IsSequence(merge(cs)) /\ Range(merge(cs)) \subseteq Range(cs)
         /\ \A x \in Range(cs) : \E y \in Range(merge(cs)) : y.name = x.name
         /\ \A y \in Range(merge(cs)), x \in Range(cs) :
              x.name = y.name => x.confidence <= y.confidence
<1> DEFINE group(i) == {j \in DOMAIN cs : cs[j].name = cs[i].name}
           best(i)  == {k \in group(i) :
                          \A j \in group(i) : cs[j].confidence <= cs[k].confidence}
           firsts   == {i \in DOMAIN cs : i = Min(group(i))}
           d        == [i \in DOMAIN cs |-> Dominant(cs, group(i))]
<1>1. /\ Len(cs) \in Nat /\ DOMAIN cs = 1..Len(cs)
      /\ \A i \in DOMAIN cs : cs[i] \in Range(cs) /\ cs[i].confidence \in 0..Full
  BY SequenceIs
<1>2. ASSUME NEW i \in DOMAIN cs PROVE best(i) # {}
  <2> DEFINE D == {Full - cs[j].confidence : j \in group(i)}
  <2>1. \A j \in group(i) : cs[j].confidence \in 0..Full /\ Full - cs[j].confidence \in Nat
    BY <1>1, CorpusAssumption
  <2>2. i \in group(i)
    OBVIOUS
  <2>3. PICK x \in D : \A y \in D : x <= y
    <3>1. D \in SUBSET Nat /\ D # {}
      BY <2>1, <2>2
    <3> HIDE DEF D
    <3> QED
      BY <3>1, LeastNat
  <2>4. PICK k \in group(i) :
          \A j \in group(i) : Full - cs[k].confidence <= Full - cs[j].confidence
    BY <2>3
  <2>5. \A j \in group(i) : cs[j].confidence <= cs[k].confidence
    <3> HIDE DEF group
    <3> QED
      BY <2>1, <2>4, CorpusAssumption
  <2> QED
    BY <2>5
<1>3. ASSUME NEW i \in DOMAIN cs
      PROVE  /\ d[i] \in Range(cs) /\ d[i].name = cs[i].name
             /\ \A j \in DOMAIN cs :
                  cs[j].name = cs[i].name => cs[j].confidence <= d[i].confidence
  <2>1. Min(best(i)) \in best(i)
    <3>1. best(i) \in SUBSET (1..Len(cs))
      BY <1>1
    <3> HIDE DEF best
    <3> QED
      BY <1>1, <1>2, <3>1, Ends
  <2>2. d[i] = cs[Min(best(i))]
    BY DEF Dominant
  <2> HIDE DEF d
  <2> QED
    BY <1>1, <2>1, <2>2
<1>4. IsSequence(d)
  <2>1. d \in Seq(Range(cs))
    <3> HIDE DEF group
    <3> QED
      BY <1>1, <1>3
  <2> QED
    BY <2>1, SequenceIs
<1>5. merge(cs) = Selected(d, firsts)
  BY DEF merge
<1>6. IsSequence(merge(cs)) /\ Range(merge(cs)) = {d[i] : i \in firsts}
  <2>1. firsts \in SUBSET DOMAIN d
    OBVIOUS
  <2> HIDE DEF d, firsts
  <2> QED
    BY <1>4, <1>5, <2>1, SelectedIs
<1>7. ASSUME NEW k \in DOMAIN cs PROVE \E i \in firsts : d[i].name = cs[k].name
  <2> DEFINE i == Min(group(k))
  <2>1. i \in group(k)
    <3>1. group(k) \in SUBSET (1..Len(cs)) /\ group(k) # {}
      BY <1>1
    <3> HIDE DEF group
    <3> QED
      BY <1>1, <3>1, Ends
  <2>2. group(i) = group(k)
    BY <2>1
  <2>3. i \in firsts
    BY <2>1, <2>2
  <2> HIDE DEF d, firsts
  <2> QED
    BY <1>3, <2>1, <2>3
<1>8. Range(merge(cs)) \subseteq Range(cs)
  <2> HIDE DEF d
  <2> QED
    BY <1>3, <1>6
<1>9. \A x \in Range(cs) : \E y \in Range(merge(cs)) : y.name = x.name
  <2> HIDE DEF d, firsts
  <2> QED
    BY <1>6, <1>7 DEF Range
<1>10. ASSUME NEW y \in Range(merge(cs)), NEW x \in Range(cs), x.name = y.name
       PROVE  x.confidence <= y.confidence
  <2> HIDE DEF d
  <2>1. PICK i \in firsts : y = d[i]
    BY <1>6
  <2>2. PICK j \in DOMAIN cs : x = cs[j]
    BY DEF Range
  <2>3. i \in DOMAIN cs
    BY <2>1
  <2> QED
    BY <1>3, <1>10, <2>1, <2>2, <2>3
<1> QED
  BY <1>6, <1>8, <1>9, <1>10

\* The entities of a chunk are upserted for it, one of each name.
LEMMA EntitiesPlanned ==
  ASSUME NEW c \in Chunks
  PROVE  /\ Planned(EntityUpserts(c))
         /\ \A name \in Names(c) : \E u \in Range(EntityUpserts(c)) :
              u.key[1] = "entity" /\ u.key[2] = name
<1> DEFINE cs == Corpus[c].entities
           m  == merge(cs)
           upsert(e) == Upsert(Entity(e.name, e.type), e.confidence, c)
<1>1. IsSequence(cs) /\ \A x \in Range(cs) : x.confidence \in 0..Full
  BY CorpusAssumption
<1>2. /\ IsSequence(m) /\ Range(m) \subseteq Range(cs)
      /\ \A x \in Range(cs) : \E y \in Range(m) : y.name = x.name
      /\ \A y \in Range(m), x \in Range(cs) : x.name = y.name => x.confidence <= y.confidence
  <2> HIDE DEF cs
  <2> QED
    BY <1>1, MergeIs
<1>3. Len(m) \in Nat /\ DOMAIN m = 1..Len(m) /\ \A i \in DOMAIN m : m[i] \in Range(m)
  <2> HIDE DEF m
  <2> QED
    BY <1>2, SequenceIs
<1>4. EntityUpserts(c) = [i \in DOMAIN m |-> upsert(m[i])]
  BY DEF EntityUpserts
<1> HIDE DEF m, cs
<1>5. EntityUpserts(c) \in Seq({upsert(e) : e \in Range(m)})
  <2> HIDE DEF upsert
  <2> QED
    BY <1>3, <1>4
<1>6. IsSequence(EntityUpserts(c))
      /\ \A u \in Range(EntityUpserts(c)) : \E e \in Range(m) : u = upsert(e)
  <2> HIDE DEF upsert
  <2> QED
    BY <1>5, SequenceIs
<1>7. \A e \in Range(m) : upsert(e) \in Range(EntityUpserts(c))
  <2> HIDE DEF upsert
  <2> QED
    BY <1>3, <1>4 DEF Range
<1>8. \A e : /\ upsert(e).chunk = c /\ upsert(e).confidence = e.confidence
             /\ upsert(e).key[1] = "entity" /\ upsert(e).key[2] = e.name
             /\ upsert(e).key[3] = e.type
  BY DEF Upsert, Entity
<1> HIDE DEF upsert
<1>9. Planned(EntityUpserts(c))
  <2>1. ASSUME NEW e \in Range(m) PROVE Supports(c, upsert(e).key)
    <3>1. e \in Range(Corpus[c].entities)
          /\ \A f \in Range(Corpus[c].entities) : f.name = e.name => f.confidence <= e.confidence
      BY <1>2 DEF cs
    <3> QED
      BY <1>8, <3>1 DEF Supports
  <2> QED
    BY <1>1, <1>2, <1>6, <1>8, <2>1 DEF Planned
<1>10. ASSUME NEW name \in Names(c)
       PROVE  \E u \in Range(EntityUpserts(c)) : u.key[1] = "entity" /\ u.key[2] = name
  <2>1. PICK x \in Range(cs) : x.name = name
    BY DEF Names, cs
  <2>2. PICK e \in Range(m) : e.name = name
    BY <1>2, <2>1
  <2> QED
    BY <1>7, <1>8, <2>2
<1> QED
  BY <1>9, <1>10

\* A name that was seen is resolved to an entity of that name.
LEMMA ResolveIs ==
  ASSUME NEW seen, IsSequence(seen), NEW name, Occurrences(seen, name) # {}
  PROVE  Resolve(seen, name)[2] = name
<1> DEFINE O == Occurrences(seen, name)
<1>1. Max(O) \in O
  <2>1. O \in SUBSET (1..Len(seen)) /\ Len(seen) \in Nat
    BY SequenceIs DEF Occurrences
  <2> HIDE DEF O
  <2> QED
    BY <2>1, Ends DEF O
<1>2. ByName(seen, name)[2] = name
  BY <1>1 DEF ByName, Occurrences
<1>3. Entity(name, "TERM")[2] = name
  BY DEF Entity
<1> QED
  BY <1>2, <1>3 DEF Resolve

\* A relationship is upserted for its chunk when both its ends were seen.
LEMMA RelationshipsPlanned ==
  ASSUME NEW c \in Chunks, NEW seen, IsSequence(seen)
  PROVE  /\ Planned(RelationshipUpserts(c, seen))
         /\ \A r \in Range(Corpus[c].relationships) : Resolves(seen, r) =>
              \E u \in Range(RelationshipUpserts(c, seen)) :
                 /\ u.key[1] = "edge"
                 /\ << r.source, r.target, r.type >> = << u.key[2][2], u.key[3][2], u.key[4] >>
<1> DEFINE rels == Corpus[c].relationships
           P    == {i \in DOMAIN rels : Resolves(seen, rels[i])}
           m    == Selected(rels, P)
           upsert(r) == Upsert(Edge(Resolve(seen, r.source), Resolve(seen, r.target), r.type),
                               r.confidence, c)
           us   == RelationshipUpserts(c, seen)
<1>1. IsSequence(rels) /\ \A x \in Range(rels) : x.confidence \in 0..Full
  BY CorpusAssumption
<1>2. IsSequence(m) /\ Range(m) = {rels[i] : i \in P}
  <2>1. P \in SUBSET DOMAIN rels
    OBVIOUS
  <2> HIDE DEF P, rels
  <2> QED
    BY <1>1, <2>1, SelectedIs
<1>3. Len(m) \in Nat /\ DOMAIN m = 1..Len(m) /\ \A i \in DOMAIN m : m[i] \in Range(m)
  <2> HIDE DEF m
  <2> QED
    BY <1>2, SequenceIs
<1>4. us = [i \in DOMAIN m |-> upsert(m[i])]
  BY DEF RelationshipUpserts
<1>5. \A r \in Range(m) : r \in Range(rels) /\ Resolves(seen, r)
  <2> HIDE DEF rels, m
  <2> QED
    BY <1>2 DEF Range
<1>6. \A r \in Range(rels) : Resolves(seen, r) => r \in Range(m)
  <2> HIDE DEF rels, m
  <2> QED
    BY <1>2 DEF Range
<1> HIDE DEF m, P, rels, us
<1>7. us \in Seq({upsert(e) : e \in Range(m)})
  <2> HIDE DEF upsert
  <2> QED
    BY <1>3, <1>4
<1>8. IsSequence(us) /\ \A u \in Range(us) : \E e \in Range(m) : u = upsert(e)
  <2> HIDE DEF upsert
  <2> QED
    BY <1>7, SequenceIs
<1>9. \A e \in Range(m) : upsert(e) \in Range(us)
  <2> HIDE DEF upsert
  <2> QED
    BY <1>3, <1>4 DEF Range
<1>10. ASSUME NEW r \in Range(m)
       PROVE  /\ upsert(r).chunk = c /\ upsert(r).confidence = r.confidence
              /\ upsert(r).key[1] = "edge"
              /\ upsert(r).key[2][2] = r.source /\ upsert(r).key[3][2] = r.target
              /\ upsert(r).key[4] = r.type
  <2>1. Resolve(seen, r.source)[2] = r.source /\ Resolve(seen, r.target)[2] = r.target
    BY <1>5, ResolveIs DEF Resolves
  <2> QED
    BY <2>1 DEF Upsert, Edge
<1> HIDE DEF upsert
<1>11. Planned(us)
  <2>1. ASSUME NEW r \in Range(m) PROVE Supports(c, upsert(r).key)
    BY <1>5, <1>10 DEF Supports, rels
  <2> QED
    BY <1>1, <1>5, <1>8, <1>10, <2>1 DEF Planned
<1>12. ASSUME NEW r \in Range(rels), Resolves(seen, r)
       PROVE  \E u \in Range(us) :
                /\ u.key[1] = "edge"
                /\ << r.source, r.target, r.type >> = << u.key[2][2], u.key[3][2], u.key[4] >>
  BY <1>6, <1>9, <1>10, <1>12
<1> QED
  BY <1>11, <1>12 DEF us, rels

\* Hyperedges are upserted for their chunk.
LEMMA HyperedgesPlanned ==
  ASSUME NEW c \in Chunks, NEW seen, IsSequence(seen)
  PROVE  Planned(HyperedgeUpserts(c, seen))
<1> DEFINE hypers     == Corpus[c].hyperedges
           records(h) == {i \in DOMAIN h.names : Occurrences(seen, h.names[i]) # {}}
           members(h) == {ByName(seen, h.names[i]) : i \in records(h)}
           P          == {i \in DOMAIN hypers : Cardinality(members(hypers[i])) >= 2}
           m          == Selected(hypers, P)
           upsert(h)  == [Upsert(Hyperedge(members(h), h.type), h.confidence, c)
                            EXCEPT !.repeats = Cardinality(records(h)) > Cardinality(members(h))]
           us         == HyperedgeUpserts(c, seen)
<1>1. IsSequence(hypers) /\ \A x \in Range(hypers) : x.confidence \in 0..Full
  BY CorpusAssumption
<1>2. IsSequence(m) /\ Range(m) = {hypers[i] : i \in P}
  <2>1. P \in SUBSET DOMAIN hypers
    OBVIOUS
  <2> HIDE DEF P, hypers
  <2> QED
    BY <1>1, <2>1, SelectedIs
<1>3. /\ Len(m) \in Nat /\ DOMAIN m = 1..Len(m)
      /\ \A i \in DOMAIN m : m[i] \in Range(m) /\ m[i] \in Range(hypers)
  <2>1. \A i \in P : hypers[i] \in Range(hypers)
    BY DEF Range
  <2> HIDE DEF m, P, hypers
  <2> QED
    BY <1>2, <2>1, SequenceIs
<1>4. us = [i \in DOMAIN m |-> upsert(m[i])]
  BY DEF HyperedgeUpserts
<1>5. \A h : /\ upsert(h).chunk = c /\ upsert(h).confidence = h.confidence
             /\ upsert(h).key = Hyperedge(members(h), h.type)
  BY DEF Upsert
<1>8. ASSUME NEW h \in Range(hypers) PROVE Supports(c, upsert(h).key)
  <2>1. {k[2] : k \in members(h)} \subseteq Range(h.names)
    <3> SUFFICES ASSUME NEW i \in records(h) PROVE ByName(seen, h.names[i])[2] \in Range(h.names)
      OBVIOUS
    <3>1. Max(Occurrences(seen, h.names[i])) \in Occurrences(seen, h.names[i])
      <4>1. Occurrences(seen, h.names[i]) \in SUBSET (1..Len(seen)) /\ Len(seen) \in Nat
        BY SequenceIs DEF Occurrences
      <4> QED
        BY <4>1, Ends
    <3>2. ByName(seen, h.names[i])[2] = h.names[i]
      BY <3>1 DEF ByName, Occurrences
    <3> QED
      BY <3>2 DEF Range
  <2> HIDE DEF members, upsert
  <2>2. /\ upsert(h).key[1] = "hyperedge" /\ upsert(h).key[2] = members(h)
        /\ upsert(h).key[3] = h.type
    BY <1>5 DEF Hyperedge
  <2>3. h \in Range(Corpus[c].hyperedges)
    OBVIOUS
  <2> HIDE DEF hypers
  <2> QED
    BY <2>1, <2>2, <2>3, Zenon DEF Supports
<1> HIDE DEF m, P, hypers, us, upsert
<1>6. us \in Seq({upsert(h) : h \in Range(hypers)})
  BY <1>3, <1>4
<1>7. IsSequence(us) /\ \A u \in Range(us) : \E h \in Range(hypers) : u = upsert(h)
  BY <1>6, SequenceIs
<1> QED
  BY <1>1, <1>5, <1>7, <1>8 DEF Planned, us

\* The names of a chunk are seen once its entities have been upserted.
LEMMA SeenIs ==
  ASSUME NEW list \in Seq(Chunks), NEW i \in 0..Len(list)
  PROVE  /\ IsSequence(Seen(list, i))
         /\ i # 0 => \A name \in Names(list[i]) : Occurrences(Seen(list, i), name) # {}
<1> DEFINE s  == SubSeq(list, 1, i)
           es == [j \in DOMAIN s |-> EntityUpserts(s[j])]
           us == FlattenSeq(es)
<1>1. /\ DOMAIN s = 1..i /\ i \in Nat /\ \A j \in 1..i : s[j] = list[j] /\ s[j] \in Chunks
  <2>1. i \in Nat /\ i <= Len(list) /\ Len(list) \in Nat
    OBVIOUS
  <2>2. Len(s) = i /\ s \in Seq(Chunks) /\ \A j \in 1..i : s[j] = list[j]
    BY <2>1
  <2> HIDE DEF s
  <2> QED
    BY <2>1, <2>2
<1> HIDE DEF s
<1>2. /\ DOMAIN es = 1..i
      /\ \A j \in 1..i : es[j] = EntityUpserts(list[j]) /\ IsSequence(es[j])
  BY <1>1, EntitiesPlanned DEF Planned
<1>3. IsSequence(es)
  <2>1. es \in Seq({EntityUpserts(c) : c \in Chunks})
    BY <1>1
  <2> HIDE DEF es
  <2> QED
    BY <2>1, SequenceIs
<1>4. Seen(list, i) = Keys(us)
  BY DEF Seen, FlatMap, s
<1> HIDE DEF es
<1>5. IsSequence(us) /\ Range(us) = UNION {Range(es[j]) : j \in 1..i}
  BY <1>2, <1>3, FlattenRange
<1> HIDE DEF us
<1>6. /\ Len(us) \in Nat /\ DOMAIN us = 1..Len(us)
      /\ Keys(us) = [j \in DOMAIN us |-> us[j].key]
  BY <1>5, SequenceIs DEF Keys
<1>7. IsSequence(Keys(us))
  <2>1. Keys(us) \in Seq({us[j].key : j \in DOMAIN us})
    BY <1>6
  <2> QED
    BY <2>1, SequenceIs
<1>8. ASSUME i # 0, NEW name \in Names(list[i]) PROVE Occurrences(Keys(us), name) # {}
  <2>1. i \in 1..i /\ list[i] \in Chunks
    BY <1>1, <1>8
  <2>2. PICK u \in Range(es[i]) : u.key[2] = name
    BY <1>2, <1>8, <2>1, EntitiesPlanned
  <2>3. u \in Range(us)
    BY <1>5, <2>1
  <2>4. PICK j \in DOMAIN us : us[j] = u
    BY <2>3 DEF Range
  <2>5. j \in DOMAIN Keys(us) /\ Keys(us)[j] = u.key
    BY <1>6, <2>4
  <2> QED
    BY <2>2, <2>5 DEF Occurrences
<1> QED
  BY <1>4, <1>7, <1>8

\* A chunk's links are upserted for it, an edge for each wikilink.
LEMMA LinksOfIs ==
  ASSUME NEW c \in Chunks, NEW confidence \in 0..Full
  PROVE  /\ Planned(LinksOf(c, confidence))
         /\ \A t \in Range(Wikilinks[Doc(c)]) :
              \E u \in Range(LinksOf(c, confidence)) : u.key = LinkKey(c, t)
<1> DEFINE W        == Wikilinks[Doc(c)]
           first    == Upsert(Title(Doc(c)), confidence, c)
           other(t) == Upsert(Title(t), confidence, c)
           link(t)  == Upsert(Edge(Title(Doc(c)), Title(t), "LINKS_TO"), confidence, c)
           links(t) == << first, other(t), link(t) >>
           ls       == [i \in DOMAIN W |-> links(W[i])]
           us       == FlattenSeq(ls)
<1>1. Len(W) \in Nat /\ DOMAIN W = 1..Len(W)
  <2>1. IsSequence(W)
    BY CorpusAssumption
  <2> HIDE DEF W
  <2> QED
    BY <2>1, SequenceIs
<1>2. LinksOf(c, confidence) = us
  BY DEF LinksOf, FlatMap
<1>3. \A t : IsSequence(links(t)) /\ Range(links(t)) = {first, other(t), link(t)}
  <2> SUFFICES ASSUME NEW t
               PROVE  IsSequence(links(t)) /\ Range(links(t)) = {first, other(t), link(t)}
    OBVIOUS
  <2> DEFINE o == other(t)
             l == link(t)
  <2> HIDE DEF first, o, l
  <2>1. DOMAIN << first, o, l >> = {1, 2, 3}
    OBVIOUS
  <2>2. Range(<< first, o, l >>) = {first, o, l}
    BY <2>1 DEF Range
  <2>3. << first, o, l >> \in Seq({first, o, l})
    OBVIOUS
  <2>4. IsSequence(<< first, o, l >>)
    BY <2>3, SequenceIs
  <2> QED
    BY <2>2, <2>4 DEF o, l
<1>4. \A t, u : u \in {first, other(t), link(t)} => u.chunk = c /\ u.confidence = confidence
  BY DEF Upsert
<1>5. \A t : link(t).key = LinkKey(c, t) /\ other(t).key = Title(t)
  BY DEF Upsert, LinkKey
<1>11. first.key = Title(Doc(c))
  BY DEF Upsert
<1> HIDE DEF W, first, other, link
<1>6. IsSequence(ls)
  <2>1. ls \in Seq({links(t) : t \in Range(W)})
    <3> HIDE DEF links
    <3>1. \A i \in DOMAIN W : links(W[i]) \in {links(t) : t \in Range(W)}
      BY DEF Range
    <3> QED
      BY <1>1, <3>1
  <2> HIDE DEF ls
  <2> QED
    BY <2>1, SequenceIs
<1>7. DOMAIN ls = DOMAIN W
      /\ \A i \in DOMAIN W : IsSequence(ls[i]) /\ Range(ls[i]) = {first, other(W[i]), link(W[i])}
  <2> HIDE DEF links
  <2> QED
    BY <1>3
<1> HIDE DEF ls, links
<1>8. IsSequence(us) /\ Range(us) = UNION {Range(ls[i]) : i \in DOMAIN W}
  BY <1>6, <1>7, FlattenRange
<1> HIDE DEF us
<1>9. Planned(us)
  <2>1. ASSUME NEW u \in Range(us) PROVE u.chunk = c /\ u.confidence \in 0..Full
    BY <1>4, <1>7, <1>8, <2>1
  <2>2. ASSUME NEW u \in Range(us) PROVE Supports(c, u.key)
    <3>1. PICK i \in DOMAIN W : u \in {first, other(W[i]), link(W[i])}
      BY <1>7, <1>8
    <3>2. W[i] \in Range(Wikilinks[Doc(c)])
      BY DEF Range, W
    <3>3. \/ u.key \in {Title(t) : t \in {Doc(c)} \cup Range(Wikilinks[Doc(c)])}
          \/ \E t \in Range(Wikilinks[Doc(c)]) : u.key = LinkKey(c, t)
      BY <1>5, <1>11, <3>1, <3>2
    <3>4. u.key[1] \in {"entity", "edge"}
          /\ ((\E t \in Range(Wikilinks[Doc(c)]) : u.key = LinkKey(c, t)) => u.key[1] = "edge")
          /\ (u.key \in {Title(t) : t \in {Doc(c)} \cup Range(Wikilinks[Doc(c)])}
                => u.key[1] = "entity")
      BY <3>3 DEF LinkKey, Edge, Title, Entity
    <3> QED
      BY <3>3, <3>4, Zenon DEF Supports
  <2> QED
    BY <1>8, <2>1, <2>2 DEF Planned
<1>10. ASSUME NEW t \in Range(W) PROVE \E u \in Range(us) : u.key = LinkKey(c, t)
  <2>1. PICK i \in DOMAIN W : W[i] = t
    BY DEF Range
  <2>2. link(t) \in Range(us)
    BY <1>7, <1>8, <2>1
  <2> QED
    BY <1>5, <2>2
<1> QED
  BY <1>2, <1>9, <1>10 DEF W

\* One after another, what is planned for each of some chunks is planned.
LEMMA PlannedTogether ==
  ASSUME NEW s, IsSequence(s), \A i \in DOMAIN s : Planned(s[i])
  PROVE  Planned(FlattenSeq(s)) /\ \A i \in DOMAIN s : Range(s[i]) \subseteq Range(FlattenSeq(s))
<1>1. IsSequence(FlattenSeq(s)) /\ Range(FlattenSeq(s)) = UNION {Range(s[i]) : i \in DOMAIN s}
  BY FlattenRange DEF Planned
<1> QED
  BY <1>1 DEF Planned

\* So is what is planned in two parts.
LEMMA PlannedInTurn ==
  ASSUME NEW s, Planned(s), NEW t, Planned(t)
  PROVE  Planned(s \o t) /\ Range(s \o t) = Range(s) \cup Range(t)
  BY ConcatIs DEF Planned

\* Each wikilink of a document is upserted as an edge, which is never left out.
LEMMA LinksPlanned ==
  ASSUME NEW list \in Seq(Chunks)
  PROVE  /\ Planned(LinkUpserts(list))
         /\ \A c \in Range(list) : \A t \in Range(Wikilinks[Doc(c)]) :
              \E u \in Range(LinkUpserts(list)) : u.key = LinkKey(c, t)
<1> DEFINE firsts   == {i \in DOMAIN list : \A j \in 1..(i - 1) : Doc(list[j]) # Doc(list[i])}
           reps     == Representatives(list)
           chunked  == [i \in DOMAIN list |-> LinksOf(list[i], Corpus[list[i]].confidence)]
           full     == [i \in DOMAIN reps |-> LinksOf(reps[i], Full)]
           all      == FlattenSeq(chunked) \o FlattenSeq(full)
           again(i) == /\ all[i].key[1] = "entity"
                       /\ \E j \in 1..(i - 1) : all[j].key = all[i].key
           P        == {i \in DOMAIN all : ~again(i)}
<1>1. /\ IsSequence(list) /\ Range(list) \subseteq Chunks
      /\ Len(list) \in Nat /\ DOMAIN list = 1..Len(list)
  BY SequenceIs
<1>2. IsSequence(reps) /\ Range(reps) \subseteq Chunks
  <2>1. firsts \in SUBSET DOMAIN list /\ \A i \in firsts : list[i] \in Chunks
    BY <1>1 DEF Range
  <2>2. reps = Selected(list, firsts)
    BY DEF Representatives
  <2> HIDE DEF firsts, reps
  <2> QED
    BY <1>1, <2>1, <2>2, SelectedIs
<1>3. /\ Len(reps) \in Nat /\ DOMAIN reps = 1..Len(reps)
      /\ \A i \in DOMAIN reps : reps[i] \in Chunks
  <2> HIDE DEF reps
  <2> QED
    BY <1>2, SequenceIs
<1> HIDE DEF reps
<1>4. Planned(FlattenSeq(chunked))
      /\ \A i \in DOMAIN list : Range(chunked[i]) \subseteq Range(FlattenSeq(chunked))
  <2>1. \A i \in DOMAIN list : Planned(chunked[i])
    BY CorpusAssumption, LinksOfIs
  <2>2. chunked \in Seq({chunked[i] : i \in DOMAIN list})
    BY <1>1
  <2>3. DOMAIN chunked = DOMAIN list
    OBVIOUS
  <2> HIDE DEF chunked
  <2> QED
    BY <2>1, <2>2, <2>3, SequenceIs, PlannedTogether
<1>5. Planned(FlattenSeq(full))
  <2>1. \A i \in DOMAIN reps : Planned(full[i])
    BY <1>3, CorpusAssumption, LinksOfIs
  <2>2. full \in Seq({full[i] : i \in DOMAIN reps})
    BY <1>3
  <2>3. DOMAIN full = DOMAIN reps
    OBVIOUS
  <2> HIDE DEF full
  <2> QED
    BY <2>1, <2>2, <2>3, SequenceIs, PlannedTogether
<1>6. Planned(all) /\ Range(FlattenSeq(chunked)) \subseteq Range(all)
  <2> HIDE DEF chunked, full
  <2> QED
    BY <1>4, <1>5, PlannedInTurn
<1>7. LinkUpserts(list) = Selected(all, P)
  BY DEF LinkUpserts, FlatMap, reps
<1>8. IsSequence(LinkUpserts(list)) /\ Range(LinkUpserts(list)) = {all[i] : i \in P}
  <2>1. P \in SUBSET DOMAIN all /\ IsSequence(all)
    BY <1>6 DEF Planned
  <2> HIDE DEF P, all
  <2> QED
    BY <1>7, <2>1, SelectedIs
<1>9. Planned(LinkUpserts(list))
  <2>1. \A i \in P : all[i] \in Range(all)
    BY DEF Range
  <2> HIDE DEF P, all
  <2> QED
    BY <1>6, <1>8, <2>1 DEF Planned
<1>10. ASSUME NEW c \in Range(list), NEW t \in Range(Wikilinks[Doc(c)])
       PROVE  \E u \in Range(LinkUpserts(list)) : u.key = LinkKey(c, t)
  <2>1. PICK i \in DOMAIN list : list[i] = c
    BY DEF Range
  <2>2. c \in Chunks /\ Corpus[c].confidence \in 0..Full
    BY <1>1, CorpusAssumption
  <2>3. PICK u \in Range(LinksOf(c, Corpus[c].confidence)) : u.key = LinkKey(c, t)
    BY <2>2, LinksOfIs
  <2>4. u \in Range(all)
    <3>1. chunked[i] = LinksOf(c, Corpus[c].confidence)
      BY <2>1
    <3> HIDE DEF chunked, all
    <3> QED
      BY <1>4, <1>6, <2>1, <2>3, <3>1
  <2>5. PICK n \in DOMAIN all : all[n] = u
    BY <2>4 DEF Range
  <2>6. u.key[1] # "entity"
    BY <2>3 DEF LinkKey, Edge
  <2>7. n \in P
    <3> HIDE DEF all
    <3> QED
      BY <2>5, <2>6
  <2> HIDE DEF P, all
  <2> QED
    BY <1>8, <2>3, <2>5, <2>7
<1> QED
  BY <1>9, <1>10

\* What BuiltIsThere asks of the keys of the graph for a chunk.
CoveredBy(c, keys) ==
    /\ \A name \in Names(c) : \E k \in keys : k[1] = "entity" /\ k[2] = name
    /\ \A r \in Range(Corpus[c].relationships) :
         {r.source, r.target} \subseteq Names(c) =>
           \E k \in keys :
              k[1] = "edge" /\ << r.source, r.target, r.type >> = << k[2][2], k[3][2], k[4] >>
    /\ \A t \in Range(Wikilinks[Doc(c)]) : LinkKey(c, t) \in keys

\* A build upserts all of that for each of its chunks.
LEMMA PlanIs ==
  ASSUME NEW list \in Seq(Chunks)
  PROVE  LET plan == build_from_chunks(list)
         IN  /\ Planned(plan)
             /\ \A c \in Range(list) : CoveredBy(c, {u.key : u \in Range(plan)})
<1> DEFINE seen(i) == Seen(list, i)
           es(i)   == EntityUpserts(list[i])
           rs(i)   == RelationshipUpserts(list[i], Seen(list, i))
           both    == [i \in DOMAIN list |-> es(i) \o rs(i)]
           hs      == [i \in DOMAIN list |-> HyperedgeUpserts(list[i], Seen(list, Len(list)))]
           plan    == build_from_chunks(list)
           keys    == {u.key : u \in Range(plan)}
<1>1. /\ Len(list) \in Nat /\ DOMAIN list = 1..Len(list)
      /\ \A i \in DOMAIN list : list[i] \in Chunks
  OBVIOUS
<1>2. ASSUME NEW i \in DOMAIN list
      PROVE  /\ Planned(es(i)) /\ Planned(rs(i)) /\ Planned(both[i])
             /\ Range(both[i]) = Range(es(i)) \cup Range(rs(i))
  <2>1. i \in 0..Len(list)
    BY <1>1
  <2>2. IsSequence(Seen(list, i))
    BY <2>1, SeenIs
  <2>3. Planned(es(i)) /\ Planned(rs(i))
    BY <1>1, <2>2, EntitiesPlanned, RelationshipsPlanned
  <2>4. both[i] = es(i) \o rs(i)
    OBVIOUS
  <2> HIDE DEF es, rs, both
  <2> QED
    BY <2>3, <2>4, PlannedInTurn
<1>3. Planned(FlattenSeq(both))
      /\ \A i \in DOMAIN list : Range(both[i]) \subseteq Range(FlattenSeq(both))
  <2> HIDE DEF es, rs
  <2>1. DOMAIN both = DOMAIN list /\ both = [i \in 1..Len(list) |-> both[i]]
    BY <1>1
  <2> HIDE DEF both
  <2>2. both \in Seq({both[i] : i \in DOMAIN list})
    BY <1>1, <2>1
  <2> QED
    BY <1>2, <2>1, <2>2, SequenceIs, PlannedTogether
<1>4. Planned(FlattenSeq(hs))
  <2>1. \A i \in DOMAIN list : Planned(hs[i])
    <3>1. IsSequence(Seen(list, Len(list)))
      BY <1>1, SeenIs
    <3> QED
      BY <1>1, <3>1, HyperedgesPlanned
  <2>2. hs \in Seq({hs[i] : i \in DOMAIN list}) /\ DOMAIN hs = DOMAIN list
    BY <1>1
  <2> HIDE DEF hs
  <2> QED
    BY <2>1, <2>2, SequenceIs, PlannedTogether
<1>5. plan = (FlattenSeq(both) \o LinkUpserts(list)) \o FlattenSeq(hs)
  BY DEF build_from_chunks, FlatMap
<1>6. /\ Planned(plan)
      /\ Range(FlattenSeq(both)) \subseteq Range(plan)
      /\ Range(LinkUpserts(list)) \subseteq Range(plan)
  <2> HIDE DEF both, hs, plan
  <2>1. Planned(FlattenSeq(both) \o LinkUpserts(list))
        /\ Range(FlattenSeq(both) \o LinkUpserts(list))
             = Range(FlattenSeq(both)) \cup Range(LinkUpserts(list))
    BY <1>3, LinksPlanned, PlannedInTurn
  <2> QED
    BY <1>4, <1>5, <2>1, PlannedInTurn
<1> HIDE DEF both, plan, es, rs
<1>7. ASSUME NEW c \in Range(list) PROVE CoveredBy(c, keys)
  <2>1. PICK i \in DOMAIN list : list[i] = c
    BY DEF Range
  <2>2. c \in Chunks /\ i # 0 /\ i \in 0..Len(list)
    BY <1>1, <2>1
  <2>3. Range(es(i)) \subseteq Range(plan) /\ Range(rs(i)) \subseteq Range(plan)
    BY <1>2, <1>3, <1>6
  <2>4. ASSUME NEW name \in Names(c) PROVE \E k \in keys : k[1] = "entity" /\ k[2] = name
    <3>1. PICK u \in Range(es(i)) : u.key[1] = "entity" /\ u.key[2] = name
      BY <2>1, <2>2, EntitiesPlanned DEF es
    <3> QED
      BY <2>3, <3>1
  <2>5. ASSUME NEW r \in Range(Corpus[c].relationships), {r.source, r.target} \subseteq Names(c)
        PROVE  \E k \in keys :
                 k[1] = "edge" /\ << r.source, r.target, r.type >> = << k[2][2], k[3][2], k[4] >>
    <3>1. IsSequence(Seen(list, i)) /\ Resolves(Seen(list, i), r)
      BY <2>1, <2>2, <2>5, SeenIs DEF Resolves
    <3>2. PICK u \in Range(rs(i)) :
            /\ u.key[1] = "edge"
            /\ << r.source, r.target, r.type >> = << u.key[2][2], u.key[3][2], u.key[4] >>
      BY <2>1, <2>2, <3>1, RelationshipsPlanned DEF rs
    <3> QED
      BY <2>3, <3>2
  <2>6. ASSUME NEW t \in Range(Wikilinks[Doc(c)]) PROVE LinkKey(c, t) \in keys
    <3>1. PICK u \in Range(LinkUpserts(list)) : u.key = LinkKey(c, t)
      BY LinksPlanned
    <3> QED
      BY <1>6, <3>1
  <2> HIDE DEF keys
  <2> QED
    BY <2>4, <2>5, <2>6 DEF CoveredBy
<1> QED
  BY <1>6, <1>7 DEF plan

\* A build's chunks are chunks of the corpus.
LEMMA OldestIs ==
  ASSUME NEW S \in SUBSET Chunks
  PROVE  Oldest(S, Limit) \in Seq(Chunks)
<1> DEFINE own  == [c \in Chunks |-> c]
           list == Selected(own, S)
           last == IF Len(list) < Limit THEN Len(list) ELSE Limit
<1>1. IsSequence(own) /\ DOMAIN own = Chunks /\ \A c \in Chunks : own[c] = c
  <2>1. Len(Corpus) \in Nat /\ Chunks = 1..Len(Corpus)
    BY CorpusAssumption, SequenceIs DEF Chunks
  <2>2. own \in Seq(Chunks)
    BY <2>1
  <2> QED
    BY <2>2, SequenceIs
<1>2. list \in Seq(Chunks)
  <2> HIDE DEF own
  <2>1. IsSequence(list) /\ Range(list) = {own[i] : i \in S}
    BY <1>1, SelectedIs
  <2> HIDE DEF list
  <2>2. Range(list) \subseteq Chunks
    BY <1>1, <2>1
  <2> QED
    BY <2>1, <2>2, SequenceIs
<1>3. Oldest(S, Limit) = SubSeq(list, 1, last)
  BY DEF Oldest
<1> HIDE DEF list
<1>4. last \in Nat /\ last <= Len(list)
  BY <1>2, BoundsAssumption
<1> HIDE DEF last
<1> QED
  BY <1>2, <1>3, <1>4

\* Every upsert of every build is of a chunk, a document and a confidence that
\* there are; so is the list of chunks.
LEMMA PlansTyped ==
  /\ \A u \in AllUpserts : u.chunk \in Chunks /\ u.confidence \in 0..Full
                           /\ Doc(u.chunk) \in DOMAIN Wikilinks
                           /\ Supports(u.chunk, u.key)
  /\ \A S \in SUBSET Chunks : /\ Oldest(S, Limit) \in Seq(Chunks)
                              /\ build_from_chunks(Oldest(S, Limit)) \in Seq(AllUpserts)
<1>1. \A S \in SUBSET Chunks : /\ Oldest(S, Limit) \in Seq(Chunks)
                               /\ Planned(build_from_chunks(Oldest(S, Limit)))
  BY OldestIs, PlanIs
<1>2. \A u \in AllUpserts : /\ u.chunk \in Chunks /\ u.confidence \in 0..Full
                            /\ Supports(u.chunk, u.key)
  BY <1>1 DEF AllUpserts, Planned
<1>3. \A c \in Chunks : Doc(c) \in DOMAIN Wikilinks
  BY CorpusAssumption
<1>4. ASSUME NEW S \in SUBSET Chunks
      PROVE  build_from_chunks(Oldest(S, Limit)) \in Seq(AllUpserts)
  <2>1. Range(build_from_chunks(Oldest(S, Limit))) \subseteq AllUpserts
    BY DEF AllUpserts
  <2> QED
    BY <1>1, <2>1, SequenceIs DEF Planned
<1> QED
  BY <1>1, <1>2, <1>3, <1>4

-----------------------------------------------------------------------------
(* The operators on sequences and rows.                                    *)

\* Append adds its element to the range, and nothing else.
LEMMA AppendRange ==
    ASSUME NEW S, NEW s \in Seq(S), NEW v \in S
    PROVE  /\ Append(s, v) \in Seq(S)
           /\ Len(Append(s, v)) = Len(s) + 1
           /\ \A i \in 1..Len(s) : Append(s, v)[i] = s[i]
           /\ Append(s, v)[Len(s) + 1] = v
           /\ Range(Append(s, v)) = Range(s) \cup {v}
<1>1. /\ Append(s, v) \in Seq(S)
      /\ Len(Append(s, v)) = Len(s) + 1
      /\ \A i \in 1..Len(s) : Append(s, v)[i] = s[i]
      /\ Append(s, v)[Len(s) + 1] = v
  OBVIOUS
<1>2. DOMAIN Append(s, v) = 1..(Len(s) + 1) /\ DOMAIN s = 1..Len(s) /\ Len(s) \in Nat
  BY <1>1
<1>3. Range(Append(s, v)) = Range(s) \cup {v}
  BY <1>1, <1>2 DEF Range
<1> QED
  BY <1>1, <1>3

\* Merge adds a value once: Merge of merge_provenance.
LEMMA MergeAdds ==
    ASSUME NEW S, NEW s \in Seq(S), NEW v \in S, IsInjective(s)
    PROVE  /\ Merge(s, v) \in Seq(S) /\ Merge(s, v) # << >>
           /\ IsInjective(Merge(s, v))
           /\ Range(Merge(s, v)) = Range(s) \cup {v}
           /\ v \in Range(s) => Merge(s, v) = s
           /\ v \notin Range(s) => Merge(s, v) = Append(s, v)
<1>1. CASE v \in Range(s)
  <2>1. Merge(s, v) = s
    BY <1>1 DEF Merge
  <2>2. s # << >>
    BY <1>1 DEF Range
  <2> QED
    BY <1>1, <2>1, <2>2
<1>2. CASE v \notin Range(s)
  <2>1. Merge(s, v) = Append(s, v)
    BY <1>2 DEF Merge
  <2>2. DOMAIN Append(s, v) = 1..(Len(s) + 1) /\ DOMAIN s = 1..Len(s) /\ Len(s) \in Nat
    BY AppendRange
  <2>3. \A i \in 1..Len(s) : Append(s, v)[i] # v
    BY <1>2, <2>2, AppendRange DEF Range
  <2>4. IsInjective(Append(s, v))
    BY <2>2, <2>3, AppendRange DEF IsInjective
  <2>5. Append(s, v) # << >>
    BY AppendRange
  <2> QED
    BY <1>2, <2>1, <2>4, <2>5, AppendRange
<1> QED
  BY <1>1, <1>2

\* The row of an insert.
LEMMA NewRowOK ==
    ASSUME NEW u \in AllUpserts
    PROVE  /\ RowOK(NewRow(u))
           /\ NewRow(u).provenance.chunk_id = << u.chunk >>
<1>1. u.chunk \in Chunks /\ u.confidence \in 0..Full /\ Doc(u.chunk) \in DOMAIN Wikilinks
  BY PlansTyped
<1>2. \A x : Range(<< x >>) = {x} /\ IsInjective(<< x >>) /\ << x >> # << >>
  BY DEF Range, IsInjective
<1>3. << u.chunk >> \in Seq(Chunks) /\ << Doc(u.chunk) >> \in Seq(DOMAIN Wikilinks)
  BY <1>1
<1>4. /\ NewRow(u).confidence = u.confidence
      /\ NewRow(u).provenance.chunk_id = << u.chunk >>
      /\ NewRow(u).provenance.document_id = << Doc(u.chunk) >>
  BY DEF NewRow
<1>5. NewRow(u) \in Row
  BY <1>1, <1>3 DEF NewRow, Row
<1>6. {Doc(u.chunk)} = {Doc(c) : c \in {u.chunk}}
  OBVIOUS
<1>7. Range(NewRow(u).provenance.document_id)
        = {Doc(c) : c \in Range(NewRow(u).provenance.chunk_id)}
  BY <1>2, <1>4, <1>6
<1> QED
  BY <1>2, <1>4, <1>5, <1>7 DEF RowOK

\* merge_provenance adds the chunk and its document to a row's provenance.
LEMMA MergedOK ==
    ASSUME NEW row, RowOK(row), NEW c \in Chunks
    PROVE  LET old == row.provenance
               new == merge_provenance(old, c)
           IN  /\ new \in Provenance
               /\ new.chunk_id = Merge(old.chunk_id, c)
               /\ new.chunk_id # << >> /\ IsInjective(new.chunk_id)
               /\ new.document_id # << >> /\ IsInjective(new.document_id)
               /\ Range(new.chunk_id) = Range(old.chunk_id) \cup {c}
               /\ Range(new.document_id) = Range(old.document_id) \cup {Doc(c)}
               /\ Range(new.document_id) = {Doc(d) : d \in Range(new.chunk_id)}
<1> DEFINE old == row.provenance
           new == merge_provenance(old, c)
<1>1. Doc(c) \in DOMAIN Wikilinks
  BY CorpusAssumption
<1>2. /\ old.chunk_id \in Seq(Chunks) /\ IsInjective(old.chunk_id)
      /\ old.document_id \in Seq(DOMAIN Wikilinks) /\ IsInjective(old.document_id)
  BY DEF RowOK, Row
<1>3. new.chunk_id = Merge(old.chunk_id, c) /\ new.document_id = Merge(old.document_id, Doc(c))
  BY DEF merge_provenance
<1>4. /\ Merge(old.chunk_id, c) \in Seq(Chunks)
      /\ Merge(old.chunk_id, c) # << >> /\ IsInjective(Merge(old.chunk_id, c))
      /\ Range(Merge(old.chunk_id, c)) = Range(old.chunk_id) \cup {c}
  <2> HIDE DEF old
  <2> QED BY <1>2, MergeAdds
<1>5. /\ Merge(old.document_id, Doc(c)) \in Seq(DOMAIN Wikilinks)
      /\ Merge(old.document_id, Doc(c)) # << >> /\ IsInjective(Merge(old.document_id, Doc(c)))
      /\ Range(Merge(old.document_id, Doc(c))) = Range(old.document_id) \cup {Doc(c)}
  <2> HIDE DEF old
  <2> QED BY <1>1, <1>2, MergeAdds
<1>6. new \in Provenance
  BY <1>4, <1>5 DEF merge_provenance, Provenance
<1>7. Range(old.document_id) = {Doc(d) : d \in Range(old.chunk_id)}
  BY DEF RowOK
<1>8. Range(new.document_id) = {Doc(d) : d \in Range(new.chunk_id)}
  BY <1>3, <1>4, <1>5, <1>7
<1> QED
  BY <1>3, <1>4, <1>5, <1>6, <1>8

\* Which of a merged provenance are changes to SQLAlchemy.
LEMMA ChangedIs ==
    ASSUME NEW old \in Provenance, NEW new \in Provenance
    PROVE  Changed(old, new) <=>
             \/ Len(old.chunk_id) = 1 /\ new.chunk_id # old.chunk_id
             \/ Len(old.document_id) = 1 /\ new.document_id # old.document_id
<1>1. DOMAIN old = {"chunk_id", "document_id"}
  BY DEF Provenance
<1> QED
  BY <1>1 DEF Changed

\* An update leaves a row in order, whatever it was when it was read; over the
\* row that was read it takes nothing away and adds at most the chunk, which it
\* does add if there was only one.
LEMMA UpdatedOK ==
    ASSUME NEW now, RowOK(now), NEW read, RowOK(read), NEW u \in AllUpserts
    PROVE  /\ RowOK(Updated(now, read, u))
           /\ now = read => Grows(now, Updated(now, read, u))
           /\ now = read =>
                LET old == now.provenance.chunk_id
                    new == Updated(now, read, u).provenance.chunk_id
                IN  \/ new = old /\ (Len(old) = 1 => u.chunk \in Range(old))
                    \/ new = Merge(old, u.chunk)
<1> DEFINE row    == Updated(now, read, u)
           merged == merge_provenance(read.provenance, u.chunk)
<1>1. u.chunk \in Chunks /\ u.confidence \in 0..Full
  BY PlansTyped
<1>2. now.confidence \in 0..Full /\ read.confidence \in 0..Full /\ Full \in Nat
  BY CorpusAssumption DEF RowOK, Row
<1>3. now.provenance \in Provenance /\ read.provenance \in Provenance
  BY DEF RowOK, Row, Provenance
<1>4. /\ merged \in Provenance
      /\ merged.chunk_id = Merge(read.provenance.chunk_id, u.chunk)
      /\ merged.chunk_id # << >> /\ IsInjective(merged.chunk_id)
      /\ merged.document_id # << >> /\ IsInjective(merged.document_id)
      /\ Range(merged.chunk_id) = Range(read.provenance.chunk_id) \cup {u.chunk}
      /\ Range(merged.document_id) = Range(read.provenance.document_id) \cup {Doc(u.chunk)}
      /\ Range(merged.document_id) = {Doc(d) : d \in Range(merged.chunk_id)}
  BY <1>1, MergedOK
<1>5. /\ row.confidence = IF u.confidence > read.confidence THEN u.confidence
                          ELSE now.confidence
      /\ row.provenance = IF Changed(read.provenance, merged) THEN merged
                          ELSE now.provenance
      /\ row = [confidence |-> row.confidence, provenance |-> row.provenance]
  BY DEF Updated
<1>6. RowOK(row)
  <2>1. row.confidence \in 0..Full
    BY <1>1, <1>2, <1>5
  <2>2. row.provenance \in Provenance
    BY <1>3, <1>4, <1>5
  <2>3. row \in Row
    BY <1>5, <2>1, <2>2 DEF Row, Provenance
  <2>4. CASE Changed(read.provenance, merged)
    BY <1>4, <1>5, <2>3, <2>4 DEF RowOK
  <2>5. CASE ~Changed(read.provenance, merged)
    BY <1>5, <2>3, <2>5 DEF RowOK
  <2> QED
    BY <2>4, <2>5
<1>7. ASSUME now = read PROVE Grows(now, row)
  <2>1. row.confidence >= now.confidence
    BY <1>1, <1>2, <1>5, <1>7
  <2>2. /\ Range(now.provenance.chunk_id) \subseteq Range(row.provenance.chunk_id)
        /\ Range(now.provenance.document_id) \subseteq Range(row.provenance.document_id)
    BY <1>4, <1>5, <1>7
  <2>3. DOMAIN now.provenance = {"chunk_id", "document_id"}
    BY <1>3 DEF Provenance
  <2> QED
    BY <2>1, <2>2, <2>3 DEF Grows
<1>8. ASSUME now = read
      PROVE  \/ /\ row.provenance.chunk_id = now.provenance.chunk_id
                /\ Len(now.provenance.chunk_id) = 1 => u.chunk \in Range(now.provenance.chunk_id)
             \/ row.provenance.chunk_id = Merge(now.provenance.chunk_id, u.chunk)
  <2>1. CASE Changed(read.provenance, merged)
    BY <1>4, <1>5, <1>8, <2>1
  <2>2. CASE ~Changed(read.provenance, merged)
    <3>1. row.provenance.chunk_id = now.provenance.chunk_id
      BY <1>5, <2>2
    <3>2. Len(read.provenance.chunk_id) = 1 => merged.chunk_id = read.provenance.chunk_id
      BY <1>3, <1>4, <2>2, ChangedIs
    <3> QED
      BY <1>4, <1>8, <3>1, <3>2
  <2> QED
    BY <2>1, <2>2
<1> QED
  BY <1>6, <1>7, <1>8

\* MergeAdds and AppendRange for the chunks.
LEMMA MergeChunk ==
    ASSUME NEW s \in Seq(Chunks), NEW c \in Chunks, IsInjective(s)
    PROVE  /\ Range(Merge(s, c)) = Range(s) \cup {c}
           /\ c \in Range(s) => Merge(s, c) = s
           /\ c \notin Range(s) =>
                /\ Len(Merge(s, c)) = Len(s) + 1
                /\ \A i \in 1..Len(s) : Merge(s, c)[i] = s[i]
                /\ Merge(s, c)[Len(s) + 1] = c
<1>1. Range(Merge(s, c)) = Range(s) \cup {c}
  BY MergeAdds
<1>2. c \in Range(s) => Merge(s, c) = s
  BY DEF Merge
<1>3. c \notin Range(s) => Merge(s, c) = Append(s, c)
  BY DEF Merge
<1>4. /\ Len(Append(s, c)) = Len(s) + 1
      /\ \A i \in 1..Len(s) : Append(s, c)[i] = s[i]
      /\ Append(s, c)[Len(s) + 1] = c
  BY AppendRange
<1> QED
  BY <1>1, <1>2, <1>3, <1>4

\* A length that is not zero is one, or two and more.
LEMMA SmallNumbers ==
    /\ \A n \in Nat : n >= 1 /\ n # 1 => n >= 2
    /\ \A n \in Nat : n >= 1 /\ ~(n >= 2) => n = 1
    /\ \A n \in Nat : n >= 1 => n + 1 # 1
  OBVIOUS

\* An injective sequence of chunks has as many elements as its length says.
LEMMA ShortRanges ==
    ASSUME NEW s \in Seq(Chunks), s # << >>, IsInjective(s)
    PROVE  /\ Len(s) \in Nat /\ Len(s) >= 1 /\ DOMAIN s = 1..Len(s)
           /\ s[1] \in Range(s)
           /\ Len(s) >= 2 => s[2] \in Range(s) /\ s[1] # s[2]
           /\ Len(s) = 1 => Range(s) = {s[1]}
<1>1. Len(s) \in Nat /\ Len(s) >= 1 /\ DOMAIN s = 1..Len(s)
  OBVIOUS
<1> QED
  BY <1>1 DEF Range, IsInjective

\* What an update does to the recorded chunks keeps the first two there.
LEMMA EarlyKept ==
    ASSUME NEW U, NEW C, NEW D, NEW c \in Chunks
    PROVE  /\ U \in Seq(Chunks) /\ U # << >> /\ IsInjective(U)
           /\ C \in Seq(Chunks) /\ C # << >> /\ IsInjective(C)
           /\ Early(U, C)
           /\ \/ D = C /\ (Len(C) = 1 => c \in Range(C))
              \/ D = Merge(C, c)
           => Early(Merge(U, c), D)
<1>a. SUFFICES ASSUME U \in Seq(Chunks), U # << >>, IsInjective(U),
                      C \in Seq(Chunks), C # << >>, IsInjective(C),
                      Early(U, C),
                      \/ D = C /\ (Len(C) = 1 => c \in Range(C))
                      \/ D = Merge(C, c)
               PROVE  Early(Merge(U, c), D)
  OBVIOUS
<1>1. /\ Range(Merge(C, c)) = Range(C) \cup {c}
      /\ c \in Range(C) => Merge(C, c) = C
      /\ c \notin Range(C) => Len(Merge(C, c)) = Len(C) + 1
  BY <1>a, MergeChunk
<1>2. /\ Range(Merge(U, c)) = Range(U) \cup {c}
      /\ c \in Range(U) => Merge(U, c) = U
  BY <1>a, MergeChunk
<1>3. Range(C) \subseteq Range(U) /\ U[1] \in Range(C) /\ (Len(C) = 1 => Range(U) = Range(C))
  BY <1>a DEF Early
<1>4. Range(C) \subseteq Range(D) /\ Range(D) \subseteq Range(Merge(U, c))
  BY <1>a, <1>1, <1>2, <1>3
<1>5. Len(C) \in Nat /\ Len(C) >= 1 /\ Len(U) \in Nat /\ Len(U) >= 1
  BY <1>a, ShortRanges
<1>6. CASE c \in Range(U)
  <2>1. Merge(U, c) = U
    BY <1>2, <1>6
  <2>2. ASSUME Len(D) = 1 PROVE Range(U) = Range(D)
    <3>1. CASE c \in Range(C)
      BY <1>a, <1>1, <1>3, <2>2, <3>1
    <3>2. CASE c \notin Range(C)
      <4>1. Len(C) # 1
        BY <1>3, <1>6, <3>2
      <4>2. D = C \/ Len(D) = Len(C) + 1
        BY <1>a, <1>1, <3>2
      <4> QED
        BY <1>5, <2>2, <4>1, <4>2, SmallNumbers
    <3> QED
      BY <3>1, <3>2
  <2>3. /\ U[1] \in Range(D)
        /\ Len(U) >= 2 => U[2] \in Range(D)
        /\ Range(D) \subseteq Range(U)
    BY <1>a, <1>4, <2>1 DEF Early
  <2> QED
    BY <2>1, <2>2, <2>3 DEF Early
<1>7. CASE c \notin Range(U)
  <2>1. /\ Len(Merge(U, c)) = Len(U) + 1
        /\ \A i \in 1..Len(U) : Merge(U, c)[i] = U[i]
        /\ Merge(U, c)[Len(U) + 1] = c
    BY <1>a, <1>7, MergeChunk
  <2>2. c \notin Range(C)
    BY <1>3, <1>7
  <2>3. Merge(U, c)[1] = U[1]
    BY <1>5, <2>1
  <2>4. CASE Len(C) = 1
    <3>1. D = Merge(C, c) /\ Len(D) = 2
      BY <1>a, <1>1, <2>2, <2>4
    <3>2. Range(D) = Range(Merge(U, c))
      BY <1>1, <1>2, <1>3, <2>4, <3>1
    <3>3. Len(U) = 1
      <4>1. Range(U) = {C[1]}
        BY <1>a, <1>3, <2>4, ShortRanges
      <4>2. Len(U) >= 2 => U[2] \in Range(U) /\ U[1] \in Range(U) /\ U[1] # U[2]
        BY <1>a, ShortRanges
      <4>3. ~(Len(U) >= 2)
        BY <4>1, <4>2
      <4> QED
        BY <1>5, <4>3, SmallNumbers
    <3>4. Merge(U, c)[2] = c /\ c \in Range(D)
      BY <1>2, <2>1, <3>2, <3>3
    <3> QED
      BY <1>3, <1>4, <2>3, <3>1, <3>2, <3>4 DEF Early
  <2>5. CASE Len(C) # 1
    <3>1. Len(C) >= 2
      BY <1>5, <2>5, SmallNumbers
    <3>2. C[1] \in Range(U) /\ C[2] \in Range(U) /\ C[1] # C[2]
      BY <1>a, <1>3, <3>1, ShortRanges
    <3>3. Len(U) # 1
      BY <1>a, <3>2, ShortRanges
    <3>4. Len(U) >= 2
      BY <1>5, <3>3, SmallNumbers
    <3>5. Merge(U, c)[2] = U[2] /\ U[2] \in Range(C)
      BY <1>a, <1>5, <2>1, <3>4 DEF Early
    <3>6. Len(D) # 1
      <4>1. D = C \/ Len(D) = Len(C) + 1
        BY <1>a, <1>1, <2>2
      <4> QED
        BY <1>5, <2>5, <4>1, SmallNumbers
    <3> QED
      BY <1>3, <1>4, <2>3, <3>5, <3>6 DEF Early
  <2> QED
    BY <2>4, <2>5
<1> QED
  BY <1>6, <1>7

-----------------------------------------------------------------------------
(* The inductive invariant.                                                *)

\* Nothing is in the graph at first.
LEMMA InvInit == Init => IInv
<1> SUFFICES ASSUME Init PROVE IInv
  OBVIOUS
<1>1. DOMAIN << >> = {}
  OBVIOUS
<1>2. Typed
  BY BoundsAssumption DEF Init, Typed
<1>3. RowsInv /\ HistoryInv /\ EarlyInv
  BY <1>1 DEF Init, RowsInv, HistoryInv, EarlyInv
<1>4. BuildInv
  BY DEF Init, BuildInv
<1> QED
  BY <1>2, <1>3, <1>4 DEF IInv

\* The upsert that a build is at, and what it leaves to do, are typed.
LEMMA UpsertTyped ==
    ASSUME Typed, NEW b \in Builds, NEW step, Upserting(b, step)
    PROVE  /\ build[b] \in Build /\ build[b] # None
           /\ Current(b) \in AllUpserts /\ Current(b).chunk \in Chunks
           /\ Tail(build[b].todo) \in Seq(AllUpserts)
<1>1. build[b] \in Build /\ build[b] # None /\ build[b].todo # << >>
  BY DEF Typed, Upserting
<1>2. build[b].todo \in Seq(AllUpserts)
  BY <1>1 DEF Build
<1>3. Head(build[b].todo) \in AllUpserts /\ Tail(build[b].todo) \in Seq(AllUpserts)
  BY <1>1, <1>2
<1> QED
  BY <1>1, <1>3, PlansTyped DEF Current

\* Committing an upsert: what becomes of the build, the types and the history.
LEMMA UpsertedTyped ==
    ASSUME IInv, NEW b \in Builds, NEW step, Upserting(b, step), NEW fresh \in BOOLEAN,
           NEW R, Store(Current(b).key, R), Upserted(b, fresh)
    PROVE  /\ Typed' /\ HistoryInv'
           /\ \A a \in Builds : a # b => build'[a] = build[a]
           /\ build'[b] # None /\ build'[b].step = "select"
           /\ raced' = IF fresh THEN raced ELSE raced \cup {Current(b).key}
           /\ DOMAIN graph' = DOMAIN graph \cup {Current(b).key}
           /\ \A x \in DOMAIN graph : x # Current(b).key =>
                graph'[x] = graph[x] /\ upserted'[x] = upserted[x]
           /\ graph'[Current(b).key] = R
           /\ Current(b).key \in DOMAIN graph =>
                upserted'[Current(b).key] = Merge(upserted[Current(b).key], Current(b).chunk)
           /\ Current(b).key \notin DOMAIN graph =>
                upserted'[Current(b).key] = << Current(b).chunk >>
<1> DEFINE u == Current(b)
           k == u.key
<1>1. /\ build[b] \in Build /\ build[b] # None /\ u.chunk \in Chunks
      /\ Tail(build[b].todo) \in Seq(AllUpserts)
  BY UpsertTyped DEF IInv
<1>2. Typed /\ HistoryInv /\ DOMAIN upserted = DOMAIN graph
  BY DEF IInv, Typed
<1>3. /\ graph' = [x \in DOMAIN graph \cup {k} |-> IF x = k THEN R ELSE graph[x]]
      /\ build' = [build EXCEPT ![b].todo = Tail(@), ![b].step = "select",
                                ![b].at = 0, ![b].row = None]
      /\ raced' = IF fresh THEN raced ELSE raced \cup {k}
      /\ approved' = approved /\ started' = started /\ built' = built
  BY DEF Store, Upserted
<1>4. build \in [Builds -> Build \cup {None}]
  BY <1>2 DEF Typed
<1>5. build'[b] = [build[b] EXCEPT !.todo = Tail(build[b].todo), !.step = "select",
                                   !.at = 0, !.row = None]
  BY <1>3, <1>4
<1>6. build'[b] \in Build
  <2>1. build'[b] = [list |-> build[b].list, todo |-> Tail(build[b].todo),
                     step |-> "select", at |-> 0, row |-> None]
    BY <1>1, <1>5 DEF Build
  <2>2. build[b].list \in Seq(Chunks)
    BY <1>1 DEF Build
  <2> QED
    BY <1>1, <2>1, <2>2 DEF Build
<1>7. /\ build' \in [Builds -> Build \cup {None}]
      /\ \A a \in Builds : a # b => build'[a] = build[a]
  BY <1>3, <1>4, <1>6
<1>8. build'[b] # None /\ build'[b].step = "select"
  BY <1>1, <1>5, <1>6, NoneAssumption DEF Build
<1>9. Merge(<< >>, u.chunk) = << u.chunk >>
  <2>1. Range(<< >>) = {} /\ Append(<< >>, u.chunk) = << u.chunk >>
    BY DEF Range
  <2> QED
    BY <2>1 DEF Merge
<1>10. upserted' = [x \in DOMAIN graph \cup {k} |->
                      IF x = k THEN IF k \in DOMAIN graph THEN Merge(upserted[k], u.chunk)
                                    ELSE << u.chunk >>
                      ELSE upserted[x]]
  BY <1>2, <1>9 DEF Upserted
<1>11. HistoryInv'
  <2> SUFFICES ASSUME NEW x \in DOMAIN graph \cup {k}
               PROVE  /\ upserted'[x] \in Seq(Chunks) /\ upserted'[x] # << >>
                      /\ IsInjective(upserted'[x])
    BY <1>10 DEF HistoryInv
  <2>1. CASE x # k
    BY <1>2, <1>10, <2>1 DEF HistoryInv
  <2>2. CASE x = k /\ k \in DOMAIN graph
    <3>1. upserted[k] \in Seq(Chunks) /\ IsInjective(upserted[k])
      BY <1>2, <2>2 DEF HistoryInv
    <3>2. upserted'[x] = Merge(upserted[k], u.chunk)
      BY <1>10, <2>2
    <3> QED
      BY <1>1, <3>1, <3>2, MergeAdds
  <2>3. CASE x = k /\ k \notin DOMAIN graph
    <3>1. upserted'[x] = << u.chunk >>
      BY <1>10, <2>3
    <3> QED
      BY <1>1, <3>1 DEF IsInjective
  <2> QED
    BY <2>1, <2>2, <2>3
<1>12. DOMAIN graph' = DOMAIN graph \cup {k} /\ DOMAIN upserted' = DOMAIN graph \cup {k}
  BY <1>3, <1>10
<1>13. Typed'
  BY <1>2, <1>3, <1>7, <1>12 DEF Typed
<1>14. \A x \in DOMAIN graph : x # k => graph'[x] = graph[x] /\ upserted'[x] = upserted[x]
  BY <1>3, <1>10
<1>15. /\ graph'[k] = R
       /\ k \in DOMAIN graph => upserted'[k] = Merge(upserted[k], u.chunk)
       /\ k \notin DOMAIN graph => upserted'[k] = << u.chunk >>
  BY <1>3, <1>10
<1> QED
  BY <1>3, <1>7, <1>8, <1>11, <1>12, <1>13, <1>14, <1>15

\* What the other parts of the invariant need of the rows that an upsert stores.
LEMMA UpsertedInv ==
    ASSUME IInv, NEW b \in Builds, NEW step, Upserting(b, step), NEW fresh \in BOOLEAN,
           NEW R \in Seq(Row), R # << >>, Store(Current(b).key, R), Upserted(b, fresh),
           Current(b).key[1] # "hyperedge" => Len(R) = 1,
           \A i \in DOMAIN R : RowOK(R[i]),
           DOMAIN Rows(Current(b).key) \subseteq DOMAIN R,
           fresh /\ Current(b).key \notin raced =>
             Len(R) = 1 /\ Early(upserted'[Current(b).key], R[1].provenance.chunk_id)
    PROVE  IInv'
<1> DEFINE k == Current(b).key
<1>1. /\ Typed' /\ HistoryInv'
      /\ \A a \in Builds : a # b => build'[a] = build[a]
      /\ build'[b] # None /\ build'[b].step = "select"
      /\ raced' = IF fresh THEN raced ELSE raced \cup {k}
      /\ DOMAIN graph' = DOMAIN graph \cup {k}
      /\ \A x \in DOMAIN graph : x # k => graph'[x] = graph[x] /\ upserted'[x] = upserted[x]
      /\ graph'[k] = R
  BY ZenonT(40), UpsertedTyped
<1>2. RowsInv'
  <2> SUFFICES ASSUME NEW x \in DOMAIN graph \cup {k}
               PROVE  /\ graph'[x] \in Seq(Row) /\ graph'[x] # << >>
                      /\ x[1] # "hyperedge" => Len(graph'[x]) = 1
                      /\ \A i \in DOMAIN graph'[x] : RowOK(graph'[x][i])
    BY <1>1 DEF RowsInv
  <2>1. CASE x = k
    BY <1>1, <2>1
  <2>2. CASE x # k
    BY <1>1, <2>2 DEF IInv, RowsInv
  <2> QED
    BY <2>1, <2>2
<1>3. BuildInv'
  <2> SUFFICES ASSUME NEW a \in Builds, build'[a] # None, build'[a].step = "update"
               PROVE  /\ build'[a].todo # << >>
                      /\ Current(a)'.key \in DOMAIN graph'
                      /\ build'[a].at \in DOMAIN graph'[Current(a)'.key]
                      /\ RowOK(build'[a].row)
    BY DEF BuildInv
  <2>1. build'[a] = build[a] /\ Current(a)' = Current(a)
    BY <1>1 DEF Current
  <2>2. /\ build[a].todo # << >>
        /\ Current(a).key \in DOMAIN graph
        /\ build[a].at \in DOMAIN graph[Current(a).key]
        /\ RowOK(build[a].row)
    BY <2>1 DEF IInv, BuildInv
  <2>3. build[a].at \in DOMAIN graph'[Current(a).key]
    BY <1>1, <2>2 DEF Rows
  <2> QED
    BY <1>1, <2>1, <2>2, <2>3
<1>4. EarlyInv'
  <2> SUFFICES ASSUME NEW x \in DOMAIN graph', x \notin raced'
               PROVE  /\ Len(graph'[x]) = 1
                      /\ Early(upserted'[x], graph'[x][1].provenance.chunk_id)
    BY DEF EarlyInv
  <2>1. CASE x = k
    BY <1>1, <2>1
  <2>2. CASE x # k
    BY <1>1, <2>2 DEF IInv, EarlyInv
  <2> QED
    BY <2>1, <2>2
<1> QED
  BY <1>1, <1>2, <1>3, <1>4 DEF IInv

\* Append to the rows of a key.
LEMMA AppendRow ==
    ASSUME NEW s \in Seq(Row), NEW row \in Row
    PROVE  /\ Append(s, row) \in Seq(Row) /\ Append(s, row) # << >>
           /\ Len(Append(s, row)) = Len(s) + 1
           /\ \A i \in 1..Len(s) : Append(s, row)[i] = s[i]
           /\ Append(s, row)[Len(s) + 1] = row
           /\ DOMAIN s = 1..Len(s) /\ Len(s) \in Nat
           /\ DOMAIN Append(s, row) = 1..(Len(s) + 1)
<1>1. DOMAIN s = 1..Len(s) /\ Len(s) \in Nat
  OBVIOUS
<1>2. /\ Append(s, row) \in Seq(Row) /\ Len(Append(s, row)) = Len(s) + 1
      /\ \A i \in 1..Len(s) : Append(s, row)[i] = s[i]
      /\ Append(s, row)[Len(s) + 1] = row
  OBVIOUS
<1>3. Append(s, row) # << >> /\ DOMAIN Append(s, row) = 1..Len(Append(s, row))
  BY <1>2
<1> QED
  BY <1>1, <1>2, <1>3

\* An insert adds a row that names one chunk; it was the only upsert of the key,
\* or else another build has inserted meanwhile.
LEMMA InsertStep == ASSUME IInv, NEW b \in Builds, upsert_insert(b) PROVE IInv'
<1> DEFINE u   == Current(b)
           k   == u.key
           old == Rows(k)
           R   == Append(old, NewRow(u))
<1>1. Upserting(b, "insert") /\ ~Refused(u) /\ Store(k, R) /\ Upserted(b, old = << >>)
  BY DEF upsert_insert
<1>2. u \in AllUpserts /\ u.chunk \in Chunks
  BY <1>1, UpsertTyped DEF IInv
<1>3. old \in Seq(Row) /\ \A i \in DOMAIN old : RowOK(old[i])
  BY DEF IInv, RowsInv, Rows
<1>4. RowOK(NewRow(u)) /\ NewRow(u) \in Row /\ NewRow(u).provenance.chunk_id = << u.chunk >>
  BY <1>2, NewRowOK DEF RowOK
<1>5. /\ R \in Seq(Row) /\ R # << >> /\ Len(R) = Len(old) + 1
      /\ \A i \in 1..Len(old) : R[i] = old[i]
      /\ R[Len(old) + 1] = NewRow(u)
      /\ DOMAIN old = 1..Len(old) /\ DOMAIN R = 1..(Len(old) + 1) /\ Len(old) \in Nat
  <2> HIDE DEF old
  <2> QED
    BY <1>3, <1>4, AppendRow
<1>6. \A i \in DOMAIN R : RowOK(R[i])
  BY <1>3, <1>4, <1>5
<1>7. k[1] # "hyperedge" => Len(R) = 1
  BY <1>1, <1>5 DEF Refused
<1>8. DOMAIN old \subseteq DOMAIN R
  BY <1>5
<1>9. ASSUME old = << >> PROVE Len(R) = 1 /\ Early(upserted'[k], R[1].provenance.chunk_id)
  <2>1. k \notin DOMAIN graph
    BY <1>9 DEF Rows, IInv, RowsInv
  <2>2. upserted'[k] = << u.chunk >>
    BY <1>1, <2>1, UpsertedTyped
  <2>3. Len(R) = 1 /\ R[1] = NewRow(u)
    BY <1>5, <1>9
  <2>4. Early(<< u.chunk >>, << u.chunk >>)
    BY DEF Early, Range
  <2> QED
    BY <1>4, <2>2, <2>3, <2>4
<1>10. (old = << >>) \in BOOLEAN
  OBVIOUS
<1> DEFINE fresh == old = << >>
<1>11. /\ Upserting(b, "insert") /\ fresh \in BOOLEAN /\ R \in Seq(Row) /\ R # << >>
       /\ Store(Current(b).key, R) /\ Upserted(b, fresh)
       /\ Current(b).key[1] # "hyperedge" => Len(R) = 1
       /\ \A i \in DOMAIN R : RowOK(R[i])
       /\ DOMAIN Rows(Current(b).key) \subseteq DOMAIN R
       /\ fresh /\ Current(b).key \notin raced =>
            Len(R) = 1 /\ Early(upserted'[Current(b).key], R[1].provenance.chunk_id)
  BY <1>1, <1>5, <1>6, <1>7, <1>8, <1>9, <1>10
<1> HIDE DEF R, old, k, u, fresh
<1> QED
  BY <1>11, UpsertedInv

\* An update keeps the number of rows; the row it writes is in order, and over the
\* row that it read it records the chunk, or had recorded two already.
LEMMA UpdateStep == ASSUME IInv, NEW b \in Builds, upsert_update(b) PROVE IInv'
<1> DEFINE u     == Current(b)
           k     == u.key
           old   == Rows(k)
           at    == build[b].at
           read  == build[b].row
           R     == [old EXCEPT ![at] = Updated(old[at], read, u)]
           fresh == old[at] = read
<1>1. Upserting(b, "update") /\ Store(k, R) /\ Upserted(b, fresh)
  BY DEF upsert_update
<1>2. u \in AllUpserts /\ u.chunk \in Chunks
  BY <1>1, UpsertTyped DEF IInv
<1>3. k \in DOMAIN graph /\ old = graph[k] /\ at \in DOMAIN old /\ RowOK(read)
  BY <1>1 DEF IInv, BuildInv, Upserting, Rows
<1>4. /\ old \in Seq(Row) /\ old # << >> /\ (k[1] # "hyperedge" => Len(old) = 1)
      /\ \A i \in DOMAIN old : RowOK(old[i])
  BY <1>3 DEF IInv, RowsInv
<1>5. /\ RowOK(Updated(old[at], read, u))
      /\ fresh =>
           \/ /\ Updated(old[at], read, u).provenance.chunk_id = old[at].provenance.chunk_id
              /\ Len(old[at].provenance.chunk_id) = 1 =>
                   u.chunk \in Range(old[at].provenance.chunk_id)
           \/ Updated(old[at], read, u).provenance.chunk_id
                = Merge(old[at].provenance.chunk_id, u.chunk)
  <2>1. RowOK(old[at])
    BY <1>3, <1>4
  <2> HIDE DEF old, at, read, u
  <2> QED
    BY <1>2, <1>3, <2>1, UpdatedOK
<1>6. /\ R \in Seq(Row) /\ R # << >> /\ Len(R) = Len(old)
      /\ DOMAIN R = DOMAIN old
      /\ R[at] = Updated(old[at], read, u)
      /\ \A i \in DOMAIN old : i # at => R[i] = old[i]
  <2>1. Updated(old[at], read, u) \in Row
    BY <1>5 DEF RowOK
  <2> HIDE DEF old, at, read, u
  <2> QED
    BY <1>3, <1>4, <2>1
<1>7. \A i \in DOMAIN R : RowOK(R[i])
  BY <1>4, <1>5, <1>6
<1>8. ASSUME fresh, k \notin raced
      PROVE  Len(R) = 1 /\ Early(upserted'[k], R[1].provenance.chunk_id)
  <2>1. Len(old) = 1 /\ Early(upserted[k], old[1].provenance.chunk_id)
    BY <1>3, <1>8 DEF IInv, EarlyInv
  <2>2. at = 1
    BY <1>3, <1>4, <2>1
  <2>3. upserted[k] \in Seq(Chunks) /\ upserted[k] # << >> /\ IsInjective(upserted[k])
    BY <1>3 DEF IInv, Typed, HistoryInv
  <2>4. /\ old[1].provenance.chunk_id \in Seq(Chunks)
        /\ old[1].provenance.chunk_id # << >> /\ IsInjective(old[1].provenance.chunk_id)
    BY <1>3, <1>4, <2>2 DEF RowOK, Row
  <2>5. upserted'[k] = Merge(upserted[k], u.chunk)
    BY <1>1, <1>3, UpsertedTyped
  <2>6. \/ /\ R[1].provenance.chunk_id = old[1].provenance.chunk_id
           /\ Len(old[1].provenance.chunk_id) = 1 =>
                u.chunk \in Range(old[1].provenance.chunk_id)
        \/ R[1].provenance.chunk_id = Merge(old[1].provenance.chunk_id, u.chunk)
    <3>1. R[1] = Updated(old[at], read, u) /\ old[at] = old[1]
      BY <1>6, <2>2
    <3> HIDE DEF R, old, at, u, k, read, fresh
    <3> QED
      BY <1>5, <1>8, <3>1
  <2>7. Early(Merge(upserted[k], u.chunk), R[1].provenance.chunk_id)
    <3> HIDE DEF R, old, u, k
    <3> QED
      BY <1>2, <2>1, <2>3, <2>4, <2>6, EarlyKept
  <2> QED
    BY <1>6, <2>1, <2>5, <2>7
<1>9. fresh \in BOOLEAN
  OBVIOUS
<1>10. /\ Upserting(b, "update") /\ fresh \in BOOLEAN /\ R \in Seq(Row) /\ R # << >>
       /\ Store(Current(b).key, R) /\ Upserted(b, fresh)
       /\ Current(b).key[1] # "hyperedge" => Len(R) = 1
       /\ \A i \in DOMAIN R : RowOK(R[i])
       /\ DOMAIN Rows(Current(b).key) \subseteq DOMAIN R
       /\ fresh /\ Current(b).key \notin raced =>
            Len(R) = 1 /\ Early(upserted'[Current(b).key], R[1].provenance.chunk_id)
  BY <1>1, <1>4, <1>6, <1>7, <1>8, <1>9
<1> HIDE DEF R, old, at, read, k, u, fresh
<1> QED
  BY <1>10, UpsertedInv

\* Starting a build: its plan is typed, and it has selected nothing yet.
LEMMA StartStep == ASSUME IInv, NEW b \in Builds, build_graph(b) PROVE IInv'
<1> DEFINE list == Oldest(approved, Limit)
           new  == [list |-> list, todo |-> build_from_chunks(list),
                    step |-> "select", at |-> 0, row |-> None]
<1>1. /\ started < MaxBuilds /\ started' = started + 1
      /\ build' = [build EXCEPT ![b] = new]
      /\ UNCHANGED <<approved, graph, upserted, raced, built>>
  BY DEF build_graph, auxVars
<1>2. Typed /\ RowsInv /\ HistoryInv /\ EarlyInv
  BY DEF IInv
<1>3. new \in Build
  <2>1. list \in Seq(Chunks) /\ build_from_chunks(list) \in Seq(AllUpserts)
    BY <1>2, PlansTyped DEF Typed
  <2> QED
    BY <2>1 DEF Build
<1>4. /\ build' \in [Builds -> Build \cup {None}]
      /\ build'[b].step = "select"
      /\ \A a \in Builds : a # b => build'[a] = build[a]
  BY <1>1, <1>2, <1>3 DEF Typed
<1>5. Typed'
  BY <1>1, <1>2, <1>4, BoundsAssumption DEF Typed
<1>6. RowsInv' /\ HistoryInv' /\ EarlyInv'
  BY <1>1, <1>2 DEF RowsInv, HistoryInv, EarlyInv
<1>7. BuildInv'
  BY <1>1, <1>4 DEF IInv, BuildInv, Current
<1> QED
  BY <1>5, <1>6, <1>7 DEF IInv

\* The row that a select finds is one of the key's, and in order.
LEMMA SelectStep == ASSUME IInv, NEW b \in Builds, upsert_select(b) PROVE IInv'
<1> DEFINE k == Current(b).key
<1>1. Upserting(b, "select") /\ UNCHANGED <<approved, graph, started, upserted, raced, built>>
  BY DEF upsert_select, auxVars
<1>2. Typed /\ RowsInv /\ HistoryInv /\ EarlyInv
  BY DEF IInv
<1>3. build[b] \in Build /\ build[b] # None /\ build[b].todo # << >>
  BY <1>1, <1>2, UpsertTyped DEF Upserting
<1>4. CASE Rows(k) = << >> /\ build' = [build EXCEPT ![b].step = "insert"]
  <2>1. build'[b] = [build[b] EXCEPT !.step = "insert"]
    BY <1>2, <1>4 DEF Typed
  <2>2. build'[b] \in Build /\ build'[b].step = "insert"
    BY <1>3, <2>1 DEF Build
  <2>3. /\ build' \in [Builds -> Build \cup {None}]
        /\ \A a \in Builds : a # b => build'[a] = build[a]
    BY <1>2, <1>4, <2>2 DEF Typed
  <2>4. Typed' /\ RowsInv' /\ HistoryInv' /\ EarlyInv'
    BY <1>1, <1>2, <2>3 DEF Typed, RowsInv, HistoryInv, EarlyInv
  <2>5. BuildInv'
    BY <1>1, <2>2, <2>3 DEF IInv, BuildInv, Current
  <2> QED
    BY <2>4, <2>5 DEF IInv
<1>5. ASSUME NEW i \in DOMAIN Rows(k),
             build' = [build EXCEPT ![b].step = "update", ![b].at = i, ![b].row = Rows(k)[i]]
      PROVE  IInv'
  <2>1. k \in DOMAIN graph /\ Rows(k) = graph[k]
    BY <1>5 DEF Rows
  <2>2. graph[k] \in Seq(Row) /\ RowOK(graph[k][i]) /\ i \in DOMAIN graph[k] /\ i \in Nat
    BY <1>2, <1>5, <2>1 DEF RowsInv
  <2>3. build'[b] = [build[b] EXCEPT !.step = "update", !.at = i, !.row = graph[k][i]]
    BY <1>2, <1>5, <2>1 DEF Typed
  <2>4. build'[b] = [list |-> build[b].list, todo |-> build[b].todo, step |-> "update",
                     at |-> i, row |-> graph[k][i]]
    BY <1>3, <2>3 DEF Build
  <2>5. build'[b] \in Build /\ build'[b] # None
    <3>1. graph[k][i] \in Row
      BY <2>2 DEF RowOK
    <3>2. build'[b] \in Build
      BY <1>3, <2>2, <2>4, <3>1 DEF Build
    <3> QED
      BY <3>2, NoneAssumption
  <2>6. /\ build' \in [Builds -> Build \cup {None}]
        /\ \A a \in Builds : a # b => build'[a] = build[a]
    BY <1>2, <1>5, <2>5 DEF Typed
  <2>7. Typed' /\ RowsInv' /\ HistoryInv' /\ EarlyInv'
    BY <1>1, <1>2, <2>6 DEF Typed, RowsInv, HistoryInv, EarlyInv
  <2>8. BuildInv'
    <3>1. Current(b)' = Current(b) /\ build'[b].todo # << >>
      BY <1>3, <2>4 DEF Current
    <3> SUFFICES ASSUME NEW a \in Builds, build'[a] # None, build'[a].step = "update"
                 PROVE  /\ build'[a].todo # << >>
                        /\ Current(a)'.key \in DOMAIN graph'
                        /\ build'[a].at \in DOMAIN graph'[Current(a)'.key]
                        /\ RowOK(build'[a].row)
      BY DEF BuildInv
    <3>2. CASE a = b
      BY <1>1, <2>1, <2>2, <2>4, <3>1, <3>2
    <3>3. CASE a # b
      <4>1. build'[a] = build[a] /\ Current(a)' = Current(a)
        BY <2>6, <3>3 DEF Current
      <4> QED
        BY <1>1, <4>1 DEF IInv, BuildInv
    <3> QED
      BY <3>2, <3>3
  <2> QED
    BY <2>7, <2>8 DEF IInv
<1> QED
  BY <1>4, <1>5 DEF upsert_select

\* A build that ends leaves the rows alone.
LEMMA EndStep ==
    ASSUME IInv, NEW b \in Builds, build_graph_returns(b) \/ build_graph_raises(b)
    PROVE  IInv'
<1>1. /\ build[b] # None /\ build' = [build EXCEPT ![b] = None]
      /\ built' = built \/ built' = built \cup Range(build[b].list)
      /\ UNCHANGED <<approved, graph, started, upserted, raced>>
  BY DEF build_graph_returns, build_graph_raises, auxVars
<1>2. Typed /\ RowsInv /\ HistoryInv /\ EarlyInv
  BY DEF IInv
<1>3. /\ build' \in [Builds -> Build \cup {None}] /\ build'[b] = None
      /\ \A a \in Builds : a # b => build'[a] = build[a]
  BY <1>1, <1>2 DEF Typed
<1>4. built' \subseteq Chunks
  <2>1. build[b].list \in Seq(Chunks)
    BY <1>1, <1>2 DEF Typed, Build
  <2>2. Range(build[b].list) \subseteq Chunks
    BY <2>1 DEF Range
  <2> QED
    BY <1>1, <1>2, <2>2 DEF Typed
<1>5. Typed' /\ RowsInv' /\ HistoryInv' /\ EarlyInv'
  BY <1>1, <1>2, <1>3, <1>4 DEF Typed, RowsInv, HistoryInv, EarlyInv
<1>6. BuildInv'
  BY <1>1, <1>3 DEF IInv, BuildInv, Current
<1> QED
  BY <1>5, <1>6 DEF IInv

\* Every step preserves the invariant.
LEMMA InvNext == IInv /\ [Next]_vars => IInv'
<1> SUFFICES ASSUME IInv, [Next]_vars PROVE IInv'
  OBVIOUS
<1>1. ASSUME NEW c \in Chunks, approve(c) PROVE IInv'
  BY <1>1 DEF approve, auxVars, IInv, Typed, RowsInv, BuildInv, Current, HistoryInv, EarlyInv
<1>2. ASSUME NEW b \in Builds, build_graph(b) PROVE IInv'
  BY <1>2, StartStep
<1>3. ASSUME NEW b \in Builds, build_graph_returns(b) \/ build_graph_raises(b) PROVE IInv'
  BY <1>3, EndStep
<1>4. ASSUME NEW b \in Builds, upsert_select(b) PROVE IInv'
  BY <1>4, SelectStep
<1>5. ASSUME NEW b \in Builds, upsert_insert(b) PROVE IInv'
  BY <1>5, InsertStep
<1>6. ASSUME NEW b \in Builds, upsert_update(b) PROVE IInv'
  BY <1>6, UpdateStep
<1>7. CASE UNCHANGED vars
  BY <1>7 DEF vars, auxVars, IInv, Typed, RowsInv, BuildInv, Current, HistoryInv, EarlyInv
<1> QED
  BY <1>1, <1>2, <1>3, <1>4, <1>5, <1>6, <1>7 DEF Next

\* The invariant holds of every reachable state.
LEMMA Invariant == Spec => []IInv
  BY InvInit, InvNext, PTL DEF Spec

\* Keys stay in the graph, and a key that a build has done with is there.
LEMMA UpsertKeeps ==
    ASSUME IInv, PlanInv, NEW b \in Builds, upsert_insert(b) \/ upsert_update(b)
    PROVE  PlanInv' /\ DOMAIN graph \subseteq DOMAIN graph' /\ built' = built
<1> DEFINE u == Current(b)
<1>1. PICK step, R, fresh :
        Upserting(b, step) /\ Store(u.key, R) /\ Upserted(b, fresh) /\ fresh \in BOOLEAN
  <2>1. CASE upsert_insert(b)
    BY <2>1 DEF upsert_insert
  <2>2. CASE upsert_update(b)
    BY <2>2 DEF upsert_update
  <2> QED
    BY <2>1, <2>2
<1>2. /\ DOMAIN graph' = DOMAIN graph \cup {u.key} /\ built' = built
      /\ build' = [build EXCEPT ![b].todo = Tail(@), ![b].step = "select",
                                ![b].at = 0, ![b].row = None]
  BY <1>1 DEF Store, Upserted
<1>3. build \in [Builds -> Build \cup {None}] /\ build[b] \in Build /\ build[b] # None
  BY <1>1, UpsertTyped DEF IInv, Typed
<1>4. \A x \in Range(build[b].todo) : x = u \/ x \in Range(Tail(build[b].todo))
  <2>1. build[b].todo \in Seq(AllUpserts) /\ build[b].todo # << >>
    BY <1>1, <1>3 DEF Build, Upserting
  <2> DEFINE s == build[b].todo
             t == Tail(s)
  <2> HIDE DEF s
  <2>2. /\ Len(s) \in Nat /\ DOMAIN s = 1..Len(s) /\ DOMAIN t = 1..(Len(s) - 1)
        /\ \A i \in 1..(Len(s) - 1) : t[i] = s[i + 1]
        /\ Head(s) = s[1]
    BY <2>1 DEF s
  <2>3. \A i \in 1..Len(s) : i = 1 \/ (i - 1 \in 1..(Len(s) - 1) /\ t[i - 1] = s[i])
    BY <2>2
  <2>4. \A x \in Range(s) : x = Head(s) \/ x \in Range(t)
    <3> HIDE DEF t
    <3> QED
      BY <2>2, <2>3 DEF Range
  <2> QED
    BY <2>4 DEF s, Current
<1>5. /\ \A a \in Builds : a # b => build'[a] = build[a]
      /\ build'[b].list = build[b].list /\ build'[b].todo = Tail(build[b].todo)
  <2>1. build'[b] = [build[b] EXCEPT !.todo = Tail(build[b].todo), !.step = "select",
                                     !.at = 0, !.row = None]
    BY <1>2, <1>3
  <2>2. build'[b].list = build[b].list /\ build'[b].todo = Tail(build[b].todo)
    BY <1>3, <2>1 DEF Build
  <2> QED
    BY <1>2, <1>3, <2>2
<1>6. PlanInv'
  <2> SUFFICES ASSUME NEW a \in Builds, build'[a] # None,
                      NEW x \in Range(build_from_chunks(build'[a].list))
               PROVE  x \in Range(build'[a].todo) \/ x.key \in DOMAIN graph'
    BY DEF PlanInv
  <2>1. build'[a].list = build[a].list /\ build[a] # None
    BY <1>3, <1>5
  <2>2. x \in Range(build[a].todo) \/ x.key \in DOMAIN graph
    BY <2>1 DEF PlanInv
  <2>3. CASE a = b
    BY <1>2, <1>4, <1>5, <2>2, <2>3
  <2>4. CASE a # b
    BY <1>2, <1>5, <2>2, <2>4
  <2> QED
    BY <2>3, <2>4
<1> QED
  BY <1>2, <1>6

\* More keys cover no less.
LEMMA CoverGrows ==
    ASSUME NEW c, NEW D, NEW E, D \subseteq E, CoveredBy(c, D)
    PROVE  CoveredBy(c, E)
  BY DEF CoveredBy

\* BuiltIsThere, in terms of the keys.
LEMMA BuiltIs == BuiltIsThere <=> \A c \in built : CoveredBy(c, DOMAIN graph)
  BY DEF BuiltIsThere, CoveredBy, LinkKey

\* A build that returns has nothing left to do, so that all it planned is there.
LEMMA BuiltStep ==
    IInv /\ PlanInv /\ BuiltIsThere /\ [Next]_vars => PlanInv' /\ BuiltIsThere'
<1> SUFFICES ASSUME IInv, PlanInv, BuiltIsThere, [Next]_vars PROVE PlanInv' /\ BuiltIsThere'
  OBVIOUS
<1>a. build \in [Builds -> Build \cup {None}] /\ approved \subseteq Chunks
  BY DEF IInv, Typed
<1>b. \A c \in built : CoveredBy(c, DOMAIN graph)
  BY BuiltIs
<1>1. ASSUME NEW b \in Builds, upsert_insert(b) \/ upsert_update(b)
      PROVE  PlanInv' /\ BuiltIsThere'
  <2>1. PlanInv' /\ DOMAIN graph \subseteq DOMAIN graph' /\ built' = built
    BY <1>1, UpsertKeeps
  <2>2. \A c \in built' : CoveredBy(c, DOMAIN graph')
    BY <1>b, <2>1, CoverGrows, Zenon
  <2>3. BuiltIsThere'
    BY <2>2 DEF BuiltIsThere, CoveredBy, LinkKey
  <2> QED
    BY <2>1, <2>3
<1>2. ASSUME NEW b \in Builds, build_graph_returns(b) PROVE PlanInv' /\ BuiltIsThere'
  <2> DEFINE list == build[b].list
  <2>1. /\ build[b] # None /\ build[b].todo = << >> /\ graph' = graph
        /\ build' = [build EXCEPT ![b] = None] /\ built' = built \cup Range(list)
    BY <1>2 DEF build_graph_returns
  <2>2. list \in Seq(Chunks)
    BY <1>a, <2>1 DEF Build
  <2>3. \A u \in Range(build_from_chunks(list)) : u.key \in DOMAIN graph
    <3>1. Range(<< >>) = {}
      BY DEF Range
    <3> QED
      BY <2>1, <3>1 DEF PlanInv
  <2>4. \A c \in Range(list) : CoveredBy(c, DOMAIN graph)
    <3> DEFINE keys == {u.key : u \in Range(build_from_chunks(list))}
    <3>1. \A c \in Range(list) : CoveredBy(c, keys)
      BY <2>2, PlanIs
    <3>2. keys \subseteq DOMAIN graph
      BY <2>3
    <3> HIDE DEF keys
    <3> QED
      BY <3>1, <3>2, CoverGrows, Zenon
  <2>5. \A c \in built' : CoveredBy(c, DOMAIN graph')
    BY <1>b, <2>1, <2>4
  <2>6. BuiltIsThere'
    BY <2>5 DEF BuiltIsThere, CoveredBy, LinkKey
  <2>7. PlanInv'
    BY <1>a, <2>1 DEF PlanInv
  <2> QED
    BY <2>6, <2>7
<1>3. ASSUME NEW b \in Builds, build_graph(b) PROVE PlanInv' /\ BuiltIsThere'
  <2> DEFINE list == Oldest(approved, Limit)
             new  == [list |-> list, todo |-> build_from_chunks(list),
                      step |-> "select", at |-> 0, row |-> None]
  <2>1. build' = [build EXCEPT ![b] = new] /\ graph' = graph /\ built' = built
    BY <1>3 DEF build_graph, auxVars
  <2>2. new.todo = build_from_chunks(new.list)
    OBVIOUS
  <2> HIDE DEF new
  <2>3. PlanInv'
    BY <1>a, <2>1, <2>2 DEF PlanInv
  <2> QED
    BY <2>1, <2>3 DEF BuiltIsThere
<1>4. ASSUME NEW b \in Builds, upsert_select(b) PROVE PlanInv' /\ BuiltIsThere'
  <2>1. build[b] # None /\ build[b] \in Build /\ graph' = graph /\ built' = built
    BY <1>a, <1>4 DEF upsert_select, Upserting, auxVars
  <2>2. /\ \A a \in Builds : a # b => build'[a] = build[a]
        /\ build'[b].list = build[b].list /\ build'[b].todo = build[b].todo
    <3>1. CASE build' = [build EXCEPT ![b].step = "insert"]
      <4>1. build'[b] = [build[b] EXCEPT !.step = "insert"]
        BY <1>a, <3>1
      <4> QED
        BY <1>a, <2>1, <3>1, <4>1 DEF Build
    <3>2. ASSUME NEW at, NEW row,
                 build' = [build EXCEPT ![b].step = "update", ![b].at = at, ![b].row = row]
          PROVE  /\ \A a \in Builds : a # b => build'[a] = build[a]
                 /\ build'[b].list = build[b].list /\ build'[b].todo = build[b].todo
      <4>1. build'[b] = [build[b] EXCEPT !.step = "update", !.at = at, !.row = row]
        BY <1>a, <3>2
      <4>2. build'[b].list = build[b].list /\ build'[b].todo = build[b].todo
        BY <2>1, <4>1 DEF Build
      <4> QED
        BY <1>a, <3>2, <4>2
    <3> QED
      BY <1>4, <3>1, <3>2 DEF upsert_select
  <2>3. PlanInv'
    BY <2>1, <2>2 DEF PlanInv
  <2> QED
    BY <2>1, <2>3 DEF BuiltIsThere
<1>5. ASSUME NEW b \in Builds, build_graph_raises(b) PROVE PlanInv' /\ BuiltIsThere'
  <2>1. build' = [build EXCEPT ![b] = None] /\ graph' = graph /\ built' = built
    BY <1>5 DEF build_graph_raises, auxVars
  <2>2. PlanInv'
    BY <1>a, <2>1 DEF PlanInv
  <2> QED
    BY <2>1, <2>2 DEF BuiltIsThere
<1>6. CASE (\E c \in Chunks : approve(c)) \/ UNCHANGED vars
  <2>1. build' = build /\ graph' = graph /\ built' = built
    BY <1>6 DEF approve, vars, auxVars
  <2> QED
    BY <2>1 DEF PlanInv, BuiltIsThere
<1> QED
  BY <1>1, <1>2, <1>3, <1>4, <1>5, <1>6 DEF Next

-----------------------------------------------------------------------------
(* What the rows record is what their chunks say.                          *)

\* The provenance of an updated row is the row's own, or what was read and the
\* chunk of the upsert.
LEMMA UpdatedRecords ==
    ASSUME NEW now, RowOK(now), NEW read, RowOK(read), NEW u \in AllUpserts
    PROVE  Range(Updated(now, read, u).provenance.chunk_id)
             \subseteq Range(now.provenance.chunk_id)
                         \cup (Range(read.provenance.chunk_id) \cup {u.chunk})
<1> DEFINE merged == merge_provenance(read.provenance, u.chunk)
<1>1. read.provenance.chunk_id \in Seq(Chunks) /\ IsInjective(read.provenance.chunk_id)
  BY DEF RowOK, Row
<1>2. u.chunk \in Chunks
  BY PlansTyped
<1>3. Range(Merge(read.provenance.chunk_id, u.chunk))
        = Range(read.provenance.chunk_id) \cup {u.chunk}
  <2> DEFINE s == read.provenance.chunk_id
             c == u.chunk
  <2> HIDE DEF merged, s, c
  <2>1. s \in Seq(Chunks) /\ IsInjective(s) /\ c \in Chunks
    BY <1>1, <1>2 DEF s, c
  <2>2. Range(Merge(s, c)) = Range(s) \cup {c}
    BY <2>1, MergeChunk
  <2> QED
    BY <2>2 DEF s, c
<1>4. merged.chunk_id = Merge(read.provenance.chunk_id, u.chunk)
  BY DEF merge_provenance
<1>5. Updated(now, read, u).provenance \in {merged, now.provenance}
  BY DEF Updated
<1> HIDE DEF merged
<1> QED
  BY <1>3, <1>4, <1>5

\* An upsert keeps the rows grounded if those that it stores are.
LEMMA StoredGrounded ==
    ASSUME IInv, GroundedInv, NEW b \in Builds, NEW step, Upserting(b, step),
           NEW R, Store(Current(b).key, R), NEW fresh, Upserted(b, fresh),
           \A i \in DOMAIN R : Grounded(R[i], Current(b).key)
    PROVE  GroundedInv'
<1> DEFINE k == Current(b).key
<1>1. build \in [Builds -> Build \cup {None}] /\ build[b] \in Build /\ build[b] # None
  BY UpsertTyped DEF IInv, Typed
<1>2. /\ \A a \in Builds : a # b => build'[a] = build[a]
      /\ build'[b].step = "select"
  <2>1. build' = [build EXCEPT ![b].todo = Tail(@), ![b].step = "select",
                               ![b].at = 0, ![b].row = None]
    BY DEF Upserted
  <2>2. build'[b] = [build[b] EXCEPT !.todo = Tail(build[b].todo), !.step = "select",
                                     !.at = 0, !.row = None]
    BY <1>1, <2>1
  <2>3. build'[b].step = "select"
    BY <1>1, <2>2 DEF Build
  <2> QED
    BY <1>1, <2>1, <2>3
<1>3. ASSUME NEW x \in DOMAIN graph', NEW i \in DOMAIN graph'[x]
      PROVE  Grounded(graph'[x][i], x)
  <2>1. /\ x \in DOMAIN graph \cup {k}
        /\ graph'[x] = IF x = k THEN R ELSE graph[x]
    BY DEF Store
  <2>2. CASE x = k
    BY <1>3, <2>1, <2>2
  <2>3. CASE x # k
    BY <1>3, <2>1, <2>3 DEF GroundedInv
  <2> QED
    BY <2>2, <2>3
<1>4. ASSUME NEW a \in Builds, build'[a] # None, build'[a].step = "update"
      PROVE  Grounded(build'[a].row, Head(build'[a].todo).key)
  BY <1>2, <1>4 DEF GroundedInv, Current
<1> QED
  BY <1>3, <1>4 DEF GroundedInv, Current

\* Every step keeps them so: what an insert or an update records is the chunk of
\* its upsert and what was read of a row of the same key.
LEMMA GroundedStep == IInv /\ GroundedInv /\ [Next]_vars => GroundedInv'
<1> SUFFICES ASSUME IInv, GroundedInv, [Next]_vars PROVE GroundedInv'
  OBVIOUS
<1>a. build \in [Builds -> Build \cup {None}]
  BY DEF IInv, Typed
<1>1. ASSUME NEW b \in Builds, upsert_insert(b) PROVE GroundedInv'
  <2> DEFINE u   == Current(b)
             old == Rows(u.key)
             R   == Append(old, NewRow(u))
  <2>1. Upserting(b, "insert") /\ Store(u.key, R) /\ Upserted(b, old = << >>)
    BY <1>1 DEF upsert_insert
  <2>2. u \in AllUpserts /\ Supports(u.chunk, u.key)
    BY <2>1, UpsertTyped, PlansTyped DEF IInv
  <2>3. NewRow(u) \in Row /\ Grounded(NewRow(u), u.key)
    <3>1. RowOK(NewRow(u)) /\ NewRow(u).provenance.chunk_id = << u.chunk >>
      BY <2>2, NewRowOK
    <3>2. Range(<< u.chunk >>) = {u.chunk}
      BY DEF Range
    <3> QED
      BY <2>2, <3>1, <3>2 DEF Grounded, RowOK
  <2>4. old \in Seq(Row) /\ \A i \in DOMAIN old : Grounded(old[i], u.key)
    BY DEF IInv, RowsInv, GroundedInv, Rows
  <2>5. \A i \in DOMAIN R : Grounded(R[i], u.key)
    <3> HIDE DEF old, u
    <3>1. /\ DOMAIN old = 1..Len(old) /\ DOMAIN R = 1..(Len(old) + 1) /\ Len(old) \in Nat
          /\ \A i \in 1..Len(old) : R[i] = old[i]
          /\ R[Len(old) + 1] = NewRow(u)
      BY <2>3, <2>4, AppendRow
    <3> HIDE DEF R
    <3>2. \A i \in DOMAIN R : \/ i \in DOMAIN old /\ R[i] = old[i]
                             \/ R[i] = NewRow(u)
      BY <3>1
    <3> QED
      BY <2>3, <2>4, <3>2
  <2> HIDE DEF R, old
  <2> QED
    BY <2>1, <2>5, StoredGrounded
<1>2. ASSUME NEW b \in Builds, upsert_update(b) PROVE GroundedInv'
  <2> DEFINE u    == Current(b)
             old  == Rows(u.key)
             at   == build[b].at
             read == build[b].row
             new  == Updated(old[at], read, u)
             R    == [old EXCEPT ![at] = new]
  <2>1. Upserting(b, "update") /\ Store(u.key, R) /\ Upserted(b, old[at] = read)
    BY <1>2 DEF upsert_update
  <2>2. u \in AllUpserts /\ Supports(u.chunk, u.key)
    BY <2>1, UpsertTyped, PlansTyped DEF IInv
  <2>3. /\ u.key \in DOMAIN graph /\ old = graph[u.key] /\ at \in DOMAIN old
        /\ RowOK(read) /\ Grounded(read, u.key)
    BY <2>1 DEF IInv, BuildInv, GroundedInv, Upserting, Rows
  <2>4. \A i \in DOMAIN old : RowOK(old[i]) /\ Grounded(old[i], u.key)
    BY <2>3 DEF IInv, RowsInv, GroundedInv
  <2>5. Grounded(new, u.key)
    <3> HIDE DEF u, old, at, read
    <3>1. Range(new.provenance.chunk_id)
            \subseteq Range(old[at].provenance.chunk_id)
                        \cup (Range(read.provenance.chunk_id) \cup {u.chunk})
      BY <2>2, <2>3, <2>4, UpdatedRecords
    <3> HIDE DEF new
    <3> QED
      BY <2>2, <2>3, <2>4, <3>1 DEF Grounded
  <2>6. \A i \in DOMAIN R : Grounded(R[i], u.key)
    <3> HIDE DEF u, old, at, read, new
    <3> QED
      BY <2>3, <2>4, <2>5
  <2> HIDE DEF R, old, at, read
  <2> QED
    BY <2>1, <2>6, StoredGrounded
<1>3. ASSUME NEW b \in Builds, upsert_select(b) PROVE GroundedInv'
  <2> DEFINE k == Current(b).key
  <2>1. Upserting(b, "select") /\ build[b] \in Build /\ graph' = graph
    BY <1>a, <1>3 DEF upsert_select, Upserting
  <2>2. CASE build' = [build EXCEPT ![b].step = "insert"]
    <3>1. build'[b].step = "insert" /\ \A a \in Builds : a # b => build'[a] = build[a]
      <4>1. build'[b] = [build[b] EXCEPT !.step = "insert"]
        BY <1>a, <2>2
      <4> QED
        BY <1>a, <2>1, <2>2, <4>1 DEF Build
    <3> QED
      BY <2>1, <3>1 DEF GroundedInv, Current
  <2>3. ASSUME NEW i \in DOMAIN Rows(k),
               build' = [build EXCEPT ![b].step = "update", ![b].at = i, ![b].row = Rows(k)[i]]
        PROVE  GroundedInv'
    <3>1. Grounded(Rows(k)[i], k)
      BY <2>3 DEF Rows, GroundedInv
    <3> DEFINE row == Rows(k)[i]
    <3>2. build'[b] = [build[b] EXCEPT !.step = "update", !.at = i, !.row = row]
      BY <1>a, <2>3
    <3> HIDE DEF row
    <3>3. build'[b].row = row /\ build'[b].todo = build[b].todo
      BY <2>1, <3>2 DEF Build
    <3>4. \A a \in Builds : a # b => build'[a] = build[a]
      BY <1>a, <2>3
    <3>5. ASSUME NEW a \in Builds, build'[a] # None, build'[a].step = "update"
          PROVE  Grounded(build'[a].row, Head(build'[a].todo).key)
      <4>1. CASE a = b
        BY <3>1, <3>3, <4>1 DEF row, Current
      <4>2. CASE a # b
        BY <3>4, <3>5, <4>2 DEF GroundedInv, Current
      <4> QED
        BY <4>1, <4>2
    <3> QED
      BY <2>1, <3>5 DEF GroundedInv, Current
  <2> QED
    BY <1>3, <2>2, <2>3 DEF upsert_select
<1>4. ASSUME NEW b \in Builds, build_graph(b) PROVE GroundedInv'
  <2> DEFINE list == Oldest(approved, Limit)
             new  == [list |-> list, todo |-> build_from_chunks(list),
                      step |-> "select", at |-> 0, row |-> None]
  <2>1. build' = [build EXCEPT ![b] = new] /\ graph' = graph
    BY <1>4 DEF build_graph, auxVars
  <2>2. new.step = "select"
    OBVIOUS
  <2> HIDE DEF new
  <2> QED
    BY <1>a, <2>1, <2>2 DEF GroundedInv, Current
<1>5. ASSUME NEW b \in Builds, build_graph_returns(b) \/ build_graph_raises(b)
      PROVE  GroundedInv'
  <2>1. build' = [build EXCEPT ![b] = None] /\ graph' = graph
    BY <1>5 DEF build_graph_returns, build_graph_raises, auxVars
  <2> QED
    BY <1>a, <2>1 DEF GroundedInv, Current
<1>6. CASE (\E c \in Chunks : approve(c)) \/ UNCHANGED vars
  <2>1. build' = build /\ graph' = graph
    BY <1>6 DEF approve, vars, auxVars
  <2> QED
    BY <2>1 DEF GroundedInv, Current
<1> QED
  BY <1>1, <1>2, <1>3, <1>4, <1>5, <1>6 DEF Next

\* The elements that a loop keeps are those of the list that pass its test.
LEMMA KeptIs ==
  ASSUME NEW s, IsSequence(s), NEW P \in SUBSET DOMAIN s
  PROVE  \A x : x \in Range(Selected(s, P)) <=> \E i \in P : x = s[i]
  BY SelectedIs

\* The entities and relationships that are kept of a reply.
LEMMA ReplyIs ==
  ASSUME NEW c \in DOMAIN Inputs, Replies[c] # None
  PROVE  /\ \A e : e \in Range(ReplyEntities(c))
                <=> e \in Range(Replies[c].entities) /\ e.name # Blank /\ Sure(c, e)
         /\ \A r \in Range(ReplyRelationships(c)) :
              /\ r \in Range(Replies[c].relationships) /\ Blank \notin {r.source, r.target}
              /\ \A name \in {r.source, r.target} :
                   \E e \in Range(ReplyEntities(c)) : Lower[e.name] = Lower[name]
<1>1. IsSequence(Replies[c].entities) /\ IsSequence(Replies[c].relationships)
  BY ExtractionAssumption
<1> DEFINE es == Replies[c].entities
           E  == {i \in DOMAIN es : es[i].name # Blank /\ Sure(c, es[i])}
           rs == Replies[c].relationships
           lowered == {Lower[e.name] : e \in Range(ReplyEntities(c))}
           R  == {i \in DOMAIN rs :
                    /\ Blank \notin {rs[i].source, rs[i].target} /\ Sure(c, rs[i])
                    /\ {Lower[rs[i].source], Lower[rs[i].target]} \subseteq lowered}
<1>2. ReplyEntities(c) = Selected(es, E)
  BY DEF ReplyEntities, Kept
<1>3. ReplyRelationships(c) = Selected(rs, R)
  BY DEF ReplyRelationships, Kept
<1>4. \A x : x \in Range(ReplyEntities(c)) <=> \E i \in E : x = es[i]
  <2>1. E \in SUBSET DOMAIN es
    OBVIOUS
  <2> HIDE DEF E, es
  <2> QED
    BY <1>1, <1>2, <2>1, KeptIs DEF es
<1>5. \A x : x \in Range(ReplyRelationships(c)) <=> \E i \in R : x = rs[i]
  <2>1. R \in SUBSET DOMAIN rs
    OBVIOUS
  <2> HIDE DEF R, rs
  <2> QED
    BY <1>1, <1>3, <2>1, KeptIs DEF rs
<1>6. \A e : e \in Range(ReplyEntities(c))
              <=> e \in Range(es) /\ e.name # Blank /\ Sure(c, e)
  BY <1>4 DEF Range
<1>7. ASSUME NEW r \in Range(ReplyRelationships(c))
      PROVE  /\ r \in Range(rs) /\ Blank \notin {r.source, r.target}
             /\ \A name \in {r.source, r.target} :
                  \E e \in Range(ReplyEntities(c)) : Lower[e.name] = Lower[name]
  <2>1. PICK i \in R : r = rs[i]
    BY <1>5
  <2>2. r \in Range(rs)
    BY <2>1 DEF Range
  <2>3. Blank \notin {r.source, r.target} /\ {Lower[r.source], Lower[r.target]} \subseteq lowered
    BY <2>1
  <2> QED
    BY <2>2, <2>3
<1> QED
  BY <1>6, <1>7

\* What the extractors give the build of a chunk.
LEMMA CorpusIs ==
  ASSUME NEW c \in Chunks
  PROVE  /\ c \in DOMAIN Inputs
         /\ Range(Corpus[c].entities) = {EntityOf(c, e) : e \in Range(extract(c).entities)}
         /\ Range(Corpus[c].relationships)
              = {RelationshipOf(c, r) : r \in Range(extract(c).relationships)}
         /\ Range(Corpus[c].hyperedges)
              = {HyperedgeOf(c, h) : h \in Range(extract_hyperedges(c))}
<1>1. c \in DOMAIN Inputs /\ Corpus[c] = ChunkOf(c)
  BY ExtractionAssumption DEF Extracted, Chunks
<1> DEFINE es == extract(c).entities
           rs == extract(c).relationships
           hs == extract_hyperedges(c)
<1>2. /\ Corpus[c].entities = [i \in DOMAIN es |-> EntityOf(c, es[i])]
      /\ Corpus[c].relationships = [i \in DOMAIN rs |-> RelationshipOf(c, rs[i])]
      /\ Corpus[c].hyperedges = [i \in DOMAIN hs |-> HyperedgeOf(c, hs[i])]
  BY <1>1 DEF ChunkOf
<1> HIDE DEF es, rs, hs
<1>3. Range(Corpus[c].entities) = {EntityOf(c, e) : e \in Range(es)}
  BY <1>2 DEF Range
<1>4. Range(Corpus[c].relationships) = {RelationshipOf(c, r) : r \in Range(rs)}
  BY <1>2 DEF Range
<1>5. Range(Corpus[c].hyperedges) = {HyperedgeOf(c, h) : h \in Range(hs)}
  BY <1>2 DEF Range
<1> QED
  BY <1>1, <1>3, <1>4, <1>5 DEF es, rs, hs

\* The entities that are called by a name are those that are given of it.
LEMMA CallsIs ==
  ASSUME NEW c \in DOMAIN Inputs, NEW name
  PROVE  Calls(c, name) = {e \in Range(extract(c).entities) : Normal[e.name] = name}
<1>1. CASE c \in Usable
  <2>1. Replies[c] # None /\ Source(c) = Replies[c]
        /\ extract(c).entities = ReplyEntities(c)
    BY <1>1 DEF Usable, Source, extract
  <2> QED
    BY <1>1, <2>1, ReplyIs DEF Calls
<1>2. CASE c \notin Usable
  BY <1>2 DEF Source, extract, Calls
<1> QED
  BY <1>1, <1>2

\* What the candidates of a chunk have, its source says.
LEMMA SupportedIsSaid ==
  ASSUME NEW c \in Chunks, NEW k, Supports(c, k) PROVE Says(c, k)
<1>1. c \in DOMAIN Inputs
  BY CorpusIs
<1>2. ASSUME NEW e \in Range(Corpus[c].entities), k[1] = "entity", k[2] = e.name, k[3] = e.type,
             \A f \in Range(Corpus[c].entities) : f.name = e.name => f.confidence <= e.confidence
      PROVE  Says(c, k)
  <2>1. PICK x \in Range(extract(c).entities) : e = EntityOf(c, x)
    BY CorpusIs
  <2>2. \A y : EntityOf(c, y).name = Normal[y.name] /\ EntityOf(c, y).type = y.type
              /\ EntityOf(c, y).confidence = Confidence(c, y)
    BY DEF EntityOf
  <2>3. x \in Calls(c, k[2]) /\ x.type = k[3]
    BY <1>1, <1>2, <2>1, <2>2, CallsIs
  <2>4. ASSUME NEW y \in Calls(c, k[2]) PROVE Confidence(c, y) <= Confidence(c, x)
    <3>1. y \in Range(extract(c).entities) /\ Normal[y.name] = k[2]
      BY <1>1, <2>4, CallsIs
    <3>2. EntityOf(c, y) \in Range(Corpus[c].entities)
      BY <3>1, CorpusIs
    <3> QED
      BY <1>2, <2>1, <2>2, <3>1, <3>2
  <2> QED
    BY <1>2, <2>3, <2>4 DEF Says
<1>3. ASSUME NEW r \in Range(Corpus[c].relationships), k[1] = "edge",
             << r.source, r.target, r.type >> = << k[2][2], k[3][2], k[4] >>
      PROVE  Says(c, k)
  <2>1. PICK x \in Range(extract(c).relationships) : r = RelationshipOf(c, x)
    BY CorpusIs
  <2>2. << Normal[x.source], Normal[x.target], x.type >> = << k[2][2], k[3][2], k[4] >>
    BY <1>3, <2>1 DEF RelationshipOf
  <2>3. CASE c \in Usable
    <3>1. /\ Replies[c] # None /\ Source(c) = Replies[c]
          /\ extract(c).entities = ReplyEntities(c)
          /\ extract(c).relationships = ReplyRelationships(c)
      BY <2>3 DEF Usable, Source, extract
    <3>2. /\ x \in Range(Replies[c].relationships) /\ Blank \notin {x.source, x.target}
          /\ \A name \in {x.source, x.target} :
               \E e \in Range(ReplyEntities(c)) : Lower[e.name] = Lower[name]
      BY <1>1, <2>1, <3>1, ReplyIs
    <3>3. ASSUME NEW name \in {x.source, x.target} PROVE Calls(c, Normal[name]) # {}
      <4>1. PICK e \in Range(ReplyEntities(c)) : Lower[e.name] = Lower[name]
        BY <3>2
      <4>2. e \in Range(Replies[c].entities) /\ e.name # Blank
        BY <1>1, <3>1, ReplyIs
      <4>3. name \in DOMAIN Lower /\ e.name \in DOMAIN Lower
        BY <1>1, <3>1, <3>2, <4>2, ExtractionAssumption
      <4>4. Normal[e.name] = Normal[name]
        BY <4>1, <4>3, ExtractionAssumption
      <4> QED
        BY <1>1, <3>1, <4>4, CallsIs
    <3>4. Calls(c, k[2][2]) # {} /\ Calls(c, k[3][2]) # {}
      BY <2>2, <3>3
    <3> QED
      BY <1>3, <2>2, <3>1, <3>2, <3>4 DEF Says
  <2>4. CASE c \notin Usable
    <3>1. x \in Range(Source(c).relationships)
      BY <2>1, <2>4 DEF Source, extract
    <3> QED
      BY <1>3, <2>2, <2>4, <3>1 DEF Says
  <2> QED
    BY <2>3, <2>4
<1>4. ASSUME NEW h \in Range(Corpus[c].hyperedges), k[1] = "hyperedge", k[3] = h.type,
             {m[2] : m \in k[2]} \subseteq Range(h.names)
      PROVE  Says(c, k)
  <2>1. PICK x \in Range(extract_hyperedges(c)) : h = HyperedgeOf(c, x)
    BY CorpusIs
  <2>2. h.type = x.type /\ Range(h.names) = {Normal[n] : n \in Range(NamesOf(x))}
    <3> DEFINE names == NamesOf(x)
    <3>1. h.type = x.type /\ h.names = [i \in DOMAIN names |-> Normal[names[i]]]
      BY <2>1 DEF HyperedgeOf
    <3> HIDE DEF names
    <3>2. Range(h.names) = {Normal[n] : n \in Range(names)}
      BY <3>1 DEF Range
    <3> QED
      BY <3>1, <3>2 DEF names
  <2>3. x \in Range(HyperReplies[c])
    <3> DEFINE hs == HyperReplies[c]
               P  == {i \in DOMAIN hs : Cardinality(Range(NamesOf(hs[i]))) >= MinMembers
                                         /\ Sure(c, hs[i])}
    <3>1. Range(<< >>) = {}
      BY DEF Range
    <3>2. HyperReplies[c] # None /\ extract_hyperedges(c) = Selected(hs, P)
      BY <2>1, <3>1 DEF extract_hyperedges, Kept
    <3>3. IsSequence(hs) /\ P \in SUBSET DOMAIN hs
      BY <1>1, <3>2, ExtractionAssumption
    <3> HIDE DEF P, hs
    <3>4. \E i \in P : x = hs[i]
      BY <2>1, <3>2, <3>3, KeptIs
    <3> QED
      BY <3>3, <3>4 DEF Range, hs
  <2> QED
    BY <1>4, <2>2, <2>3 DEF Says
<1>5. ASSUME \/ /\ k[1] = "entity"
                /\ k \in {Title(t) : t \in {Doc(c)} \cup Range(Wikilinks[Doc(c)])}
             \/ k[1] = "edge" /\ \E t \in Range(Wikilinks[Doc(c)]) : k = LinkKey(c, t)
      PROVE  Says(c, k)
  BY <1>5 DEF Says, LinkKey
<1> QED
  BY <1>2, <1>3, <1>4, <1>5 DEF Supports

-----------------------------------------------------------------------------
(* The theorems.                                                           *)

\* Every reachable state has the types declared for it; rows that the database
\* keeps unique are unique.
THEOREM GraphTypeCorrect == Spec => []GraphTypeOK
<1>1. ASSUME IInv PROVE GraphTypeOK
  <2>1. ASSUME NEW k \in DOMAIN graph
        PROVE  /\ graph[k] \in Seq(Row) /\ graph[k] # << >>
               /\ k[1] # "hyperedge" => Len(graph[k]) = 1
               /\ \A row \in Range(graph[k]) : \A field \in DOMAIN row.provenance :
                    row.provenance[field] # << >> /\ IsInjective(row.provenance[field])
    <3>1. ASSUME NEW row \in Range(graph[k])
          PROVE  \A field \in DOMAIN row.provenance :
                   row.provenance[field] # << >> /\ IsInjective(row.provenance[field])
      <4>1. RowOK(row)
        BY <1>1, <2>1, <3>1 DEF IInv, RowsInv, Range
      <4>2. DOMAIN row.provenance = {"chunk_id", "document_id"}
        BY <4>1 DEF RowOK, Row
      <4> QED
        BY <4>1, <4>2 DEF RowOK
    <3> QED
      BY <1>1, <2>1, <3>1 DEF IInv, RowsInv
  <2> QED
    BY <1>1, <2>1 DEF GraphTypeOK, IInv, Typed
<1> QED
  BY <1>1, Invariant, PTL

\* However builds overwrite each other, the documents that a row records are
\* those of its chunks.
THEOREM ProvenanceAgrees == Spec => []ProvenanceConsistent
<1>1. ASSUME IInv PROVE ProvenanceConsistent
  <2> SUFFICES ASSUME NEW k \in DOMAIN graph, NEW row \in Range(graph[k])
               PROVE  Range(row.provenance.document_id)
                        = {Doc(c) : c \in Range(row.provenance.chunk_id)}
    BY DEF ProvenanceConsistent
  <2>1. RowOK(row)
    BY <1>1 DEF IInv, RowsInv, Range
  <2> QED
    BY <2>1 DEF RowOK
<1> QED
  BY <1>1, Invariant, PTL

\* Whatever other builds do or fail to do meanwhile, the chunks of a build that
\* has returned are in the graph: an entity for each name, an edge for each
\* relationship between two of them, and their document's links.
THEOREM BuiltChunksAreThere == Spec => []BuiltIsThere
<1>1. Init => PlanInv /\ BuiltIsThere
  BY DEF Init, PlanInv, BuiltIsThere
<1> QED
  BY <1>1, Invariant, BuiltStep, PTL DEF Spec

\* A key that no two builds raced for is found by the first two chunks that it was
\* upserted for.
THEOREM EarlyChunksAreFound == Spec => []EarlyChunksFound
<1>1. ASSUME IInv PROVE EarlyChunksFound
  <2> SUFFICES ASSUME NEW k \in DOMAIN graph \ raced, NEW i \in DOMAIN upserted[k], i <= 2
               PROVE  k \in graph_for_chunk(upserted[k][i])
    BY DEF EarlyChunksFound
  <2> DEFINE C == graph[k][1].provenance.chunk_id
             U == upserted[k]
  <2>1. Len(graph[k]) = 1 /\ Early(U, C) /\ graph[k] \in Seq(Row)
    BY <1>1 DEF IInv, EarlyInv, RowsInv
  <2>2. U \in Seq(Chunks)
    BY <1>1 DEF IInv, Typed, HistoryInv
  <2>3. i = 1 \/ (i = 2 /\ Len(U) >= 2)
    <3> HIDE DEF U
    <3>1. i \in DOMAIN U
      BY DEF U
    <3>2. DOMAIN U = 1..Len(U) /\ Len(U) \in Nat
      BY <2>2
    <3> QED
      BY <3>1, <3>2
  <2>4. U[i] \in Range(C)
    BY <2>1, <2>3 DEF Early
  <2>5. graph[k][1] \in Range(graph[k])
    BY <2>1 DEF Range
  <2> QED
    BY <2>4, <2>5 DEF graph_for_chunk
<1> QED
  BY <1>1, Invariant, PTL

\* What an upsert of b does to the rows of a key other than its own: nothing.
LEMMA OtherRows ==
    ASSUME NEW k, NEW R, Store(k, R), NEW x \in DOMAIN graph
    PROVE  /\ x \in DOMAIN graph'
           /\ x # k => graph'[x] = graph[x]
           /\ x = k => graph'[x] = R
  BY DEF Store

\* Nothing is taken from a row that stays as it is.
LEMMA SameGrows == ASSUME NEW row, RowOK(row) PROVE Grows(row, row)
<1>1. row.confidence \in 0..Full
  BY DEF RowOK, Row
<1>2. row.confidence >= row.confidence
  BY <1>1, CorpusAssumption
<1> QED
  BY <1>2 DEF Grows

\* No step but a write over a row changed since it was read takes anything from a
\* row.
THEOREM OnlyRacesMayForget == Spec => OnlyRacesForget
<1> DEFINE Keeps == \A k \in DOMAIN graph \ raced' :
                      /\ k \in DOMAIN graph'
                      /\ \A i \in DOMAIN graph[k] : Grows(graph[k][i], graph'[k][i])
<1>1. ASSUME IInv, [Next]_vars PROVE Keeps
  <2> SUFFICES ASSUME NEW x \in DOMAIN graph, x \notin raced'
               PROVE  /\ x \in DOMAIN graph'
                      /\ \A i \in DOMAIN graph[x] : Grows(graph[x][i], graph'[x][i])
    OBVIOUS
  <2>1. \A i \in DOMAIN graph[x] : RowOK(graph[x][i]) /\ Grows(graph[x][i], graph[x][i])
    BY <1>1, SameGrows DEF IInv, RowsInv
  <2>2. ASSUME NEW b \in Builds, upsert_insert(b)
        PROVE  /\ x \in DOMAIN graph'
               /\ \A i \in DOMAIN graph[x] : Grows(graph[x][i], graph'[x][i])
    <3> DEFINE u == Current(b)
               k == u.key
               R == Append(Rows(k), NewRow(u))
    <3>1. Upserting(b, "insert") /\ Store(k, R)
      BY <2>2 DEF upsert_insert
    <3>2. u \in AllUpserts
      BY <1>1, <3>1, UpsertTyped DEF IInv
    <3>3. Rows(k) \in Seq(Row) /\ NewRow(u) \in Row
      BY <1>1, <3>2, NewRowOK DEF IInv, RowsInv, Rows, RowOK
    <3>4. \A i \in DOMAIN Rows(k) : R[i] = Rows(k)[i]
      BY <3>3, AppendRow
    <3> HIDE DEF R, u
    <3>5. x = k => Rows(k) = graph[x]
      BY DEF Rows
    <3> QED
      BY <2>1, <3>1, <3>4, <3>5, OtherRows
  <2>3. ASSUME NEW b \in Builds, upsert_update(b)
        PROVE  /\ x \in DOMAIN graph'
               /\ \A i \in DOMAIN graph[x] : Grows(graph[x][i], graph'[x][i])
    <3> DEFINE u     == Current(b)
               k     == u.key
               at    == build[b].at
               read  == build[b].row
               now   == Rows(k)[at]
               R     == [Rows(k) EXCEPT ![at] = Updated(now, read, u)]
    <3>1. Upserting(b, "update") /\ Store(k, R) /\ Upserted(b, now = read)
      BY <2>3 DEF upsert_update
    <3>2. u \in AllUpserts
      BY <1>1, <3>1, UpsertTyped DEF IInv
    <3>3. k \in DOMAIN graph /\ Rows(k) = graph[k] /\ at \in DOMAIN graph[k] /\ RowOK(read)
      BY <1>1, <3>1 DEF IInv, BuildInv, Upserting, Rows
    <3>4. raced' = IF now = read THEN raced ELSE raced \cup {k}
      BY <3>1 DEF Upserted
    <3>5. x # k => /\ x \in DOMAIN graph'
                   /\ graph'[x] = graph[x]
      BY <3>1, OtherRows
    <3>6. ASSUME x = k PROVE /\ x \in DOMAIN graph'
                            /\ \A i \in DOMAIN graph[x] : Grows(graph[x][i], graph'[x][i])
      <4>1. now = read
        BY <3>4, <3>6
      <4>2. RowOK(now) /\ now = graph[x][at]
        BY <2>1, <3>3, <3>6
      <4>3. Grows(now, Updated(now, read, u))
        <5> HIDE DEF now, read, u
        <5> QED
          BY <3>2, <3>3, <4>1, <4>2, UpdatedOK
      <4>4. x \in DOMAIN graph' /\ graph'[x] = R
        BY <3>1, <3>6, OtherRows
      <4>5. \A i \in DOMAIN graph[x] : graph'[x][i] = IF i = at THEN Updated(now, read, u)
                                                     ELSE graph[x][i]
        BY <3>3, <3>6, <4>4
      <4> HIDE DEF now, read, u, at, R
      <4> QED
        BY <2>1, <4>2, <4>3, <4>4, <4>5
    <3> HIDE DEF now, read, u, at, R, k
    <3> QED
      BY <2>1, <3>5, <3>6
  <2>4. ASSUME graph' = graph
        PROVE  /\ x \in DOMAIN graph'
               /\ \A i \in DOMAIN graph[x] : Grows(graph[x][i], graph'[x][i])
    BY <2>1, <2>4
  <2> QED
    BY <1>1, <2>2, <2>3, <2>4
       DEF Next, approve, build_graph, build_graph_returns, build_graph_raises,
           upsert_select, vars, auxVars
<1>2. Keeps => [Keeps]_vars
  OBVIOUS
<1> QED
  BY <1>1, Invariant, PTL DEF Spec, OnlyRacesForget

\* Whatever is found by a chunk, the reply or the metadata of that chunk says:
\* the builds of other chunks, the resolution of names over all of them and the
\* merging of rows attribute nothing to it.
THEOREM GroundedInItsSource == Spec => []GroundedInSource
<1>1. Init => GroundedInv
  BY DEF Init, GroundedInv
<1>2. ASSUME IInv, GroundedInv PROVE GroundedInSource
  <2> SUFFICES ASSUME NEW c \in Chunks, NEW k \in graph_for_chunk(c) PROVE Says(c, k)
    BY DEF GroundedInSource
  <2>1. PICK row \in Range(graph[k]) : c \in Range(row.provenance.chunk_id)
    BY DEF graph_for_chunk
  <2>2. k \in DOMAIN graph /\ Grounded(row, k)
    BY <1>2 DEF graph_for_chunk, GroundedInv, Range
  <2>3. Supports(c, k)
    BY <2>1, <2>2 DEF Grounded
  <2> QED
    BY <2>3, SupportedIsSaid
<1> QED
  BY <1>1, <1>2, Invariant, GroundedStep, PTL DEF Spec
=============================================================================
