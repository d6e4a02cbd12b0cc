-------------------------- MODULE RateLimiterProofs --------------------------
(* What holds of RateLimiter for any clients, rpm, window and number of     *)
(* ticks in a second.                                                       *)
EXTENDS RateLimiter, FiniteSetTheorems, TLAPS

\* Stamps are appended as time passes: the oldest request is first.
Sorted(s) == \A i, j \in DOMAIN s : i <= j => s[j] <= s[i]

\* s is outside the window but for its end, which is a.
EndsIn(s, a) ==
    LET out == Len(s) - Len(a)
    IN  /\ out >= 0
        /\ \A i \in 1..Len(s) : s[i] = IF i <= out THEN Window + 1 ELSE a[i - out]

\* The queue ends with the requests let through in the window; what is before
\* them will be popped.
WindowInv(c) ==
    /\ EndsIn(q[c], admitted[c])
    /\ Sorted(admitted[c])
    /\ Len(q[c]) <= Rpm

\* A client that was told to wait waits until its oldest request is outside.
WaitInv(c) == told[c] # NotTold => q[c] # << >> /\ told[c] + Head(q[c]) >= Window + 1

IInv == LimiterTypeOK /\ \A c \in Clients : WindowInv(c) /\ WaitInv(c)

-----------------------------------------------------------------------------
(* Positions.                                                              *)

\* Positions that are there with all those before them are the first ones.
LEMMA FirstPositions ==
  ASSUME NEW n \in Nat, NEW P \in SUBSET (1..n), \A i \in P : \A j \in 1..i : j \in P
  PROVE  Cardinality(P) \in 0..n /\ P = 1..Cardinality(P)
<1>1. \A m \in Nat : IsFiniteSet(1..m) /\ Cardinality(1..m) = m
  <2>1. ASSUME NEW m \in Nat PROVE IsFiniteSet(1..m) /\ Cardinality(1..m) = m
    <3>1. /\ IsFiniteSet(1..m)
          /\ Cardinality(1..m) = IF 1 > m THEN 0 ELSE m - 1 + 1
      BY FS_Interval
    <3> QED
      BY <3>1
  <2> QED
    BY <2>1
<1>2. IsFiniteSet(P) /\ Cardinality(P) \in Nat /\ Cardinality(P) <= n
  <2>1. IsFiniteSet(1..n) /\ Cardinality(1..n) = n
    BY <1>1
  <2>2. IsFiniteSet(P) /\ Cardinality(P) <= Cardinality(1..n)
    BY <2>1, FS_Subset
  <2> QED
    BY <2>1, <2>2, FS_CardinalityType
<1>3. ASSUME NEW i \in P PROVE i <= Cardinality(P)
  <2>1. 1..i \subseteq P /\ i \in Nat
    OBVIOUS
  <2>2. Cardinality(1..i) <= Cardinality(P)
    BY <1>2, <2>1, FS_Subset
  <2> QED
    BY <1>1, <2>1, <2>2
<1>4. ASSUME NEW i \in 1..n, i \notin P PROVE Cardinality(P) < i
  <2>1. P \subseteq 1..(i - 1)
    <3>1. \A j \in P : j \in 1..n /\ ~ (i \in 1..j)
      BY <1>4
    <3> QED
      BY <3>1
  <2>2. i - 1 \in Nat
    OBVIOUS
  <2>3. IsFiniteSet(1..(i - 1)) /\ Cardinality(1..(i - 1)) = i - 1
    BY <1>1, <2>2
  <2>4. Cardinality(P) <= Cardinality(1..(i - 1))
    BY <2>1, <2>3, FS_Subset
  <2> QED
    BY <1>2, <2>3, <2>4
<1>5. \A i \in 1..n : i \in P <=> i \in 1..Cardinality(P)
  BY <1>2, <1>3, <1>4
<1>6. \A i \in 1..Cardinality(P) : i \in 1..n
  BY <1>2
<1>7. \A i \in P : i \in 1..Cardinality(P)
  BY <1>5
<1>8. P = 1..Cardinality(P)
  <2> DEFINE Q == 1..Cardinality(P)
  <2>1. \A i \in Q : i \in P
    BY <1>5, <1>6
  <2>2. \A i \in P : i \in Q
    BY <1>7
  <2> HIDE DEF Q
  <2>3. P = Q
    BY <2>1, <2>2
  <2> QED
    BY <2>3 DEF Q
<1> QED
  BY <1>2, <1>8

\* To select all positions after the m-th is to drop the first m elements.
LEMMA SelectedLast ==
  ASSUME NEW s, NEW n \in Nat, NEW m \in 0..n
  PROVE  Selected(s, (m + 1)..n) = [i \in 1..(n - m) |-> s[m + i]]
<1> DEFINE P      == (m + 1)..n
           nth(k) == CHOOSE i \in P : Cardinality({j \in P : j <= i}) = k
<1>1. ASSUME NEW i \in m..n PROVE Cardinality((m + 1)..i) = i - m
  <2>1. m + 1 \in Int /\ i \in Int
    OBVIOUS
  <2>2. Cardinality((m + 1)..i) = IF m + 1 > i THEN 0 ELSE i - (m + 1) + 1
    BY <2>1, FS_Interval
  <2> QED
    BY <2>2
<1>2. Cardinality(P) = n - m
  BY <1>1
<1>3. ASSUME NEW i \in P PROVE Cardinality({j \in P : j <= i}) = i - m
  <2>1. {j \in P : j <= i} = (m + 1)..i /\ i \in m..n
    OBVIOUS
  <2> HIDE DEF P
  <2> QED
    BY <1>1, <2>1
<1>4. ASSUME NEW k \in 1..(n - m) PROVE nth(k) = m + k
  <2>1. m + k \in P /\ (m + k) - m = k /\ \A i \in P : i - m = k => i = m + k
    OBVIOUS
  <2> HIDE DEF P
  <2> QED
    BY <1>3, <2>1
<1>5. Selected(s, P) = [k \in 1..(n - m) |-> s[nth(k)]]
  <2> HIDE DEF P
  <2> QED
    BY <1>2 DEF Selected
<1> HIDE DEF nth, P
<1>6. [k \in 1..(n - m) |-> s[nth(k)]] = [k \in 1..(n - m) |-> s[m + k]]
  BY <1>4
<1> QED
  BY <1>5, <1>6 DEF P

-----------------------------------------------------------------------------
(* The window.                                                             *)

\* The loop pops what is outside.
LEMMA PoppedIs ==
  ASSUME NEW s \in Seq(Ages), NEW a \in Seq(0..Window), EndsIn(s, a)
  PROVE  SubSeq(s, Cardinality(Popped(s)) + 1, Len(s)) = a
<1>1. /\ Len(s) \in Nat /\ Len(a) \in Nat /\ DOMAIN s = 1..Len(s) /\ Window \in Nat
      /\ a = [i \in 1..Len(a) |-> a[i]] /\ \A i \in 1..Len(a) : a[i] \in 0..Window
  BY LimiterAssumption
<1> DEFINE out == Len(s) - Len(a)
<1>2. /\ out \in 0..Len(s) /\ Len(s) - out = Len(a)
      /\ \A i \in 1..Len(s) : s[i] = IF i <= out THEN Window + 1 ELSE a[i - out]
  BY <1>1 DEF EndsIn
<1> HIDE DEF out
<1>3. \A i \in 1..Len(a) : s[out + i] = a[i] /\ out + i \in 1..Len(s)
  <2>1. ASSUME NEW i \in 1..Len(a)
        PROVE  out + i \in 1..Len(s) /\ ~ (out + i <= out) /\ (out + i) - out = i
    BY <1>1, <1>2
  <2> QED
    BY <1>2, <2>1
<1>4. Popped(s) = 1..out
  <2>1. ASSUME NEW i \in 1..out PROVE i \in Popped(s)
    <3>1. i \in 1..Len(s) /\ \A j \in 1..i : j \in 1..Len(s) /\ j <= out
      BY <1>1, <1>2
    <3>2. \A j \in 1..i : s[j] = Window + 1
      BY <1>2, <3>1
    <3> QED
      BY <1>1, <3>1, <3>2 DEF Popped, InWindow
  <2>2. ASSUME NEW i \in 1..Len(s), i > out PROVE i \notin Popped(s)
    <3>1. i - out \in 1..Len(a) /\ out + (i - out) = i /\ i \in 1..i
      BY <1>1, <1>2, <2>2
    <3>2. s[i] = a[i - out] /\ a[i - out] <= Window
      BY <1>1, <1>3, <3>1
    <3> QED
      BY <3>1, <3>2 DEF Popped, InWindow
  <2>3. \A i \in Popped(s) : i \in 1..Len(s)
    BY <1>1 DEF Popped
  <2>4. \A i \in 1..Len(s) : i > out \/ i \in 1..out
    BY <1>1, <1>2
  <2> QED
    BY <2>1, <2>2, <2>3, <2>4
<1>5. Cardinality(Popped(s)) = out
  <2>1. \A i \in 1..out : \A j \in 1..i : j \in 1..out
    BY <1>2
  <2>2. 1 \in Int /\ out \in Int
    BY <1>2
  <2>3. Cardinality(1..out) = IF 1 > out THEN 0 ELSE out - 1 + 1
    BY <2>2, FS_Interval
  <2>4. Cardinality(1..out) = out
    <3>1. out \in Nat
      BY <1>1, <1>2
    <3> QED
      BY <2>3, <3>1
  <2> QED
    BY <1>4, <2>4, Zenon
<1>6. SubSeq(s, out + 1, Len(s)) = [i \in 1..(Len(s) - out) |-> s[out + i]]
  <2>1. out \in Nat /\ Len(s) \in Nat
    BY <1>1, <1>2
  <2> QED
    BY <2>1
<1> QED
  BY <1>1, <1>2, <1>3, <1>5, <1>6

\* What the loop leaves is what was let through in the window.
LEMMA PrunedIs ==
  ASSUME LimiterTypeOK, NEW c \in Clients, WindowInv(c)
  PROVE  Pruned(c) = admitted[c]
BY PoppedIs DEF LimiterTypeOK, WindowInv, Pruned

\* A tick takes the first requests out of a window that is in order.
LEMMA RecentIs ==
  ASSUME NEW s \in Seq(0..Window), Sorted(s)
  PROVE  LET gone == Len(s) - Len(Recent(s))
         IN  /\ gone \in 0..Len(s)
             /\ \A i \in 1..gone : s[i] = Window
             /\ Recent(s) = [i \in 1..(Len(s) - gone) |-> s[gone + i] + 1]
             /\ \A i \in (gone + 1)..Len(s) : s[i] + 1 \in 0..Window
<1> DEFINE n    == Len(s)
           Out  == {i \in 1..n : s[i] = Window}
           m    == Cardinality(Out)
           next == [i \in DOMAIN s |-> s[i] + 1]
           kept == {i \in DOMAIN s : s[i] + 1 <= Window}
<1>1. /\ n \in Nat /\ DOMAIN s = 1..n /\ Window \in Nat
      /\ \A i \in 1..n : s[i] \in 0..Window
  BY LimiterAssumption
<1>2. m \in 0..n /\ Out = 1..m
  <2>1. ASSUME NEW i \in Out, NEW j \in 1..i PROVE j \in Out
    <3>1. i \in 1..n /\ j \in 1..n /\ j <= i /\ s[i] = Window
      BY <1>1
    <3>2. s[i] <= s[j] /\ s[j] \in 0..Window
      BY <1>1, <3>1 DEF Sorted
    <3> QED
      BY <1>1, <3>1, <3>2
  <2>2. Out \in SUBSET (1..n)
    OBVIOUS
  <2> HIDE DEF Out, n
  <2> QED
    BY <1>1, <2>1, <2>2, FirstPositions
<1> HIDE DEF m
<1> DEFINE last == (m + 1)..n
<1>3. kept = last
  <2>1. \A i \in 1..n : s[i] + 1 <= Window <=> i \notin Out
    BY <1>1
  <2>2. \A i \in 1..n : i \notin Out <=> i \in (m + 1)..n
    <3> HIDE DEF Out, n
    <3> QED
      BY <1>1, <1>2
  <2>3. \A i \in (m + 1)..n : i \in 1..n
    BY <1>2
  <2>4. \A i \in kept : i \in last
    BY <1>1, <2>1, <2>2
  <2>5. \A i \in last : i \in kept
    BY <1>1, <2>1, <2>2, <2>3
  <2> HIDE DEF kept, last
  <2> QED
    BY <2>4, <2>5
<1>4. Recent(s) = [i \in 1..(n - m) |-> next[m + i]]
  <2>1. Recent(s) = Selected(next, kept)
    BY DEF Recent
  <2> HIDE DEF n, next, kept
  <2>2. n \in Nat /\ m \in 0..n
    BY <1>1, <1>2
  <2>3. Selected(next, last) = [i \in 1..(n - m) |-> next[m + i]]
    BY <2>2, SelectedLast
  <2> HIDE DEF last
  <2> QED
    BY <1>3, <2>1, <2>3
<1>5. Recent(s) = [i \in 1..(n - m) |-> s[m + i] + 1] /\ n - m \in Nat
  <2>0. \A i \in 1..(n - m) : m + i \in DOMAIN s
    BY <1>1, <1>2
  <2>1. \A i \in 1..(n - m) : next[m + i] = s[m + i] + 1
    BY <2>0
  <2>2. n - m \in Nat
    BY <1>1, <1>2
  <2> HIDE DEF next, n
  <2> QED
    BY <1>4, <2>1, <2>2
<1>6. Len(Recent(s)) = n - m
  <2>1. \A i \in 1..(n - m) : s[m + i] + 1 \in Int
    BY <1>1, <1>2
  <2>2. Recent(s) \in Seq(Int)
    BY <1>5, <2>1
  <2>3. DOMAIN Recent(s) = 1..(n - m)
    BY <1>5
  <2> HIDE DEF n
  <2> QED
    BY <1>5, <2>2, <2>3
<1>7. n - Len(Recent(s)) = m
  <2> HIDE DEF n
  <2> QED
    BY <1>1, <1>2, <1>6
<1>8. \A i \in 1..m : s[i] = Window
  BY <1>2
<1>9. \A i \in (m + 1)..n : s[i] + 1 \in 0..Window
  <2>1. ASSUME NEW i \in (m + 1)..n PROVE i \in 1..n /\ s[i] + 1 <= Window
    BY <1>1, <1>2, <1>3
  <2> QED
    BY <1>1, <2>1
<1> QED
  BY <1>2, <1>5, <1>7, <1>8, <1>9

\* Seconds are rounded up to more than what is left, by one at most.
LEMMA RoundedUp ==
  ASSUME NEW x \in Nat, NEW y \in Nat \ {0}
  PROVE  /\ x \div y \in Nat
         /\ x < y * (x \div y + 1) /\ y * (x \div y + 1) <= x + y
<1>1. x \div y \in Int /\ y * (x \div y) <= x /\ x < y * (x \div y) + y
  OBVIOUS
<1>2. y * (x \div y + 1) = y * (x \div y) + y
  BY <1>1
<1>3. x \div y \in Nat
  BY <1>1
<1> QED
  BY <1>1, <1>2, <1>3

-----------------------------------------------------------------------------
(* The invariant.                                                          *)

\* At first nobody has sent a request.
LEMMA LimiterInit == Init => IInv
<1> SUFFICES ASSUME Init PROVE IInv
  OBVIOUS
<1>1. LimiterTypeOK
  BY LimiterAssumption DEF Init, LimiterTypeOK
<1>2. ASSUME NEW c \in Clients PROVE WindowInv(c) /\ WaitInv(c)
  <2>1. q[c] = << >> /\ admitted[c] = << >> /\ told[c] = NotTold
    BY DEF Init
  <2> QED
    BY <2>1, LimiterAssumption DEF WindowInv, EndsIn, Sorted, WaitInv
<1> QED
  BY <1>1, <1>2 DEF IInv

\* A tick takes requests out of the window and brings each wait nearer its end.
LEMMA TickStep == IInv /\ tick => IInv'
<1> SUFFICES ASSUME IInv, tick PROVE IInv'
  OBVIOUS
<1>1. ASSUME NEW c \in Clients
      PROVE  /\ q'[c] \in Seq(Ages) /\ admitted'[c] \in Seq(0..Window)
             /\ told'[c] \in {NotTold} \cup 0..(Window + Second)
             /\ WindowInv(c)' /\ WaitInv(c)'
  <2> DEFINE s    == q[c]
             a    == admitted[c]
             t    == q'[c]
             b    == admitted'[c]
             out  == Len(s) - Len(a)
             gone == Len(a) - Len(Recent(a))
  <2>1. /\ s \in Seq(Ages) /\ a \in Seq(0..Window)
        /\ EndsIn(s, a) /\ Sorted(a) /\ Len(s) <= Rpm
        /\ told[c] \in {NotTold} \cup 0..(Window + Second)
    BY DEF IInv, LimiterTypeOK, WindowInv
  <2>2. t = [i \in DOMAIN s |-> Older(s[i])] /\ b = Recent(a)
        /\ told'[c] = IF told[c] > 0 THEN told[c] - 1 ELSE told[c]
    BY DEF tick
  <2>3. /\ Len(s) \in Nat /\ Len(a) \in Nat /\ DOMAIN s = 1..Len(s) /\ DOMAIN a = 1..Len(a)
        /\ \A i \in 1..Len(s) : s[i] \in Ages /\ Older(s[i]) \in Ages
        /\ \A i \in 1..Len(a) : a[i] \in 0..Window
        /\ Window \in Nat /\ Rpm \in Nat /\ Second \in Nat
    <3>1. Window \in Nat /\ Rpm \in Nat /\ Second \in Nat
      BY LimiterAssumption
    <3>2. \A age \in Ages : Older(age) \in Ages
      BY <3>1 DEF Older, Ages
    <3> HIDE DEF s, a
    <3> QED
      BY <2>1, <3>1, <3>2
  <2>4. t \in Seq(Ages) /\ Len(t) = Len(s) /\ DOMAIN t = 1..Len(s)
        /\ \A i \in 1..Len(s) : t[i] = Older(s[i])
    BY <2>2, <2>3
  <2>5. /\ gone \in 0..Len(a)
        /\ \A i \in 1..gone : a[i] = Window
        /\ b = [i \in 1..(Len(a) - gone) |-> a[gone + i] + 1]
        /\ \A i \in (gone + 1)..Len(a) : a[i] + 1 \in 0..Window
    BY <2>1, <2>2, RecentIs
  <2> HIDE DEF s, a, t, b, gone
  <2>6. /\ \A i \in 1..(Len(a) - gone) :
             gone + i \in (gone + 1)..Len(a) /\ gone + i \in 1..Len(a)
        /\ Len(a) - gone \in Nat
    BY <2>3, <2>5
  <2>7. /\ b \in Seq(0..Window) /\ Len(b) = Len(a) - gone /\ DOMAIN b = 1..Len(b)
        /\ \A i \in 1..Len(b) : b[i] = a[gone + i] + 1
    <3>1. \A i \in 1..(Len(a) - gone) : a[gone + i] + 1 \in 0..Window
      BY <2>5, <2>6
    <3> DEFINE n == Len(a) - gone
               f == [i \in 1..n |-> a[gone + i] + 1]
    <3>2. n \in Nat /\ b = f
      BY <2>5, <2>6
    <3>3. \A i \in 1..n : a[gone + i] + 1 \in 0..Window
      BY <3>1
    <3> HIDE DEF n
    <3>4. f \in Seq(0..Window) /\ Len(f) = n /\ DOMAIN f = 1..n
      BY <3>2, <3>3
    <3> QED
      BY <3>2, <3>4 DEF n
  <2>8. Sorted(b)
    <3> SUFFICES ASSUME NEW i \in 1..Len(b), NEW j \in 1..Len(b), i <= j PROVE b[j] <= b[i]
      BY <2>7 DEF Sorted
    <3>0. gone \in Nat /\ Len(a) \in Nat /\ Len(b) = Len(a) - gone
      BY <2>3, <2>5, <2>7
    <3>1. gone + i \in 1..Len(a) /\ gone + j \in 1..Len(a) /\ gone + i <= gone + j
      BY <3>0
    <3>2. a[gone + j] <= a[gone + i]
      BY <2>1, <2>3, <3>1 DEF Sorted
    <3>3. a[gone + i] \in 0..Window /\ a[gone + j] \in 0..Window
      BY <2>3, <3>1
    <3>4. b[i] = a[gone + i] + 1 /\ b[j] = a[gone + j] + 1 /\ Window \in Nat
      BY <2>3, <2>7
    <3> QED
      BY <3>2, <3>3, <3>4
  <2>9. EndsIn(t, b)
    <3>1. /\ out \in Nat /\ Len(s) - out = Len(a)
          /\ \A i \in 1..Len(s) : s[i] = IF i <= out THEN Window + 1 ELSE a[i - out]
      BY <2>1, <2>3 DEF EndsIn
    <3> HIDE DEF out
    <3>2. Len(t) - Len(b) = out + gone
      <4>1. Len(t) = Len(s) /\ Len(b) = Len(a) - gone /\ gone \in Nat
        BY <2>3, <2>4, <2>5, <2>7
      <4> QED
        BY <2>3, <3>1, <4>1
    <3>3. ASSUME NEW i \in 1..Len(s), i <= out + gone PROVE t[i] = Window + 1
      <4>1. CASE i <= out
        BY <2>3, <2>4, <3>1, <4>1 DEF Older
      <4>2. CASE i > out
        <5>1. i - out \in 1..gone /\ ~ (i <= out)
          BY <2>3, <2>5, <3>1, <3>3, <4>2
        <5>2. s[i] = Window
          BY <2>5, <3>1, <5>1
        <5> QED
          BY <2>3, <2>4, <5>2 DEF Older
      <4> QED
        BY <2>3, <3>1, <4>1, <4>2
    <3>4. ASSUME NEW i \in 1..Len(s), i > out + gone PROVE t[i] = b[i - (out + gone)]
      <4>1. /\ i - (out + gone) \in 1..Len(b) /\ gone + (i - (out + gone)) = i - out
            /\ ~ (i <= out) /\ i - out \in 1..Len(a)
        BY <2>3, <2>5, <2>7, <3>1, <3>4
      <4>2. s[i] = a[i - out] /\ b[i - (out + gone)] = a[i - out] + 1
        BY <2>7, <3>1, <4>1
      <4>3. a[i - out] \in 0..Window
        BY <2>3, <4>1
      <4> QED
        BY <2>3, <2>4, <4>2, <4>3 DEF Older
    <3>5. out + gone \in Nat
      BY <2>5, <3>1
    <3>6. \A i \in 1..Len(t) : t[i] = IF i <= out + gone THEN Window + 1 ELSE b[i - (out + gone)]
      BY <2>3, <2>4, <3>3, <3>4, <3>5
    <3> QED
      BY <3>2, <3>5, <3>6 DEF EndsIn
  <2>10. told'[c] \in {NotTold} \cup 0..(Window + Second)
    BY <2>1, <2>2, <2>3 DEF NotTold
  <2>11. WaitInv(c)'
    <3> SUFFICES ASSUME told'[c] # NotTold
                 PROVE  t # << >> /\ told'[c] + Head(t) >= Window + 1
      BY DEF WaitInv, t
    <3>1. told[c] # NotTold
      BY <2>1, <2>2, <2>3 DEF NotTold
    <3>2. s # << >> /\ told[c] + Head(s) >= Window + 1
      BY <3>1 DEF IInv, WaitInv, s
    <3>3. 1 \in 1..Len(s) /\ Head(s) = s[1] /\ Head(t) = t[1] /\ t # << >>
      <4>1. Len(s) # 0
        BY <2>1, <3>2
      <4>2. 1 \in 1..Len(s)
        BY <2>3, <4>1
      <4>3. t # << >>
        BY <2>4, <4>2
      <4> QED
        BY <2>1, <2>4, <3>2, <4>2, <4>3
    <3>4. s[1] \in Ages /\ t[1] = Older(s[1])
      BY <2>3, <2>4, <3>3
    <3>5. told[c] \in 0..(Window + Second)
      BY <2>1, <3>1
    <3>6. told[c] \in Nat /\ s[1] \in 0..(Window + 1) /\ told[c] + s[1] >= Window + 1
      BY <2>3, <3>2, <3>3, <3>4, <3>5 DEF Ages
    <3>7. CASE told[c] > 0
      <4>1. told'[c] = told[c] - 1
        BY <2>2, <3>7
      <4>2. CASE s[1] > Window
        <5>1. t[1] = s[1]
          BY <3>4, <4>2 DEF Older
        <5> QED
          BY <2>3, <3>3, <3>6, <3>7, <4>1, <4>2, <5>1
      <4>3. CASE ~ (s[1] > Window)
        <5>1. t[1] = s[1] + 1
          BY <3>4, <4>3 DEF Older
        <5> QED
          BY <2>3, <3>3, <3>6, <4>1, <5>1
      <4> QED
        BY <4>2, <4>3
    <3>8. CASE told[c] = 0
      <4>1. told'[c] = 0 /\ s[1] = Window + 1 /\ s[1] > Window
        BY <2>2, <2>3, <3>6, <3>8
      <4>2. t[1] = s[1]
        BY <3>4, <4>1 DEF Older
      <4> QED
        BY <2>3, <3>3, <4>1, <4>2
    <3> QED
      BY <3>6, <3>7, <3>8
  <2> QED
    BY <2>1, <2>3, <2>4, <2>7, <2>8, <2>9, <2>10, <2>11 DEF WindowInv, t, b
<1>2. LimiterTypeOK'
  <2>1. /\ q' = [c \in Clients |-> q'[c]] /\ admitted' = [c \in Clients |-> admitted'[c]]
        /\ told' = [c \in Clients |-> told'[c]]
    BY DEF tick
  <2> QED
    BY <1>1, <2>1 DEF LimiterTypeOK
<1> QED
  BY <1>1, <1>2 DEF IInv

\* A request that is let through comes last in the queue and in the window.
LEMMA AdmitStep == ASSUME IInv, NEW c \in Clients, dispatch_admits(c) PROVE IInv'
<1> DEFINE a == admitted[c]
           b == Append(a, 0)
<1>1. /\ LimiterTypeOK /\ WindowInv(c) /\ a \in Seq(0..Window) /\ Sorted(a)
      /\ Len(a) \in Nat /\ DOMAIN a = 1..Len(a)
      /\ Window \in Nat /\ Rpm \in Nat /\ Second \in Nat
      /\ \A i \in 1..Len(a) : a[i] \in 0..Window
  BY LimiterAssumption DEF IInv, LimiterTypeOK, WindowInv
<1>2. Pruned(c) = a
  BY <1>1, PrunedIs
<1>3. /\ q' = [q EXCEPT ![c] = b] /\ admitted' = [admitted EXCEPT ![c] = b]
      /\ told' = [told EXCEPT ![c] = NotTold] /\ Len(a) < Rpm
  BY <1>1, <1>2 DEF dispatch_admits, Full
<1>4. /\ b \in Seq(0..Window) /\ b \in Seq(Ages) /\ Len(b) = Len(a) + 1
      /\ DOMAIN b = 1..(Len(a) + 1)
      /\ \A i \in 1..Len(a) : b[i] = a[i]
      /\ b[Len(a) + 1] = 0
  BY <1>1 DEF Ages
<1>5. LimiterTypeOK'
  <2> HIDE DEF b
  <2> QED
    BY <1>1, <1>3, <1>4 DEF LimiterTypeOK
<1>6. WindowInv(c)' /\ WaitInv(c)'
  <2>1. q'[c] = b /\ admitted'[c] = b /\ told'[c] = NotTold
    BY <1>1, <1>3 DEF LimiterTypeOK
  <2> HIDE DEF b
  <2>2. Sorted(b)
    <3> SUFFICES ASSUME NEW i \in 1..(Len(a) + 1), NEW j \in 1..(Len(a) + 1), i <= j
                 PROVE  b[j] <= b[i]
      BY <1>4 DEF Sorted
    <3>1. CASE j = Len(a) + 1
      <4>1. b[j] = 0 /\ (i \in 1..Len(a) \/ i = Len(a) + 1)
        BY <1>1, <1>4, <3>1
      <4> QED
        BY <1>1, <1>4, <4>1
    <3>2. CASE j # Len(a) + 1
      <4>1. i \in 1..Len(a) /\ j \in 1..Len(a)
        BY <1>1, <3>2
      <4> QED
        BY <1>1, <1>4, <4>1 DEF Sorted
    <3> QED
      BY <3>1, <3>2
  <2>3. EndsIn(b, b) /\ Len(b) <= Rpm
    <3>1. Len(b) - Len(b) = 0 /\ \A i \in 1..Len(b) : ~ (i <= 0) /\ i - 0 = i
      BY <1>1, <1>4
    <3> QED
      BY <1>1, <1>3, <1>4, <3>1 DEF EndsIn
  <2> QED
    BY <2>1, <2>2, <2>3 DEF WindowInv, WaitInv
<1>7. ASSUME NEW d \in Clients, d # c PROVE WindowInv(d)' /\ WaitInv(d)'
  <2>1. q'[d] = q[d] /\ admitted'[d] = admitted[d] /\ told'[d] = told[d]
    BY <1>1, <1>3, <1>7 DEF LimiterTypeOK
  <2> QED
    BY <2>1 DEF IInv, WindowInv, WaitInv
<1> QED
  BY <1>5, <1>6, <1>7 DEF IInv

\* One that is refused leaves the window as it is, and is told to come back when
\* its oldest request will be outside.
LEMMA RejectStep == ASSUME IInv, NEW c \in Clients, dispatch_rejects(c) PROVE IInv'
<1> DEFINE a == admitted[c]
           x == Window - Head(a)
           r == Second * (x \div Second + 1)
<1>1. /\ LimiterTypeOK /\ WindowInv(c) /\ a \in Seq(0..Window) /\ Sorted(a)
      /\ Len(a) \in Nat /\ DOMAIN a = 1..Len(a) /\ Len(a) <= Len(q[c]) /\ Len(q[c]) <= Rpm
      /\ Len(q[c]) \in Nat
      /\ Window \in Nat /\ Rpm \in Nat \ {0} /\ Second \in Nat \ {0}
  BY LimiterAssumption DEF IInv, LimiterTypeOK, WindowInv, EndsIn
<1>2. Pruned(c) = a
  BY <1>1, PrunedIs
<1>3. /\ q' = [q EXCEPT ![c] = a] /\ admitted' = admitted
      /\ told' = [told EXCEPT ![c] = r] /\ Len(a) >= Rpm
  BY <1>2 DEF dispatch_rejects, Full, RetryAfter
<1>4. a # << >> /\ Head(a) \in 0..Window
  <2>1. Len(a) # 0
    BY <1>1, <1>3
  <2> QED
    BY <1>1, <2>1
<1>5. r \in 0..(Window + Second) /\ r + Head(a) >= Window + 1
  <2>1. x \in Nat /\ x <= Window /\ x + Head(a) = Window
    <3>1. Head(a) \in 0..Window /\ Window \in Nat
      BY <1>1, <1>4
    <3> HIDE DEF a, r
    <3> QED
      BY <3>1
  <2> HIDE DEF x
  <2>2. x \div Second \in Nat /\ x < r /\ r <= x + Second
    BY <1>1, <2>1, RoundedUp
  <2>3. r \in Nat
    BY <1>1, <2>2
  <2>4. Head(a) \in 0..Window /\ Window \in Nat /\ Second \in Nat
    BY <1>1, <1>4
  <2> HIDE DEF r, a
  <2> QED
    BY <2>1, <2>2, <2>3, <2>4
<1> HIDE DEF r
<1>6. LimiterTypeOK'
  <2>1. a \in Seq(Ages)
    BY <1>1 DEF Ages
  <2> QED
    BY <1>1, <1>3, <1>5, <2>1 DEF LimiterTypeOK
<1>7. WindowInv(c)' /\ WaitInv(c)'
  <2>1. q'[c] = a /\ admitted'[c] = a /\ told'[c] = r
    BY <1>1, <1>3 DEF LimiterTypeOK
  <2> HIDE DEF a
  <2>2. EndsIn(a, a) /\ Len(a) <= Rpm
    <3>1. Len(a) - Len(a) = 0 /\ \A i \in 1..Len(a) : ~ (i <= 0) /\ i - 0 = i
      BY <1>1
    <3> QED
      BY <1>1, <1>3, <3>1 DEF EndsIn
  <2> QED
    BY <1>1, <1>4, <1>5, <2>1, <2>2 DEF WindowInv, WaitInv
<1>8. ASSUME NEW d \in Clients, d # c PROVE WindowInv(d)' /\ WaitInv(d)'
  <2>1. q'[d] = q[d] /\ admitted'[d] = admitted[d] /\ told'[d] = told[d]
    BY <1>1, <1>3, <1>8 DEF LimiterTypeOK
  <2> QED
    BY <2>1 DEF IInv, WindowInv, WaitInv
<1> QED
  BY <1>6, <1>7, <1>8 DEF IInv

\* The invariant of every step.
LEMMA LimiterStep == IInv /\ [Next]_vars => IInv'
<1> SUFFICES ASSUME IInv, [Next]_vars PROVE IInv'
  OBVIOUS
<1>1. CASE tick
  BY <1>1, TickStep
<1>2. ASSUME NEW c \in Clients, dispatch_admits(c) PROVE IInv'
  BY <1>2, AdmitStep
<1>3. ASSUME NEW c \in Clients, dispatch_rejects(c) PROVE IInv'
  BY <1>3, RejectStep
<1>4. CASE UNCHANGED vars
  BY <1>4 DEF vars, IInv, LimiterTypeOK, WindowInv, WaitInv
<1> QED
  BY <1>1, <1>2, <1>3, <1>4 DEF Next

\* The queues are sequences of ages, and no wait is longer than the window and
\* the second it is rounded to.
THEOREM LimiterTypeCorrect == Spec => []LimiterTypeOK
<1>1. IInv => LimiterTypeOK
  BY DEF IInv
<1> QED
  BY <1>1, LimiterInit, LimiterStep, PTL DEF Spec

\* Popping from the left, and only when the client asks, keeps an exact count of
\* the requests let through in the window, however many are refused between.
THEOREM CountIsExact == Spec => LimitIsExact
<1>1. IInv /\ [Next]_vars =>
        [\A c \in Clients :
           /\ dispatch_admits(c) => Len(admitted[c]) < Rpm
           /\ dispatch_rejects(c) => Len(admitted[c]) = Rpm]_vars
  <2> SUFFICES ASSUME IInv, NEW c \in Clients
               PROVE  /\ dispatch_admits(c) => Len(admitted[c]) < Rpm
                      /\ dispatch_rejects(c) => Len(admitted[c]) = Rpm
    OBVIOUS
  <2>1. LimiterTypeOK /\ WindowInv(c)
    BY DEF IInv
  <2>2. /\ Pruned(c) = admitted[c] /\ Rpm \in Nat
        /\ Len(admitted[c]) \in Nat /\ Len(q[c]) \in Nat
        /\ Len(admitted[c]) <= Len(q[c]) /\ Len(q[c]) <= Rpm
    BY <2>1, PrunedIs, LimiterAssumption DEF LimiterTypeOK, WindowInv, EndsIn
  <2> QED
    BY <2>2 DEF dispatch_admits, dispatch_rejects, Full
<1> QED
  BY <1>1, LimiterInit, LimiterStep, PTL DEF Spec, LimitIsExact

\* Whoever waits as long as Retry-After said is let through: the window of
\* another moment cannot be fuller than what the answer was computed from.
THEOREM WaitIsEnough == Spec => []RetryAfterIsEnough
<1>1. IInv => RetryAfterIsEnough
  <2> SUFFICES ASSUME IInv, NEW c \in Clients, told[c] = 0 PROVE ~ Full(c)
    BY DEF RetryAfterIsEnough
  <2> DEFINE out == Len(q[c]) - Len(admitted[c])
  <2>1. /\ LimiterTypeOK /\ WindowInv(c) /\ Len(q[c]) \in Nat /\ Len(admitted[c]) \in Nat
        /\ q[c] \in Seq(Ages) /\ admitted[c] \in Seq(0..Window)
        /\ Window \in Nat /\ Rpm \in Nat /\ Len(q[c]) <= Rpm
    BY LimiterAssumption DEF IInv, LimiterTypeOK, WindowInv
  <2>2. q[c] # << >> /\ Head(q[c]) >= Window + 1
    BY <2>1 DEF IInv, WaitInv, NotTold, Ages
  <2>3. 1 \in 1..Len(q[c]) /\ q[c][1] >= Window + 1
    BY <2>1, <2>2
  <2>4. /\ out >= 0
        /\ q[c][1] = IF 1 <= out THEN Window + 1 ELSE admitted[c][1 - out]
    BY <2>1, <2>3 DEF WindowInv, EndsIn
  <2>5. out # 0
    <3> SUFFICES ASSUME out = 0 PROVE FALSE
      OBVIOUS
    <3>0. Len(admitted[c]) = Len(q[c])
      BY <2>1
    <3> HIDE DEF out
    <3>1. q[c][1] = admitted[c][1] /\ 1 \in 1..Len(admitted[c])
      BY <2>1, <2>3, <2>4, <3>0
    <3>2. admitted[c][1] \in 0..Window
      BY <2>1, <3>1
    <3> QED
      BY <2>1, <2>3, <3>1, <3>2
  <2>6. Len(admitted[c]) < Rpm
    BY <2>1, <2>4, <2>5
  <2> QED
    BY <2>1, <2>6, PrunedIs DEF Full
<1> QED
  BY <1>1, LimiterInit, LimiterStep, PTL DEF Spec
=============================================================================
