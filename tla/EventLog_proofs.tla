--------------------------- MODULE EventLog_proofs ---------------------------
(***************************************************************************)
(* What is proved of EventLog for buffers of any size, any limits, and any *)
(* number of records, appends that fail half way and crashes: the types,   *)
(* the order of what is served (NewestFirst), that a restart loses nothing *)
(* that was written whole (ReloadFaithful), and that a client which        *)
(* follows the events skips none (FollowerSkipsNothing).                   *)
(***************************************************************************)
EXTENDS EventLog, SequenceTheorems, WellFoundedInduction, TLAPS

-----------------------------------------------------------------------------
(* What is computed along a list *)

\* A set of the first natural numbers that has 0, and with a number the next one,
\* has them all.
LEMMA Climb ==
  ASSUME NEW n \in Nat, NEW G, 0 \in G, \A m \in 0..(n - 1) : m \in G => m + 1 \in G
  PROVE  \A m \in 0..n : m \in G
<1> SUFFICES ASSUME (0..n) \ G # {} PROVE FALSE
  OBVIOUS
<1> DEFINE T == (0..n) \ G
<1>1. T \subseteq Nat
  OBVIOUS
<1>2. \E m \in T : \A i \in T : ~(<<i, m>> \in OpToRel(<, Nat))
  BY <1>1, NatLessThanWellFounded, WFMin, Zenon
<1>3. PICK m \in T : \A i \in T : ~(<<i, m>> \in OpToRel(<, Nat))
  BY <1>2
<1>4. \A i \in T : ~(i < m)
  BY <1>1, <1>3 DEF OpToRel
<1>5. m # 0 /\ m \in 0..n /\ m - 1 \in 0..(n - 1) /\ (m - 1) + 1 = m
  OBVIOUS
<1>6. m - 1 \notin T
  BY <1>4, <1>5
<1>7. m - 1 \in G
  BY <1>5, <1>6
<1> QED
  BY <1>5, <1>7

\* f has the first m + 1 values that g computes from v.
Computes(f, m, V, v, g) ==
    /\ f \in [0..m -> V] /\ f[0] = v
    /\ \A i \in 1..m : f[i] = g[<<i, f[i - 1]>>]

\* What is computed from one element of a list after the other exists.
LEMMA Computed ==
  ASSUME NEW n \in Nat, NEW V, NEW v \in V, NEW g \in [(1..n) \X V -> V]
  PROVE  \E f : Computes(f, n, V, v, g)
<1> DEFINE G == {m \in 0..n : \E f : Computes(f, m, V, v, g)}
<1>1. 0 \in G
  <2> DEFINE f == [i \in 0..0 |-> v]
  <2>1. f \in [0..0 -> V] /\ f[0] = v
    OBVIOUS
  <2> HIDE DEF f
  <2>2. Computes(f, 0, V, v, g)
    BY <2>1 DEF Computes
  <2> QED
    BY <2>2
<1>2. ASSUME NEW m \in 0..(n - 1), m \in G PROVE m + 1 \in G
  <2>1. PICK f : Computes(f, m, V, v, g)
    BY <1>2
  <2>2. f \in [0..m -> V] /\ f[0] = v /\ \A i \in 1..m : f[i] = g[<<i, f[i - 1]>>]
    BY <2>1 DEF Computes
  <2> DEFINE w == g[<<m + 1, f[m]>>]
             h == [i \in 0..(m + 1) |-> IF i = m + 1 THEN w ELSE f[i]]
  <2>3. f[m] \in V /\ <<m + 1, f[m]>> \in (1..n) \X V
    BY <2>2
  <2>4. w \in V
    BY <2>3
  <2> HIDE DEF w
  <2>5. h \in [0..(m + 1) -> V] /\ h[0] = v
    BY <2>2, <2>4
  <2>6. h[m + 1] = w /\ \A i \in 0..m : h[i] = f[i]
    OBVIOUS
  <2> HIDE DEF h
  <2>7. ASSUME NEW i \in 1..(m + 1) PROVE h[i] = g[<<i, h[i - 1]>>]
    <3>1. i - 1 \in 0..m /\ h[i - 1] = f[i - 1]
      BY <2>6
    <3>2. CASE i = m + 1
      <4>1. h[i - 1] = f[m] /\ h[i] = w
        BY <2>6, <3>1, <3>2
      <4> QED
        BY <3>2, <4>1 DEF w
    <3>3. CASE i # m + 1
      <4>1. i \in 1..m /\ i \in 0..m
        BY <3>3
      <4>2. h[i] = f[i] /\ f[i] = g[<<i, f[i - 1]>>]
        BY <2>2, <2>6, <4>1
      <4> QED
        BY <3>1, <4>2
    <3> QED
      BY <3>2, <3>3
  <2>8. Computes(h, m + 1, V, v, g)
    BY <2>5, <2>7 DEF Computes
  <2>9. m + 1 \in 0..n
    OBVIOUS
  <2> QED
    BY <2>8, <2>9
<1>3. n \in G
  <2> HIDE DEF G
  <2> QED
    BY <1>1, <1>2, Climb
<1> QED
  BY <1>3

-----------------------------------------------------------------------------
(* Sequences *)

\* The field f gets smaller along s.
Falls(s, f) == \A i, j \in 1..Len(s) : i < j => s[i][f] > s[j][f]

LEMMA Elements ==
  ASSUME NEW S, NEW s \in Seq(S)
  PROVE  /\ Len(s) \in Nat /\ \A i \in 1..Len(s) : s[i] \in S /\ s[i] \in ToSet(s)
         /\ \A x \in ToSet(s) : x \in S /\ \E i \in 1..Len(s) : s[i] = x
<1>1. Len(s) \in Nat /\ s \in [1..Len(s) -> S] /\ DOMAIN s = 1..Len(s)
  BY LenProperties
<1> QED
  BY <1>1 DEF ToSet

\* One element before a sequence.
LEMMA Pushed ==
  ASSUME NEW S, NEW s \in Seq(S), NEW e \in S
  PROVE  /\ <<e>> \o s \in Seq(S) /\ Len(<<e>> \o s) = Len(s) + 1
         /\ (<<e>> \o s)[1] = e
         /\ \A i \in 1..Len(s) : (<<e>> \o s)[i + 1] = s[i]
         /\ \A i \in 2..(Len(s) + 1) : (<<e>> \o s)[i] = s[i - 1]
<1>1. <<e>> \in Seq(S) /\ Len(<<e>>) = 1 /\ <<e>>[1] = e
  OBVIOUS
<1>2. Len(s) \in Nat
  BY LenProperties
<1>3. /\ <<e>> \o s \in Seq(S) /\ Len(<<e>> \o s) = 1 + Len(s)
      /\ \A i \in 1..(1 + Len(s)) : (<<e>> \o s)[i] = IF i <= 1 THEN <<e>>[i] ELSE s[i - 1]
  BY <1>1, ConcatProperties
<1>4. \A i \in 2..(Len(s) + 1) : (<<e>> \o s)[i] = s[i - 1]
  BY <1>2, <1>3
<1>5. \A i \in 1..Len(s) : i + 1 \in 2..(Len(s) + 1) /\ (i + 1) - 1 = i
  BY <1>2
<1>6. (<<e>> \o s)[1] = e
  BY <1>1, <1>2, <1>3
<1> QED
  BY <1>2, <1>3, <1>4, <1>5, <1>6

\* What s[:size] keeps.
LEMMA Kept ==
  ASSUME NEW S, NEW s \in Seq(S), NEW size \in Nat \ {0}
  PROVE  /\ Keep(s, size) \in Seq(S)
         /\ Len(Keep(s, size)) = IF Len(s) > size THEN size ELSE Len(s)
         /\ \A i \in 1..Len(Keep(s, size)) : i \in 1..Len(s) /\ Keep(s, size)[i] = s[i]
<1>1. Len(s) \in Nat /\ \A i \in 1..Len(s) : s[i] \in S
  BY Elements
<1>2. CASE Len(s) > size
  <2>1. Keep(s, size) = SubSeq(s, 1, size)
    BY <1>2 DEF Keep
  <2>2. \A i \in 1..size : i \in 1..Len(s)
    BY <1>1, <1>2
  <2>3. \A i \in 1..size : s[i] \in S
    BY <1>1, <2>2
  <2>4. /\ SubSeq(s, 1, size) \in Seq(S)
        /\ Len(SubSeq(s, 1, size)) = IF 1 <= size THEN size - 1 + 1 ELSE 0
        /\ \A i \in 1..(size - 1 + 1) : SubSeq(s, 1, size)[i] = s[1 + i - 1]
    BY <2>3, SubSeqProperties
  <2>5. Len(SubSeq(s, 1, size)) = size /\ \A i \in 1..size : SubSeq(s, 1, size)[i] = s[i]
    BY <2>4
  <2> QED
    BY <1>2, <2>1, <2>2, <2>4, <2>5
<1>3. CASE ~(Len(s) > size)
  BY <1>1, <1>3 DEF Keep
<1> QED
  BY <1>2, <1>3

\* Cutting the buffer before a push changes nothing.
LEMMA KeptTwice ==
  ASSUME NEW S, NEW s \in Seq(S), NEW e \in S, NEW size \in Nat \ {0}
  PROVE  Push(Keep(s, size), e, size) = Keep(<<e>> \o s, size)
<1> DEFINE k == Keep(s, size)
           a == Keep(<<e>> \o k, size)
           b == Keep(<<e>> \o s, size)
<1>1. /\ Len(s) \in Nat /\ k \in Seq(S) /\ Len(k) = IF Len(s) > size THEN size ELSE Len(s)
      /\ \A i \in 1..Len(k) : k[i] = s[i]
  BY Kept, Elements
<1> HIDE DEF k
<1>2. /\ <<e>> \o k \in Seq(S) /\ Len(<<e>> \o k) = Len(k) + 1 /\ (<<e>> \o k)[1] = e
      /\ \A i \in 2..(Len(k) + 1) : (<<e>> \o k)[i] = k[i - 1]
  BY <1>1, Pushed
<1>3. /\ <<e>> \o s \in Seq(S) /\ Len(<<e>> \o s) = Len(s) + 1 /\ (<<e>> \o s)[1] = e
      /\ \A i \in 2..(Len(s) + 1) : (<<e>> \o s)[i] = s[i - 1]
  BY Pushed
<1>4. /\ a \in Seq(S) /\ Len(a) = IF Len(k) + 1 > size THEN size ELSE Len(k) + 1
      /\ \A i \in 1..Len(a) : a[i] = (<<e>> \o k)[i]
  BY <1>2, Kept
<1>5. /\ b \in Seq(S) /\ Len(b) = IF Len(s) + 1 > size THEN size ELSE Len(s) + 1
      /\ \A i \in 1..Len(b) : b[i] = (<<e>> \o s)[i]
  BY <1>3, Kept
<1> HIDE DEF a, b
<1>6. Len(a) = Len(b)
  BY <1>1, <1>4, <1>5
<1>7. ASSUME NEW i \in 1..Len(a) PROVE a[i] = b[i]
  <2>1. a[i] = (<<e>> \o k)[i] /\ b[i] = (<<e>> \o s)[i]
    BY <1>4, <1>5, <1>6
  <2>2. CASE i = 1
    BY <1>2, <1>3, <2>1, <2>2
  <2>3. CASE i # 1
    <3>1. i \in 2..(Len(k) + 1) /\ i \in 2..(Len(s) + 1) /\ i - 1 \in 1..Len(k)
      BY <1>1, <1>4, <1>5, <1>6, <2>3
    <3> QED
      BY <1>1, <1>2, <1>3, <2>1, <3>1
  <2> QED
    BY <2>2, <2>3
<1>8. a = b
  BY <1>4, <1>5, <1>6, <1>7, SeqEqual
<1> QED
  BY <1>8 DEF a, b, k, Push

LEMMA FallsPushed ==
  ASSUME NEW S, NEW s \in Seq(S), NEW e \in S, NEW f, Falls(s, f),
         \A i \in 1..Len(s) : e[f] > s[i][f]
  PROVE  Falls(<<e>> \o s, f)
<1> DEFINE t == <<e>> \o s
<1>1. /\ Len(s) \in Nat /\ Len(t) = Len(s) + 1 /\ t[1] = e
      /\ \A i \in 2..(Len(s) + 1) : t[i] = s[i - 1]
  BY Pushed, Elements
<1> HIDE DEF t
<1>2. ASSUME NEW i \in 1..Len(t), NEW j \in 1..Len(t), i < j PROVE t[i][f] > t[j][f]
  <2>1. j - 1 \in 1..Len(s) /\ t[j] = s[j - 1]
    BY <1>1, <1>2
  <2>2. CASE i = 1
    BY <1>1, <2>1, <2>2
  <2>3. CASE i # 1
    <3>1. i - 1 \in 1..Len(s) /\ t[i] = s[i - 1] /\ i - 1 < j - 1
      BY <1>1, <1>2, <2>3
    <3> QED
      BY <2>1, <3>1 DEF Falls
  <2> QED
    BY <2>2, <2>3
<1> QED
  BY <1>2 DEF t, Falls

LEMMA FallsKept ==
  ASSUME NEW S, NEW s \in Seq(S), NEW size \in Nat \ {0}, NEW f, Falls(s, f)
  PROVE  Falls(Keep(s, size), f)
<1> DEFINE k == Keep(s, size)
<1>1. \A i \in 1..Len(k) : i \in 1..Len(s) /\ k[i] = s[i]
  BY Kept
<1> HIDE DEF k
<1>2. Falls(k, f)
  BY <1>1 DEF Falls
<1> QED
  BY <1>2 DEF k

\* What is left of a list that falls without its first element.
LEMMA FallsRest ==
  ASSUME NEW S, NEW s \in Seq(S), NEW e \in S, NEW f, Falls(<<e>> \o s, f)
  PROVE  Falls(s, f)
<1> DEFINE t == <<e>> \o s
<1>1. Len(s) \in Nat /\ Len(t) = Len(s) + 1 /\ \A i \in 1..Len(s) : t[i + 1] = s[i]
  BY Pushed, Elements
<1>2. Falls(t, f)
  OBVIOUS
<1> HIDE DEF t
<1>3. ASSUME NEW i \in 1..Len(s), NEW j \in 1..Len(s), i < j PROVE s[i][f] > s[j][f]
  <2>1. i + 1 \in 1..Len(t) /\ j + 1 \in 1..Len(t) /\ i + 1 < j + 1
    BY <1>1, <1>3
  <2> QED
    BY <1>1, <1>2, <2>1 DEF Falls
<1> QED
  BY <1>3 DEF Falls

-----------------------------------------------------------------------------
(* The records of a file *)

Readable(l) == l.kind \in {"line", "open"}

\* q has what is read of each beginning of a file.
Reads(q, file, R) ==
    /\ q \in [0..Len(file) -> Seq(R)] /\ q[0] = <<>>
    /\ \A i \in 1..Len(file) :
          q[i] = IF Readable(file[i]) THEN <<file[i].rec>> \o q[i - 1] ELSE q[i - 1]

LEMMA LineFacts ==
  ASSUME NEW R, NEW file \in Seq(Lines(R))
  PROVE  /\ Len(file) \in Nat
         /\ \A i \in 1..Len(file) : file[i] \in Lines(R) /\ file[i].rec \in R
<1>1. Len(file) \in Nat /\ \A i \in 1..Len(file) : file[i] \in Lines(R)
  BY Elements
<1> QED
  BY <1>1 DEF Lines

\* Parsed is what its definition computes.
LEMMA ParsedReads ==
  ASSUME NEW R, NEW file \in Seq(Lines(R))
  PROVE  \E q : Reads(q, file, R) /\ Parsed(file) = q[Len(file)]
<1> DEFINE n == Len(file)
           V == Seq(R)
           g == [p \in (1..n) \X V |-> IF Readable(file[p[1]]) THEN <<file[p[1]].rec>> \o p[2] ELSE p[2]]
           Read(f) == [i \in 0..n |-> IF i = 0 THEN <<>>
                                      ELSE IF file[i].kind \in {"line", "open"}
                                           THEN <<file[i].rec>> \o f[i - 1] ELSE f[i - 1]]
           read == CHOOSE f : f = Read(f)
<1>1. n \in Nat /\ \A i \in 1..n : file[i].rec \in R
  BY LineFacts
<1>2. <<>> \in V /\ g \in [(1..n) \X V -> V]
  <2>1. ASSUME NEW i \in 1..n, NEW v \in V PROVE <<file[i].rec>> \o v \in V
    BY <1>1, Pushed
  <2>2. \A p \in (1..n) \X V : p[1] \in 1..n /\ p[2] \in V
    OBVIOUS
  <2>3. <<>> \in V
    OBVIOUS
  <2> HIDE DEF V, n
  <2> QED
    BY <2>1, <2>2, <2>3
<1>3. \E f : f = Read(f) /\ f \in [0..n -> V]
  <2> HIDE DEF n, V, g
  <2>1. PICK f : Computes(f, n, V, <<>>, g)
    BY <1>1, <1>2, Computed
  <2>2. /\ f \in [0..n -> V] /\ f[0] = <<>>
        /\ \A i \in 1..n : f[i] = g[<<i, f[i - 1]>>]
    BY <2>1 DEF Computes
  <2> USE DEF g
  <2>3. ASSUME NEW i \in 0..n
        PROVE  f[i] = IF i = 0 THEN <<>>
                      ELSE IF file[i].kind \in {"line", "open"}
                           THEN <<file[i].rec>> \o f[i - 1] ELSE f[i - 1]
    <3>1. CASE i = 0
      BY <2>2, <3>1
    <3>2. CASE i # 0
      <4>1. i \in 1..n /\ i - 1 \in 0..n
        BY <1>1, <3>2
      <4>2. f[i] = g[<<i, f[i - 1]>>] /\ f[i - 1] \in V
        BY <2>2, <4>1
      <4>3. <<i, f[i - 1]>> \in (1..n) \X V
        BY <4>1, <4>2
      <4>4. g[<<i, f[i - 1]>>] = IF Readable(file[i]) THEN <<file[i].rec>> \o f[i - 1] ELSE f[i - 1]
        BY <4>3
      <4> QED
        BY <3>2, <4>2, <4>4 DEF Readable
    <3> QED
      BY <3>1, <3>2
  <2>4. f = Read(f)
    BY <2>2, <2>3
  <2> QED
    BY <2>2, <2>4
<1>4. read = Read(read)
  BY <1>3
<1>5. Parsed(file) = read[n]
  BY DEF Parsed
<1> HIDE DEF read
<1>6. /\ read[0] = <<>>
      /\ \A i \in 1..n : read[i] = IF Readable(file[i]) THEN <<file[i].rec>> \o read[i - 1] ELSE read[i - 1]
  <2>1. 0 \in 0..n
    BY <1>1
  <2>2. read[0] = <<>>
    BY <1>4, <2>1
  <2>3. ASSUME NEW i \in 1..n
        PROVE  read[i] = IF Readable(file[i]) THEN <<file[i].rec>> \o read[i - 1] ELSE read[i - 1]
    <3>1. i \in 0..n /\ i # 0
      BY <1>1
    <3> QED
      BY <1>4, <3>1 DEF Readable
  <2> QED
    BY <2>2, <2>3
<1> DEFINE G == {m \in 0..n : read[m] \in V}
<1>7. 0 \in G
  <2>1. 0 \in 0..n
    BY <1>1
  <2>2. read[0] \in V
    BY <1>2, <1>6
  <2> HIDE DEF V, n
  <2> QED
    BY <2>1, <2>2
<1>8. ASSUME NEW m \in 0..(n - 1), m \in G PROVE m + 1 \in G
  <2>1. m + 1 \in 1..n /\ m + 1 \in 0..n /\ (m + 1) - 1 = m
    BY <1>1
  <2>2. read[m] \in V /\ file[m + 1].rec \in R
    BY <1>1, <1>8, <2>1
  <2>3. read[m + 1] = IF Readable(file[m + 1]) THEN <<file[m + 1].rec>> \o read[m] ELSE read[m]
    BY <1>6, <2>1
  <2>4. <<file[m + 1].rec>> \o read[m] \in V
    BY <2>2, Pushed
  <2> HIDE DEF V
  <2>5. read[m + 1] \in V
    BY <2>2, <2>3, <2>4
  <2> QED
    BY <2>1, <2>5
<1>9. \A m \in 0..n : read[m] \in V
  <2> HIDE DEF G, n
  <2>1. \A m \in 0..n : m \in G
    BY <1>1, <1>7, <1>8, Climb
  <2> QED
    BY <2>1 DEF G
<1>10. DOMAIN read = 0..n /\ read = [i \in 0..n |-> read[i]]
  BY <1>4
<1>11. read \in [0..n -> V]
  <2> HIDE DEF V, n, Read
  <2> QED
    BY <1>9, <1>10
<1>12. Reads(read, file, R)
  BY <1>6, <1>11 DEF Reads
<1> QED
  BY <1>5, <1>12

\* Each line after a file adds its record at the front, or nothing.
LEMMA ParsedAppend ==
  ASSUME NEW R, NEW file \in Seq(Lines(R)), NEW l \in Lines(R)
  PROVE  Parsed(Append(file, l)) = IF Readable(l) THEN <<l.rec>> \o Parsed(file) ELSE Parsed(file)
<1> DEFINE n == Len(file)
           long == Append(file, l)
<1>1. /\ n \in Nat /\ long \in Seq(Lines(R)) /\ Len(long) = n + 1 /\ long[n + 1] = l
      /\ \A i \in 1..n : long[i] = file[i]
  BY AppendProperties, LineFacts
<1>2. PICK q : Reads(q, file, R) /\ Parsed(file) = q[n]
  BY ParsedReads
<1>3. PICK r : Reads(r, long, R) /\ Parsed(long) = r[Len(long)]
  BY <1>1, ParsedReads
<1> HIDE DEF n, long
<1>4. /\ q[0] = <<>>
      /\ \A i \in 1..n : q[i] = IF Readable(file[i]) THEN <<file[i].rec>> \o q[i - 1] ELSE q[i - 1]
  BY <1>2 DEF Reads, n
<1>5. /\ r[0] = <<>>
      /\ \A i \in 1..(n + 1) : r[i] = IF Readable(long[i]) THEN <<long[i].rec>> \o r[i - 1] ELSE r[i - 1]
  BY <1>1, <1>3 DEF Reads
<1> DEFINE G == {m \in 0..n : r[m] = q[m]}
<1>6. 0 \in G
  BY <1>1, <1>4, <1>5
<1>7. ASSUME NEW m \in 0..(n - 1), m \in G PROVE m + 1 \in G
  <2>1. m + 1 \in 1..n /\ m + 1 \in 1..(n + 1) /\ m + 1 \in 0..n /\ (m + 1) - 1 = m
    BY <1>1
  <2>2. q[m + 1] = IF Readable(file[m + 1]) THEN <<file[m + 1].rec>> \o q[m] ELSE q[m]
    BY <1>4, <2>1
  <2>3. r[m + 1] = IF Readable(long[m + 1]) THEN <<long[m + 1].rec>> \o r[m] ELSE r[m]
    BY <1>5, <2>1
  <2>4. long[m + 1] = file[m + 1] /\ r[m] = q[m]
    BY <1>1, <1>7, <2>1
  <2>5. r[m + 1] = q[m + 1]
    BY <2>2, <2>3, <2>4
  <2> QED
    BY <2>1, <2>5
<1>8. n \in G
  <2> HIDE DEF G
  <2>1. \A m \in 0..n : m \in G
    BY <1>1, <1>6, <1>7, Climb
  <2> QED
    BY <1>1, <2>1
<1>9. r[n + 1] = IF Readable(l) THEN <<l.rec>> \o r[n] ELSE r[n]
  <2>1. n + 1 \in 1..(n + 1) /\ (n + 1) - 1 = n
    BY <1>1
  <2> QED
    BY <1>1, <1>5, <2>1
<1>10. Parsed(long) = r[n + 1] /\ Parsed(file) = r[n]
  BY <1>1, <1>2, <1>3, <1>8
<1>11. Parsed(long) = IF Readable(l) THEN <<l.rec>> \o Parsed(file) ELSE Parsed(file)
  BY <1>9, <1>10
<1> QED
  BY <1>11 DEF long

\* Parsed has the records of exactly the lines that can be read.
LEMMA ParsedFacts ==
  ASSUME NEW R, NEW file \in Seq(Lines(R))
  PROVE  /\ Parsed(file) \in Seq(R)
         /\ \A e \in ToSet(Parsed(file)) : \E i \in 1..Len(file) : Readable(file[i]) /\ file[i].rec = e
         /\ \A i \in 1..Len(file) : Readable(file[i]) => file[i].rec \in ToSet(Parsed(file))
<1> DEFINE n == Len(file)
           Has(s, m) ==
               /\ \A j \in 1..Len(s) : \E i \in 1..m : Readable(file[i]) /\ file[i].rec = s[j]
               /\ \A i \in 1..m : Readable(file[i]) => \E j \in 1..Len(s) : s[j] = file[i].rec
<1>1. n \in Nat /\ \A i \in 1..n : file[i].rec \in R
  BY LineFacts
<1>2. PICK q : Reads(q, file, R) /\ Parsed(file) = q[n]
  BY ParsedReads
<1> HIDE DEF n
<1>3. /\ q \in [0..n -> Seq(R)] /\ q[0] = <<>>
      /\ \A i \in 1..n : q[i] = IF Readable(file[i]) THEN <<file[i].rec>> \o q[i - 1] ELSE q[i - 1]
  BY <1>2 DEF Reads, n
<1> DEFINE G == {m \in 0..n : Has(q[m], m)}
<1>4. 0 \in G
  <2>1. Len(q[0]) = 0 /\ 0 \in 0..n
    BY <1>1, <1>3
  <2>2. Has(q[0], 0)
    BY <2>1
  <2> HIDE DEF Has
  <2> QED
    BY <2>1, <2>2
<1>5. ASSUME NEW m \in 0..(n - 1), m \in G PROVE m + 1 \in G
  <2>1. /\ m \in Nat /\ m + 1 \in 1..n /\ m + 1 \in 0..n /\ (m + 1) - 1 = m
        /\ \A i \in 1..(m + 1) : i \in 1..m \/ i = m + 1
        /\ \A i \in 1..m : i \in 1..(m + 1)
        /\ m + 1 \in 1..(m + 1)
    BY <1>1
  <2> DEFINE s == q[m]
             t == q[m + 1]
             e == file[m + 1].rec
  <2>2. s \in Seq(R) /\ e \in R /\ Len(s) \in Nat
    BY <1>1, <1>3, <2>1, Elements
  <2>3. Has(s, m)
    BY <1>5
  <2>4. t = IF Readable(file[m + 1]) THEN <<e>> \o s ELSE s
    BY <1>3, <2>1
  <2> HIDE DEF s, t
  <2>5. CASE ~Readable(file[m + 1])
    <3>1. t = s
      BY <2>4, <2>5
    <3>2. Has(t, m + 1)
      BY <2>1, <2>3, <2>5, <3>1
    <3> HIDE DEF Has
    <3> QED
      BY <2>1, <3>2 DEF t
  <2>6. CASE Readable(file[m + 1])
    <3>1. /\ Len(t) = Len(s) + 1 /\ t[1] = e
          /\ \A j \in 1..Len(s) : t[j + 1] = s[j]
          /\ \A j \in 2..(Len(s) + 1) : t[j] = s[j - 1]
      BY <2>2, <2>4, <2>6, Pushed
    <3>2. ASSUME NEW j \in 1..Len(t)
          PROVE  \E i \in 1..(m + 1) : Readable(file[i]) /\ file[i].rec = t[j]
      <4>1. CASE j = 1
        BY <2>1, <2>6, <3>1, <4>1
      <4>2. CASE j # 1
        <5>1. j \in 2..(Len(s) + 1) /\ j - 1 \in 1..Len(s)
          BY <2>2, <3>1, <4>2
        <5>2. PICK i \in 1..m : Readable(file[i]) /\ file[i].rec = s[j - 1]
          BY <2>3, <5>1
        <5> QED
          BY <2>1, <3>1, <5>1, <5>2
      <4> QED
        BY <4>1, <4>2
    <3>3. ASSUME NEW i \in 1..(m + 1), Readable(file[i])
          PROVE  \E j \in 1..Len(t) : t[j] = file[i].rec
      <4>1. CASE i = m + 1
        <5>1. 1 \in 1..Len(t)
          BY <2>2, <3>1
        <5> QED
          BY <3>1, <4>1, <5>1
      <4>2. CASE i # m + 1
        <5>1. i \in 1..m
          BY <2>1, <4>2
        <5>2. PICK j \in 1..Len(s) : s[j] = file[i].rec
          BY <2>3, <3>3, <5>1
        <5>3. j + 1 \in 1..Len(t)
          BY <2>2, <3>1
        <5> QED
          BY <3>1, <5>2, <5>3
      <4> QED
        BY <4>1, <4>2
    <3>4. Has(t, m + 1)
      BY <3>2, <3>3
    <3> HIDE DEF Has
    <3> QED
      BY <2>1, <3>4 DEF t
  <2> QED
    BY <2>5, <2>6
<1>6. n \in G
  <2> HIDE DEF G
  <2>1. \A m \in 0..n : m \in G
    BY <1>1, <1>4, <1>5, Climb
  <2> QED
    BY <1>1, <2>1
<1>7. Has(Parsed(file), n) /\ Parsed(file) \in Seq(R)
  <2> HIDE DEF Has
  <2> QED
    BY <1>1, <1>2, <1>3, <1>6
<1>8. /\ \A j \in 1..Len(Parsed(file)) : Parsed(file)[j] \in ToSet(Parsed(file))
      /\ \A e \in ToSet(Parsed(file)) : \E j \in 1..Len(Parsed(file)) : Parsed(file)[j] = e
  <2>1. Parsed(file) \in Seq(R)
    BY <1>7
  <2> QED
    BY <2>1, Elements
<1>9. \A e \in ToSet(Parsed(file)) : \E i \in 1..n : Readable(file[i]) /\ file[i].rec = e
  BY <1>7, <1>8
<1>10. \A i \in 1..n : Readable(file[i]) => file[i].rec \in ToSet(Parsed(file))
  BY <1>7, <1>8
<1> QED
  BY <1>7, <1>9, <1>10 DEF n

-----------------------------------------------------------------------------
(* Appending to a file *)

\* The lines of new are those of file and parts of e; whole lines stay.
Spoils(file, new, e) ==
    /\ \A j \in 1..Len(new) : \/ j \in 1..Len(file) /\ new[j] = file[j]
                              \/ new[j].rec = e /\ new[j].kind # "line"
    /\ \A j \in 1..Len(file) : file[j].kind = "line" => j \in 1..Len(new) /\ new[j] = file[j]

\* The list p becomes q: q has e before it, or is p, or p without its first.
Grows(p, q, e, R) ==
    \/ q = <<e>> \o p
    \/ q = p
    \/ \E x \in R : p = <<x>> \o q

\* A file that ends in a line, and what replacing that line reads.
LEMMA LastLine ==
  ASSUME NEW R, NEW file \in Seq(Lines(R)), file # <<>>, NEW l \in Lines(R),
         NEW new, new = [file EXCEPT ![Len(file)] = l]
  PROVE  \E front \in Seq(Lines(R)) : file = Append(front, file[Len(file)]) /\ new = Append(front, l)
<1> DEFINE n == Len(file)
           front == SubSeq(file, 1, n - 1)
<1>1. n \in Nat /\ n >= 1 /\ \A i \in 1..n : file[i] \in Lines(R)
  BY EmptySeq, LineFacts
<1>2. new \in Seq(Lines(R)) /\ Len(new) = n /\ \A i \in 1..n : new[i] = IF i = n THEN l ELSE file[i]
  <2>1. n \in 1..n
    BY <1>1
  <2> QED
    BY <2>1, ExceptSeq
<1>3. front \in Seq(Lines(R)) /\ Len(front) = n - 1 /\ \A i \in 1..(n - 1) : front[i] = file[i]
  <2>1. \A i \in 1..(n - 1) : file[i] \in Lines(R)
    BY <1>1
  <2>2. /\ front \in Seq(Lines(R)) /\ Len(front) = IF 1 <= n - 1 THEN (n - 1) - 1 + 1 ELSE 0
        /\ \A i \in 1..((n - 1) - 1 + 1) : front[i] = file[1 + i - 1]
    <3> HIDE DEF n
    <3> QED
      BY <1>1, <2>1, SubSeqProperties
  <2> HIDE DEF n, front
  <2> QED
    BY <1>1, <2>2
<1> HIDE DEF n, front
<1>4. ASSUME NEW x \in Lines(R), NEW f \in Seq(Lines(R)), Len(f) = n, f[n] = x,
             \A i \in 1..(n - 1) : f[i] = file[i]
      PROVE  f = Append(front, x)
  <2> DEFINE h == Append(front, x)
  <2>1. h \in Seq(Lines(R)) /\ Len(h) = n /\ h[n] = x /\ \A i \in 1..(n - 1) : h[i] = file[i]
    BY <1>1, <1>3, AppendProperties
  <2> HIDE DEF h
  <2>2. \A i \in 1..n : f[i] = h[i]
    BY <1>1, <1>4, <2>1
  <2>3. f = h
    BY <1>4, <2>1, <2>2, SeqEqual
  <2> QED
    BY <2>3 DEF h
<1>5. file = Append(front, file[n])
  <2>1. file[n] \in Lines(R)
    BY <1>1
  <2> QED
    BY <1>4, <2>1 DEF n
<1>6. new = Append(front, l)
  <2>1. n \in 1..n /\ \A i \in 1..(n - 1) : i \in 1..n /\ i # n
    BY <1>1
  <2>2. new[n] = l /\ \A i \in 1..(n - 1) : new[i] = file[i]
    BY <1>2, <2>1
  <2> QED
    BY <1>2, <1>4, <2>2
<1> QED
  BY <1>3, <1>5, <1>6 DEF n

\* A record that is written whole.
LEMMA WholeLine ==
  ASSUME NEW R, NEW file \in Seq(Lines(R)), NEW e \in R, ~Glued(file),
         NEW new, new = Continue(file, "line", e)
  PROVE  /\ new \in Seq(Lines(R)) /\ Len(new) = Len(file) + 1
         /\ new[Len(file) + 1] = Line("line", e) /\ \A j \in 1..Len(file) : new[j] = file[j]
         /\ Parsed(new) = <<e>> \o Parsed(file)
<1>1. Line("line", e) \in Lines(R)
  BY DEF Line, Lines
<1>2. new = Append(file, Line("line", e))
  BY DEF Continue
<1>3. Readable(Line("line", e)) /\ Line("line", e).rec = e
  BY DEF Readable, Line
<1>4. Parsed(new) = <<e>> \o Parsed(file)
  <2>1. \A l \in Lines(R) : Readable(l) => Parsed(Append(file, l)) = <<l.rec>> \o Parsed(file)
    BY ParsedAppend
  <2> QED
    BY <1>1, <1>2, <1>3, <2>1
<1>5. PICK l \in Lines(R) : l = Line("line", e)
  BY <1>1
<1>6. new = Append(file, l)
  BY <1>2, <1>5
<1>7. /\ new \in Seq(Lines(R)) /\ Len(new) = Len(file) + 1 /\ new[Len(file) + 1] = l
      /\ \A j \in 1..Len(file) : new[j] = file[j]
  BY <1>6, AppendProperties
<1> QED
  BY <1>4, <1>5, <1>7

\* What is written after a part of a line, or in part, or not at all.
LEMMA SpoiledLine ==
  ASSUME NEW R, NEW file \in Seq(Lines(R)), NEW e \in R, NEW new,
         \/ Glued(file) /\ new = Continue(file, "line", e)
         \/ new \in AppendFails(file, e)
  PROVE  /\ new \in Seq(Lines(R)) /\ Spoils(file, new, e)
         /\ Grows(Parsed(file), Parsed(new), e, R)
<1>1. Len(file) \in Nat /\ \A i \in 1..Len(file) : file[i] \in Lines(R) /\ file[i].rec \in R
  BY LineFacts
<1>2. CASE new = file
  BY <1>1, <1>2 DEF Spoils, Grows
<1>3. ASSUME NEW kind \in {"line", "open", "cut"}, Glued(file), new = Continue(file, kind, e)
      PROVE  new \in Seq(Lines(R)) /\ Spoils(file, new, e) /\ Grows(Parsed(file), Parsed(new), e, R)
  <2> DEFINE n == Len(file)
  <2>1. PICK l \in Lines(R) : /\ l = Line(IF kind = "line" THEN "bad" ELSE "cut", e)
                              /\ l.rec = e /\ l.kind # "line" /\ ~Readable(l)
    <3> DEFINE m == Line(IF kind = "line" THEN "bad" ELSE "cut", e)
    <3>1. m \in Lines(R) /\ m.rec = e /\ m.kind # "line" /\ ~Readable(m)
      BY DEF Line, Lines, Readable
    <3> QED
      BY <3>1
  <2>2. new = [file EXCEPT ![Len(file)] = l]
    <3>1. new = [file EXCEPT ![Len(file)] = Line(IF kind = "line" THEN "bad" ELSE "cut", e)]
      BY <1>3 DEF Continue
    <3>2. l = Line(IF kind = "line" THEN "bad" ELSE "cut", e)
      BY <2>1
    <3> QED
      BY <3>1, <3>2, Zenon
  <2>3. file # <<>> /\ file[n].kind # "line"
    BY <1>3 DEF Glued
  <2>4. n \in 1..n
    BY <1>1, <2>3, EmptySeq
  <2>5. new \in Seq(Lines(R)) /\ Len(new) = n /\ \A i \in 1..n : new[i] = IF i = n THEN l ELSE file[i]
    BY <2>1, <2>2, <2>4, ExceptSeq
  <2>6. Spoils(file, new, e)
    BY <2>1, <2>3, <2>5 DEF Spoils
  <2>7. PICK front \in Seq(Lines(R)) : file = Append(front, file[n]) /\ new = Append(front, l)
    BY <2>1, <2>2, <2>3, LastLine
  <2>8. Parsed(new) = Parsed(front)
    BY <2>1, <2>7, ParsedAppend
  <2>9. Parsed(file) = IF Readable(file[n]) THEN <<file[n].rec>> \o Parsed(front) ELSE Parsed(front)
    <3>1. file[n] \in Lines(R)
      BY <1>1, <2>4
    <3> QED
      BY <2>7, <3>1, ParsedAppend
  <2>10. file[n].rec \in R
    BY <1>1, <2>4
  <2>11. Grows(Parsed(file), Parsed(new), e, R)
    BY <2>8, <2>9, <2>10 DEF Grows
  <2> QED
    BY <2>5, <2>6, <2>11
<1>4. ASSUME NEW kind \in {"open", "cut"}, ~Glued(file), new = Continue(file, kind, e)
      PROVE  new \in Seq(Lines(R)) /\ Spoils(file, new, e) /\ Grows(Parsed(file), Parsed(new), e, R)
  <2> DEFINE l == Line(kind, e)
  <2>1. l \in Lines(R) /\ l.rec = e /\ l.kind # "line"
    BY DEF Line, Lines
  <2>2. new = Append(file, l)
    BY <1>4 DEF Continue
  <2> HIDE DEF l
  <2>3. /\ new \in Seq(Lines(R)) /\ Len(new) = Len(file) + 1 /\ new[Len(file) + 1] = l
        /\ \A j \in 1..Len(file) : new[j] = file[j]
    BY <2>1, <2>2, AppendProperties
  <2>4. Spoils(file, new, e)
    <3>1. \A j \in 1..Len(new) : j \in 1..Len(file) \/ j = Len(file) + 1
      BY <1>1, <2>3
    <3>2. \A j \in 1..Len(file) : j \in 1..Len(new)
      BY <1>1, <2>3
    <3> QED
      BY <2>1, <2>3, <3>1, <3>2 DEF Spoils
  <2>5. Parsed(new) = IF Readable(l) THEN <<e>> \o Parsed(file) ELSE Parsed(file)
    BY <2>1, <2>2, ParsedAppend
  <2>6. Grows(Parsed(file), Parsed(new), e, R)
    BY <2>5 DEF Grows
  <2> QED
    BY <2>3, <2>4, <2>6
<1>5. \/ new = file
      \/ \E kind \in {"open", "cut"} : new = Continue(file, kind, e)
      \/ Glued(file) /\ new = Continue(file, "line", e)
  BY DEF AppendFails
<1> QED
  BY <1>2, <1>3, <1>4, <1>5

-----------------------------------------------------------------------------
(* What a follower is given *)

\* s has the events with a larger ID among the first m, and they fall.
Newest(s, since, m) ==
    /\ s \in Seq(Event) /\ Falls(s, "id")
    /\ \A i \in 1..Len(s) : \E k \in 1..m : events[k] = s[i] /\ s[i].id > since
    /\ \A k \in 1..m : events[k].id > since => \E i \in 1..Len(s) : s[i] = events[k]

\* One event after a list whose IDs are larger.
LEMMA NewestGrows ==
  ASSUME NEW since, NEW m \in Nat, m + 1 \in 1..Len(events), events \in Seq(Event),
         Falls(events, "id"), NEW s, Newest(s, since, m)
  PROVE  Newest(IF events[m + 1].id > since THEN Append(s, events[m + 1]) ELSE s, since, m + 1)
<1> DEFINE e == events[m + 1]
<1>1. s \in Seq(Event) /\ Len(s) \in Nat /\ e \in Event
  BY Elements DEF Newest
<1>2. /\ \A i \in 1..m : i \in 1..(m + 1)
      /\ \A i \in 1..(m + 1) : i \in 1..m \/ i = m + 1
      /\ m + 1 \in 1..(m + 1)
  OBVIOUS
<1>3. CASE ~(e.id > since)
  BY <1>2, <1>3 DEF Newest
<1>4. CASE e.id > since
  <2> DEFINE t == Append(s, e)
  <2>1. /\ t \in Seq(Event) /\ Len(t) = Len(s) + 1 /\ t[Len(s) + 1] = e
        /\ \A i \in 1..Len(s) : t[i] = s[i]
    BY <1>1, AppendProperties
  <2> HIDE DEF t
  <2>2. \A i \in 1..Len(t) : i \in 1..Len(s) \/ i = Len(s) + 1
    BY <1>1, <2>1
  <2>3. \A i \in 1..Len(s) : s[i].id > e.id
    <3>1. SUFFICES ASSUME NEW i \in 1..Len(s) PROVE s[i].id > e.id
      OBVIOUS
    <3>2. PICK k \in 1..m : events[k] = s[i]
      BY DEF Newest
    <3>3. k \in 1..Len(events) /\ k < m + 1
      OBVIOUS
    <3> QED
      BY <3>2, <3>3 DEF Falls
  <2>4. ASSUME NEW i \in 1..Len(t), NEW j \in 1..Len(t), i < j PROVE t[i]["id"] > t[j]["id"]
    <3>1. CASE j = Len(s) + 1
      <4>1. i \in 1..Len(s)
        BY <1>1, <2>1, <2>4, <3>1
      <4> QED
        BY <2>1, <2>3, <3>1, <4>1
    <3>2. CASE j # Len(s) + 1
      <4>1. i \in 1..Len(s) /\ j \in 1..Len(s)
        BY <1>1, <2>1, <2>4, <3>2
      <4> QED
        BY <2>1, <2>4, <4>1 DEF Newest, Falls
    <3> QED
      BY <3>1, <3>2
  <2>5. ASSUME NEW i \in 1..Len(t) PROVE \E k \in 1..(m + 1) : events[k] = t[i] /\ t[i].id > since
    <3>1. CASE i = Len(s) + 1
      BY <1>2, <1>4, <2>1, <3>1
    <3>2. CASE i # Len(s) + 1
      <4>1. i \in 1..Len(s)
        BY <2>2, <3>2
      <4>2. PICK k \in 1..m : events[k] = s[i] /\ s[i].id > since
        BY <4>1 DEF Newest
      <4> QED
        BY <1>2, <2>1, <4>1, <4>2
    <3> QED
      BY <3>1, <3>2
  <2>6. ASSUME NEW k \in 1..(m + 1), events[k].id > since PROVE \E i \in 1..Len(t) : t[i] = events[k]
    <3>1. CASE k = m + 1
      <4>1. Len(s) + 1 \in 1..Len(t)
        BY <1>1, <2>1
      <4> QED
        BY <2>1, <3>1, <4>1
    <3>2. CASE k # m + 1
      <4>1. k \in 1..m
        BY <1>2, <3>2
      <4>2. PICK i \in 1..Len(s) : s[i] = events[k]
        BY <2>6, <4>1 DEF Newest
      <4>3. i \in 1..Len(t)
        BY <1>1, <2>1
      <4> QED
        BY <2>1, <4>2, <4>3
    <3> QED
      BY <3>1, <3>2
  <2>7. Falls(t, "id")
    BY <2>4 DEF Falls
  <2>8. Newest(t, since, m + 1)
    BY <2>1, <2>5, <2>6, <2>7 DEF Newest
  <2> QED
    BY <1>4, <2>8 DEF t
<1> QED
  BY <1>3, <1>4

\* Store.Events returns exactly the events with a larger ID, newest first.
LEMMA EventsFacts ==
  ASSUME NEW since, events \in Seq(Event), Falls(events, "id")
  PROVE  Newest(Events(since), since, Len(events))
<1> DEFINE n == Len(events)
           V == Seq(Event)
           g == [p \in (1..n) \X V |-> IF events[p[1]].id > since THEN Append(p[2], events[p[1]]) ELSE p[2]]
           Out(f) == [i \in 0..n |-> IF i = 0 THEN <<>>
                                     ELSE IF events[i].id > since THEN Append(f[i - 1], events[i])
                                     ELSE f[i - 1]]
           out == CHOOSE f : f = Out(f)
<1>1. n \in Nat /\ \A i \in 1..n : events[i] \in Event
  BY Elements
<1>2. <<>> \in V /\ g \in [(1..n) \X V -> V]
  <2>1. ASSUME NEW i \in 1..n, NEW v \in V PROVE Append(v, events[i]) \in V
    BY <1>1
  <2>2. \A p \in (1..n) \X V : p[1] \in 1..n /\ p[2] \in V
    OBVIOUS
  <2>3. <<>> \in V
    OBVIOUS
  <2> HIDE DEF V, n
  <2> QED
    BY <2>1, <2>2, <2>3
<1>3. \E f : f = Out(f)
  <2> HIDE DEF n, V, g
  <2>1. PICK f : Computes(f, n, V, <<>>, g)
    BY <1>1, <1>2, Computed
  <2>2. /\ f \in [0..n -> V] /\ f[0] = <<>>
        /\ \A i \in 1..n : f[i] = g[<<i, f[i - 1]>>]
    BY <2>1 DEF Computes
  <2> USE DEF g
  <2>3. ASSUME NEW i \in 0..n
        PROVE  f[i] = IF i = 0 THEN <<>>
                      ELSE IF events[i].id > since THEN Append(f[i - 1], events[i]) ELSE f[i - 1]
    <3>1. CASE i = 0
      BY <2>2, <3>1
    <3>2. CASE i # 0
      <4>1. i \in 1..n /\ i - 1 \in 0..n
        BY <1>1, <3>2
      <4>2. f[i] = g[<<i, f[i - 1]>>] /\ f[i - 1] \in V
        BY <2>2, <4>1
      <4>3. <<i, f[i - 1]>> \in (1..n) \X V
        BY <4>1, <4>2
      <4>4. g[<<i, f[i - 1]>>] = IF events[i].id > since THEN Append(f[i - 1], events[i]) ELSE f[i - 1]
        BY <4>3
      <4> QED
        BY <3>2, <4>2, <4>4
    <3> QED
      BY <3>1, <3>2
  <2>4. f = Out(f)
    BY <2>2, <2>3
  <2> QED
    BY <2>4
<1>4. out = Out(out)
  BY <1>3
<1>5. Events(since) = out[n]
  BY DEF Events
<1> HIDE DEF out
<1>6. /\ out[0] = <<>>
      /\ \A i \in 1..n : out[i] = IF events[i].id > since THEN Append(out[i - 1], events[i]) ELSE out[i - 1]
  <2>1. 0 \in 0..n
    BY <1>1
  <2>2. out[0] = <<>>
    BY <1>4, <2>1
  <2>3. ASSUME NEW i \in 1..n
        PROVE  out[i] = IF events[i].id > since THEN Append(out[i - 1], events[i]) ELSE out[i - 1]
    <3>1. i \in 0..n /\ i # 0
      BY <1>1
    <3> QED
      BY <1>4, <3>1
  <2> QED
    BY <2>2, <2>3
<1> DEFINE G == {m \in 0..n : Newest(out[m], since, m)}
<1>7. 0 \in G
  <2>1. out[0] \in Seq(Event) /\ Len(out[0]) = 0 /\ 0 \in 0..n
    BY <1>1, <1>6
  <2>2. Newest(out[0], since, 0)
    BY <2>1 DEF Newest, Falls
  <2> QED
    BY <2>1, <2>2
<1>8. ASSUME NEW m \in 0..(n - 1), m \in G PROVE m + 1 \in G
  <2>1. m \in Nat /\ m + 1 \in 1..n /\ m + 1 \in 0..n /\ (m + 1) - 1 = m
    BY <1>1
  <2>2. Newest(out[m], since, m)
    BY <1>8
  <2>3. out[m + 1] = IF events[m + 1].id > since THEN Append(out[m], events[m + 1]) ELSE out[m]
    BY <1>6, <2>1
  <2>4. Newest(out[m + 1], since, m + 1)
    BY <2>1, <2>2, <2>3, NewestGrows
  <2> QED
    BY <2>1, <2>4
<1>9. n \in G
  <2> HIDE DEF G, n
  <2>1. \A m \in 0..n : m \in G
    BY <1>1, <1>7, <1>8, Climb
  <2> QED
    BY <1>1, <2>1
<1> QED
  BY <1>5, <1>9

\* A limited answer has all events from the one that the client asked after to
\* the newest that it returns.
LEMMA LimitedFacts ==
  ASSUME NEW since, events \in Seq(Event), Falls(events, "id"), NEW limit \in Nat,
         NEW evs, evs = limited(Events(since), limit)
  PROVE  /\ evs \in Seq(Event) /\ \A e \in ToSet(evs) : e \in ToSet(events)
         /\ \A e \in ToSet(events) :
               evs # <<>> /\ since < e.id /\ e.id <= evs[1].id => e \in ToSet(evs)
<1> DEFINE s == Events(since)
           m == Len(s)
           from == IF limit > 0 /\ m > limit THEN m - limit ELSE 0
<1>1. Newest(s, since, Len(events))
  BY EventsFacts
<1>2. s \in Seq(Event) /\ m \in Nat /\ \A i \in 1..m : s[i] \in Event
  BY <1>1, Elements DEF Newest
<1>3. /\ evs \in Seq(Event) /\ Len(evs) = m - from /\ from \in 0..m
      /\ \A i \in 1..(m - from) : evs[i] = s[i + from]
  <2>1. CASE limit > 0 /\ m > limit
    <3>1. evs = SubSeq(s, m - limit + 1, m)
      BY <2>1 DEF limited
    <3>2. \A i \in (m - limit + 1)..m : s[i] \in Event
      BY <1>2, <2>1
    <3> HIDE DEF m, s
    <3>3. m - limit + 1 \in Int /\ m \in Int
      BY <1>2
    <3>4. /\ evs \in Seq(Event)
          /\ Len(evs) = IF m - limit + 1 <= m THEN m - (m - limit + 1) + 1 ELSE 0
          /\ \A i \in 1..(m - (m - limit + 1) + 1) : evs[i] = s[(m - limit + 1) + i - 1]
      BY <3>1, <3>2, <3>3, SubSeqProperties
    <3>5. from = m - limit
      BY <2>1
    <3>6. Len(evs) = m - from /\ from \in 0..m
      BY <1>2, <2>1, <3>4, <3>5
    <3>7. \A i \in 1..(m - from) : /\ i \in 1..(m - (m - limit + 1) + 1)
                                   /\ (m - limit + 1) + i - 1 = i + from
      BY <1>2, <2>1, <3>5
    <3> QED
      BY <3>4, <3>6, <3>7
  <2>2. CASE ~(limit > 0 /\ m > limit)
    <3>1. evs = s /\ from = 0
      BY <2>2 DEF limited
    <3> HIDE DEF m, s, from
    <3>2. Len(evs) = m
      BY <3>1 DEF m
    <3> QED
      BY <1>2, <3>1, <3>2
  <2> QED
    BY <2>1, <2>2
<1> HIDE DEF m, s, from
<1>4. ASSUME NEW e \in ToSet(evs) PROVE e \in ToSet(events)
  <2>1. PICK i \in 1..Len(evs) : evs[i] = e
    BY <1>3, Elements
  <2>2. i + from \in 1..m /\ s[i + from] = e
    BY <1>2, <1>3, <2>1
  <2>3. PICK k \in 1..Len(events) : events[k] = e
    BY <1>1, <2>2 DEF Newest, m
  <2> QED
    BY <2>3, Elements
<1>5. ASSUME NEW e \in ToSet(events), evs # <<>>, since < e.id, e.id <= evs[1].id
      PROVE  e \in ToSet(evs)
  <2>1. e \in Event /\ \E k \in 1..Len(events) : events[k] = e
    BY Elements
  <2>2. PICK i \in 1..m : s[i] = e
    <3>1. since < e.id => e.id > since
      OBVIOUS
    <3> QED
      BY <1>1, <1>5, <2>1 DEF Newest, m
  <2>3. Len(evs) >= 1 /\ evs[1] = s[1 + from] /\ 1 + from \in 1..m
    <3>1. Len(evs) \in Nat \ {0}
      BY <1>3, <1>5, EmptySeq
    <3> QED
      BY <1>2, <1>3, <3>1
  <2>4. i >= 1 + from
    <3>1. SUFFICES ASSUME i < 1 + from PROVE FALSE
      BY <1>2, <1>3
    <3>2. s[i]["id"] > s[1 + from]["id"]
      BY <1>1, <2>3, <3>1 DEF Newest, Falls, m
    <3>3. s[i].id \in Int /\ s[1 + from].id \in Int
      BY <1>2, <2>3 DEF Event
    <3> QED
      BY <1>5, <2>2, <2>3, <3>2, <3>3
  <2>5. i - from \in 1..(m - from) /\ (i - from) + from = i
    BY <1>2, <1>3, <2>4
  <2>6. evs[i - from] = e
    BY <1>3, <2>2, <2>5
  <2> QED
    BY <1>3, <2>5, <2>6, Elements
<1> QED
  BY <1>3, <1>4, <1>5

-----------------------------------------------------------------------------
(* One record: what becomes of a file and of a buffer *)

\* new is file after e was recorded; e may be lost if its line is not whole.
Wrote(file, new, e, lost, R) ==
    /\ new \in Seq(Lines(R)) /\ Grows(Parsed(file), Parsed(new), e, R)
    /\ ~lost => /\ Parsed(new) = <<e>> \o Parsed(file)
                /\ \E j \in 1..Len(new) : new[j].kind = "line" /\ new[j].rec = e
    /\ \A j \in 1..Len(new) : \/ j \in 1..Len(file) /\ new[j] = file[j]
                              \/ new[j].rec = e /\ (new[j].kind # "line" => lost)
    /\ \A j \in 1..Len(file) : file[j].kind = "line" => j \in 1..Len(new) /\ new[j] = file[j]

LEMMA Written ==
  ASSUME NEW R, NEW file \in Seq(Lines(R)), NEW e \in R, NEW new, NEW lost \in BOOLEAN,
         \/ ~Glued(file) /\ new = Continue(file, "line", e)
         \/ Glued(file) /\ new = Continue(file, "line", e) /\ lost
         \/ new \in AppendFails(file, e) /\ lost
  PROVE  Wrote(file, new, e, lost, R)
<1>1. CASE ~Glued(file) /\ new = Continue(file, "line", e)
  <2>1. /\ new \in Seq(Lines(R)) /\ Len(new) = Len(file) + 1
        /\ new[Len(file) + 1] = Line("line", e) /\ \A j \in 1..Len(file) : new[j] = file[j]
        /\ Parsed(new) = <<e>> \o Parsed(file)
    BY <1>1, WholeLine
  <2>2. Line("line", e).kind = "line" /\ Line("line", e).rec = e
    BY DEF Line
  <2>3. /\ Len(file) + 1 \in 1..Len(new)
        /\ \A j \in 1..Len(new) : j \in 1..Len(file) \/ j = Len(file) + 1
        /\ \A j \in 1..Len(file) : j \in 1..Len(new)
    BY <2>1, LineFacts
  <2>4. Grows(Parsed(file), Parsed(new), e, R)
    BY <2>1 DEF Grows
  <2>5. ASSUME NEW j \in 1..Len(new)
        PROVE  \/ j \in 1..Len(file) /\ new[j] = file[j]
               \/ new[j].rec = e /\ new[j].kind = "line"
    BY <2>1, <2>2, <2>3
  <2>6. new[Len(file) + 1].kind = "line" /\ new[Len(file) + 1].rec = e
    BY <2>1, <2>2
  <2>7. \E j \in 1..Len(new) : new[j].kind = "line" /\ new[j].rec = e
    BY <2>3, <2>6
  <2> QED
    BY <2>1, <2>3, <2>4, <2>5, <2>7 DEF Wrote
<1>2. CASE lost /\ ((Glued(file) /\ new = Continue(file, "line", e)) \/ new \in AppendFails(file, e))
  <2>1. /\ new \in Seq(Lines(R)) /\ Spoils(file, new, e)
        /\ Grows(Parsed(file), Parsed(new), e, R)
    BY <1>2, SpoiledLine
  <2> QED
    BY <1>2, <2>1 DEF Wrote, Spoils
<1> QED
  BY <1>1, <1>2

LEMMA GrowsFacts ==
  ASSUME NEW R, NEW p \in Seq(R), NEW q \in Seq(R), NEW e \in R, Grows(p, q, e, R)
  PROVE  /\ \A x \in ToSet(q) : x = e \/ x \in ToSet(p)
         /\ \A i \in 1..Len(q) : \/ i = 1 /\ q[i] = e
                                 \/ \E j \in 1..Len(p) : q[i] = p[j] /\ i <= j + 1
                                    /\ (q = <<e>> \o p \/ i <= j)
<1>1. Len(p) \in Nat /\ Len(q) \in Nat
  BY Elements
<1>2. ASSUME NEW i \in 1..Len(q)
      PROVE  \/ i = 1 /\ q[i] = e
             \/ \E j \in 1..Len(p) : q[i] = p[j] /\ i <= j + 1 /\ (q = <<e>> \o p \/ i <= j)
  <2>1. CASE q = <<e>> \o p
    <3>1. /\ Len(q) = Len(p) + 1 /\ q[1] = e
          /\ \A k \in 2..(Len(p) + 1) : q[k] = p[k - 1]
      BY <2>1, Pushed
    <3>2. CASE i = 1
      BY <3>1, <3>2
    <3>3. CASE i # 1
      <4>1. i - 1 \in 1..Len(p) /\ i <= (i - 1) + 1 /\ q[i] = p[i - 1]
        BY <1>1, <3>1, <3>3
      <4> QED
        BY <2>1, <4>1
    <3> QED
      BY <3>2, <3>3
  <2>2. CASE q = p
    BY <1>1, <2>2
  <2>3. ASSUME NEW x \in R, p = <<x>> \o q
        PROVE  \E j \in 1..Len(p) : q[i] = p[j] /\ i <= j
    <3>1. Len(p) = Len(q) + 1 /\ \A k \in 1..Len(q) : p[k + 1] = q[k]
      BY <2>3, Pushed
    <3>2. i + 1 \in 1..Len(p) /\ i <= i + 1 /\ q[i] = p[i + 1]
      BY <1>1, <3>1
    <3> QED
      BY <3>2
  <2>4. CASE \E x \in R : p = <<x>> \o q
    <3>1. PICK j \in 1..Len(p) : q[i] = p[j] /\ i <= j
      BY <2>3, <2>4
    <3> QED
      BY <1>1, <3>1
  <2> QED
    BY <2>1, <2>2, <2>4 DEF Grows
<1>3. ASSUME NEW x \in ToSet(q) PROVE x = e \/ x \in ToSet(p)
  <2>1. PICK i \in 1..Len(q) : q[i] = x
    BY Elements
  <2>2. \A j \in 1..Len(p) : p[j] \in ToSet(p)
    BY Elements
  <2> QED
    BY <1>2, <2>1, <2>2
<1> QED
  BY <1>2, <1>3

LEMMA GrowsFalls ==
  ASSUME NEW R, NEW p \in Seq(R), NEW q \in Seq(R), NEW e \in R, NEW f, Grows(p, q, e, R),
         Falls(p, f), \A i \in 1..Len(p) : e[f] > p[i][f]
  PROVE  Falls(q, f)
<1>1. CASE q = <<e>> \o p
  BY <1>1, FallsPushed
<1>2. ASSUME NEW x \in R, p = <<x>> \o q PROVE Falls(q, f)
  BY <1>2, FallsRest
<1> QED
  BY <1>1, <1>2 DEF Grows

\* t is the buffer s after e was put into it.
InFront(s, t, e, size, S) ==
    /\ t \in Seq(S) /\ 1 \in 1..Len(t) /\ t[1] = e
    /\ Len(t) <= size
    /\ \A i \in 1..Len(t) : i # 1 => i - 1 \in 1..Len(s) /\ t[i] = s[i - 1]
    /\ \A x \in ToSet(t) : x = e \/ x \in ToSet(s)

LEMMA PushFacts ==
  ASSUME NEW S, NEW s \in Seq(S), NEW e \in S, NEW size \in Nat \ {0}
  PROVE  InFront(s, Push(s, e, size), e, size, S)
<1> DEFINE t == Push(s, e, size)
<1> DEFINE l == <<e>> \o s
<1>1. /\ Len(s) \in Nat /\ l \in Seq(S) /\ Len(l) = Len(s) + 1 /\ l[1] = e
      /\ \A i \in 2..(Len(s) + 1) : l[i] = s[i - 1]
  BY Pushed, Elements
<1>2. t = Keep(l, size)
  BY DEF Push
<1> HIDE DEF l, t
<1>3. /\ t \in Seq(S) /\ Len(t) = IF Len(l) > size THEN size ELSE Len(l)
      /\ \A i \in 1..Len(t) : i \in 1..Len(l) /\ t[i] = l[i]
  BY <1>1, <1>2, Kept
<1>4. 1 \in 1..Len(t) /\ t[1] = e
  BY <1>1, <1>3
<1>5. ASSUME NEW i \in 1..Len(t), i # 1 PROVE i - 1 \in 1..Len(s) /\ t[i] = s[i - 1]
  BY <1>1, <1>3, <1>5
<1>6. ASSUME NEW x \in ToSet(t) PROVE x = e \/ x \in ToSet(s)
  <2>1. PICK i \in 1..Len(t) : t[i] = x
    BY <1>3, Elements
  <2>2. \A j \in 1..Len(s) : s[j] \in ToSet(s)
    BY Elements
  <2> QED
    BY <1>4, <1>5, <2>1, <2>2
<1>7. Len(t) <= size
  BY <1>1, <1>3
<1>8. InFront(s, t, e, size, S)
  BY <1>3, <1>4, <1>5, <1>6, <1>7 DEF InFront
<1> QED
  BY <1>8 DEF t

LEMMA PushFalls ==
  ASSUME NEW S, NEW s \in Seq(S), NEW e \in S, NEW size \in Nat \ {0}, NEW f, Falls(s, f),
         \A i \in 1..Len(s) : e[f] > s[i][f]
  PROVE  Falls(Push(s, e, size), f)
<1>1. <<e>> \o s \in Seq(S) /\ Falls(<<e>> \o s, f)
  BY Pushed, FallsPushed
<1> QED
  BY <1>1, FallsKept DEF Push

LEMMA NumberFacts ==
  /\ \A e \in Event : e.id \in 1..MaxEvents /\ e.id \in Nat /\ e.n \in 1..MaxEvents /\ e.n \in Nat
  /\ \A r \in Record : r.n \in 1..MaxAudits /\ r.n \in Nat
<1>1. \A e \in Event : e.id \in 1..MaxEvents /\ e.n \in 1..MaxEvents
  BY DEF Event
<1>2. \A r \in Record : r.n \in 1..MaxAudits
  BY DEF Record
<1>3. \A i \in 1..MaxEvents : i \in Nat
  BY EventLogAssumption
<1>4. \A i \in 1..MaxAudits : i \in Nat
  BY EventLogAssumption
<1> QED
  BY <1>1, <1>2, <1>3, <1>4

\* The sequence number after a reload is the ID of the newest event.
LEMMA LoadedSeq ==
  ASSUME NEW p \in Seq(Event), Falls(p, "id")
  PROVE  loadedSeq(p) = IF p = <<>> THEN 0 ELSE p[1].id
<1> DEFINE S == {e.id : e \in ToSet(p)} \cup {0}
           top == IF p = <<>> THEN 0 ELSE p[1].id
<1>1. Len(p) \in Nat /\ (p # <<>> => 1 \in 1..Len(p)) /\ (p = <<>> => Len(p) = 0)
  BY EmptySeq, Elements
<1>2. \A i \in 1..Len(p) : p[i] \in Event /\ p[i].id \in Nat
  BY Elements, NumberFacts
<1>3. top \in S /\ top \in Nat
  <2>1. p # <<>> => p[1] \in ToSet(p)
    BY <1>1, Elements
  <2> QED
    BY <1>1, <1>2, <2>1
<1>4. ASSUME NEW y \in S PROVE y \in Nat /\ top >= y
  <2>1. CASE y = 0
    BY <1>3, <2>1
  <2>2. CASE y # 0
    <3>1. PICK e \in ToSet(p) : y = e.id
      BY <2>2
    <3>2. PICK i \in 1..Len(p) : p[i] = e
      BY Elements
    <3>3. p # <<>> /\ 1 \in 1..Len(p) /\ i \in Nat /\ i >= 1
      BY <1>1
    <3>4. i = 1 \/ p[1]["id"] > p[i]["id"]
      BY <3>3 DEF Falls
    <3>5. p[1].id \in Nat /\ p[i].id \in Nat
      BY <1>2, <3>3
    <3> QED
      BY <3>1, <3>2, <3>3, <3>4, <3>5
  <2> QED
    BY <2>1, <2>2
<1>5. loadedSeq(p) = CHOOSE x \in S : \A y \in S : x >= y
  BY DEF loadedSeq, Max
<1> HIDE DEF S, top
<1>6. \A x \in S : (\A y \in S : x >= y) => x = top
  BY <1>3, <1>4
<1>7. \E x \in S : \A y \in S : x >= y
  BY <1>3, <1>4
<1>8. loadedSeq(p) = top
  BY <1>5, <1>6, <1>7
<1> QED
  BY <1>8 DEF top

-----------------------------------------------------------------------------
(* The inductive invariant *)

\* The buffer and the readable lines fall in both numbers, below the counters;
\* while no event was lost, the buffer is the beginning of what can be read.
EventsOK ==
    /\ Len(events) <= EventRingSize /\ Falls(events, "n") /\ Falls(events, "id")
    /\ Falls(Parsed(eventFile), "n") /\ Falls(Parsed(eventFile), "id")
    /\ eventSeq <= recorded
    /\ \A e \in ToSet(events) : e.n <= recorded /\ e.id <= eventSeq
    /\ \A i \in 1..Len(eventFile) : eventFile[i].rec.n <= recorded /\ eventFile[i].rec.id <= recorded
    /\ up => \A e \in ToSet(Parsed(eventFile)) : e.id <= eventSeq
    /\ ~up => events = <<>> /\ eventSeq = 0
    /\ up /\ damaged = {} => /\ events = Keep(Parsed(eventFile), EventRingSize)
                             /\ eventSeq = loadedSeq(Parsed(eventFile))

\* The same of the audit log, whose records have one number.
AuditOK ==
    /\ Len(audit) <= AuditRingSize /\ Falls(audit, "n") /\ Falls(Parsed(auditFile), "n")
    /\ \A r \in ToSet(audit) : r.n <= audited
    /\ \A i \in 1..Len(auditFile) : auditFile[i].rec.n <= audited
    /\ ~up => audit = <<>>
    /\ up /\ ~auditLost => audit = Keep(Parsed(auditFile), AuditRingSize)
    /\ ~auditLost /\ audited > 0 => Parsed(auditFile) # <<>> /\ Parsed(auditFile)[1].n = audited

\* events.jsonl has a whole line with the ID i, or may have lost it.
Known(i) == i \in damaged \/ \E j \in 1..Len(eventFile) :
                                eventFile[j].kind = "line" /\ eventFile[j].rec.id = i

\* An ID is given again only if its event may be lost: every ID up to one that
\* anybody has is known.
KnownOK ==
    /\ \A i \in 1..eventSeq : Known(i)
    /\ \A i \in 1..last : Known(i)
    /\ \A j \in 1..Len(eventFile) : \A i \in 1..eventFile[j].rec.id : Known(i)
    /\ \A j \in 1..Len(eventFile) : eventFile[j].kind # "line" => eventFile[j].rec.id \in damaged

Told(e) == e.id <= last => e.n \in seen \cup evicted \/ e.id \in damaged

\* What the next start brings into the buffer was in it, as far from its end, or
\* has left it; so the follower was told of it.
FollowOK ==
    /\ \A e \in ToSet(events) : Told(e)
    /\ \A j \in 1..Len(eventFile) : eventFile[j].kind = "line" => Told(eventFile[j].rec)
    /\ \A i \in 1..Len(Parsed(eventFile)) :
          \/ Parsed(eventFile)[i].n \in evicted
          \/ up /\ \E j \in 1..Len(events) : i <= j /\ events[j] = Parsed(eventFile)[i]
          \/ ~up /\ i <= EventRingSize

IInv == TypeOK /\ EventsOK /\ AuditOK /\ KnownOK /\ FollowOK

LEMMA Rings == EventRingSize \in Nat \ {0} /\ AuditRingSize \in Nat \ {0}
  BY EventLogAssumption

LEMMA Bounds ==
  /\ MaxEvents \in Nat /\ MaxAudits \in Nat /\ MaxErrors \in Nat /\ MaxCrashes \in Nat
  /\ \A limit \in Limits : limit \in Nat
  BY EventLogAssumption

LEMMA Numbers ==
  ASSUME IInv
  PROVE  /\ eventSeq \in Nat /\ last \in Nat /\ recorded \in Nat /\ audited \in Nat
         /\ auditLost \in BOOLEAN
  BY Bounds DEF IInv, TypeOK

\* The lists that every step starts from.
LEMMA Now ==
  ASSUME IInv
  PROVE  /\ events \in Seq(Event) /\ audit \in Seq(Record)
         /\ eventFile \in Seq(Lines(Event)) /\ auditFile \in Seq(Lines(Record))
         /\ Parsed(eventFile) \in Seq(Event) /\ Parsed(auditFile) \in Seq(Record)
<1>1. /\ events \in Seq(Event) /\ audit \in Seq(Record)
      /\ eventFile \in Seq(Lines(Event)) /\ auditFile \in Seq(Lines(Record))
  BY DEF IInv, TypeOK
<1>2. Parsed(eventFile) \in Seq(Event) /\ Parsed(auditFile) \in Seq(Record)
  BY <1>1, ParsedFacts
<1> QED
  BY <1>1, <1>2

LEMMA Starts == Init => IInv
<1> SUFFICES ASSUME Init PROVE IInv
  OBVIOUS
<1>1. ASSUME NEW R PROVE <<>> \in Seq(Lines(R)) /\ Parsed(<<>>) = <<>>
  <2>1. <<>> \in Seq(Lines(R)) /\ Len(<<>>) = 0
    OBVIOUS
  <2>2. PICK q : Reads(q, <<>>, R) /\ Parsed(<<>>) = q[Len(<<>>)]
    BY <2>1, ParsedReads
  <2> QED
    BY <2>1, <2>2 DEF Reads
<1>2. Parsed(<<>>) = <<>> /\ Len(<<>>) = 0
  BY <1>1
<1>3. TypeOK
  <2>1. /\ <<>> \in Seq(Lines(Event)) /\ <<>> \in Seq(Lines(Record))
        /\ <<>> \in Seq(Event) /\ <<>> \in Seq(Record)
    BY <1>1
  <2>2. 0 \in 0..MaxEvents /\ 0 \in 0..MaxAudits /\ 0 \in 0..MaxErrors /\ 0 \in 0..MaxCrashes
    BY EventLogAssumption
  <2> QED
    BY <2>1, <2>2 DEF Init, TypeOK
<1>4. ToSet(<<>>) = {}
  BY DEF ToSet
<1>5. EventsOK /\ AuditOK
  BY <1>2, <1>4, EventLogAssumption DEF Init, EventsOK, AuditOK, Falls
<1>6. KnownOK /\ FollowOK
  BY <1>2, <1>4 DEF Init, KnownOK, FollowOK
<1> QED
  BY <1>3, <1>5, <1>6 DEF IInv

LEMMA AuditSame ==
  ASSUME AuditOK, UNCHANGED <<up, audit, auditFile, audited, auditLost>>
  PROVE  AuditOK'
BY DEF AuditOK

LEMMA EventsSame ==
  ASSUME EventsOK, KnownOK, FollowOK,
         UNCHANGED <<up, events, eventSeq, eventFile, last, seen, recorded, evicted, damaged>>
  PROVE  EventsOK' /\ KnownOK' /\ FollowOK'
BY DEF EventsOK, KnownOK, Known, FollowOK, Told

-----------------------------------------------------------------------------
(* A start and a crash *)

\* What a start loads.
LEMMA Loaded ==
  ASSUME NEW S, NEW p \in Seq(S), NEW size \in Nat \ {0}, NEW s, s = Keep(p, size)
  PROVE  /\ s \in Seq(S) /\ Len(s) <= size
         /\ \A x \in ToSet(s) : x \in ToSet(p)
         /\ \A i \in 1..Len(p) : i <= size => i \in 1..Len(s) /\ s[i] = p[i]
<1>1. /\ s \in Seq(S) /\ Len(s) = IF Len(p) > size THEN size ELSE Len(p)
      /\ \A i \in 1..Len(s) : i \in 1..Len(p) /\ s[i] = p[i]
  BY Kept
<1>2. Len(p) \in Nat /\ \A i \in 1..Len(p) : p[i] \in ToSet(p)
  BY Elements
<1>3. ASSUME NEW x \in ToSet(s) PROVE x \in ToSet(p)
  <2>1. PICK i \in 1..Len(s) : s[i] = x
    BY <1>1, Elements
  <2> QED
    BY <1>1, <1>2, <2>1
<1>4. ASSUME NEW i \in 1..Len(p), i <= size PROVE i \in 1..Len(s) /\ s[i] = p[i]
  BY <1>1, <1>2, <1>4
<1> QED
  BY <1>1, <1>2, <1>3, <1>4

LEMMA OpenKeeps ==
  ASSUME IInv, Open
  PROVE  IInv'
<1> DEFINE p == Parsed(eventFile)
           q == Parsed(auditFile)
<1>1. /\ events' = Keep(p, EventRingSize) /\ eventSeq' = loadedSeq(p)
      /\ audit' = Keep(q, AuditRingSize) /\ ~up /\ up' = TRUE
      /\ UNCHANGED <<eventFile, auditFile, last, seen, recorded, audited, evicted, damaged,
                     auditLost, errors, crashes>>
  BY DEF Open
<1>2. p \in Seq(Event) /\ q \in Seq(Record)
  BY Now
<1>3. EventsOK /\ AuditOK /\ KnownOK /\ FollowOK /\ TypeOK
  BY DEF IInv
<1>4. /\ \A i \in 1..Len(eventFile) : eventFile[i].rec \in Event
      /\ \A x \in ToSet(p) : \E i \in 1..Len(eventFile) : Readable(eventFile[i]) /\ eventFile[i].rec = x
  BY Now, LineFacts, ParsedFacts
<1>5. \A x \in ToSet(q) : \E i \in 1..Len(auditFile) : auditFile[i].rec = x
  BY Now, ParsedFacts
<1>6. /\ events' \in Seq(Event) /\ Len(events') <= EventRingSize
      /\ \A x \in ToSet(events') : x \in ToSet(p)
      /\ \A i \in 1..Len(p) : i <= EventRingSize => i \in 1..Len(events') /\ events'[i] = p[i]
  BY <1>1, <1>2, Rings, Loaded
<1>7. audit' \in Seq(Record) /\ Len(audit') <= AuditRingSize /\ \A x \in ToSet(audit') : x \in ToSet(q)
  BY <1>1, <1>2, Rings, Loaded
<1>8. Falls(p, "n") /\ Falls(p, "id") /\ Falls(q, "n")
  BY <1>3 DEF EventsOK, AuditOK
<1> HIDE DEF p, q
<1>9. Falls(events', "n") /\ Falls(events', "id") /\ Falls(audit', "n")
  BY <1>1, <1>2, <1>8, Rings, FallsKept
<1>10. eventSeq' = IF p = <<>> THEN 0 ELSE p[1].id
  BY <1>1, <1>2, <1>8, LoadedSeq
<1>11. p # <<>> => p[1] \in ToSet(p) /\ p[1] \in Event
  BY <1>2, EmptySeq, Elements
<1>12. eventSeq' = 0 \/ \E i \in 1..Len(eventFile) : eventSeq' = eventFile[i].rec.id
  BY <1>4, <1>10, <1>11
<1>13. eventSeq' \in 0..MaxEvents /\ eventSeq' <= recorded
  <2>1. \A i \in 1..Len(eventFile) : eventFile[i].rec.id \in 1..MaxEvents
    BY <1>4, NumberFacts
  <2>2. \A i \in 1..Len(eventFile) : eventFile[i].rec.id <= recorded
    BY <1>3 DEF EventsOK
  <2> QED
    BY <1>12, <2>1, <2>2, Numbers, Bounds
<1>14. \A x \in ToSet(p) : x.id <= eventSeq'
  <2>1. SUFFICES ASSUME NEW x \in ToSet(p) PROVE x.id <= eventSeq'
    OBVIOUS
  <2>2. PICK i \in 1..Len(p) : p[i] = x /\ x \in Event
    BY <1>2, Elements
  <2>3. p # <<>> /\ 1 \in 1..Len(p)
    BY <1>2, EmptySeq, Elements
  <2>4. p[1].id \in Nat /\ x.id \in Nat
    BY <1>11, <2>2, <2>3, NumberFacts
  <2>5. i = 1 \/ p[1]["id"] > p[i]["id"]
    BY <1>8, <2>3 DEF Falls
  <2> QED
    BY <1>10, <2>2, <2>3, <2>4, <2>5
<1>15. TypeOK'
  BY <1>1, <1>3, <1>6, <1>7, <1>13 DEF TypeOK
<1>16. EventsOK'
  <2>1. \A x \in ToSet(p) : x.n <= recorded
    BY <1>3, <1>4 DEF EventsOK
  <2>2. \A x \in ToSet(events') : x.n <= recorded' /\ x.id <= eventSeq'
    BY <1>1, <1>6, <1>14, <2>1
  <2>3. Parsed(eventFile') = p
    BY <1>1 DEF p
  <2> QED
    BY <1>1, <1>3, <1>6, <1>8, <1>9, <1>13, <1>14, <2>2, <2>3 DEF EventsOK
<1>17. AuditOK'
  <2>1. \A x \in ToSet(audit') : x.n <= audited'
    BY <1>1, <1>3, <1>5, <1>7 DEF AuditOK
  <2>2. Parsed(auditFile') = q
    BY <1>1 DEF q
  <2>3. ~auditLost /\ audited > 0 => q # <<>> /\ q[1].n = audited
    BY <1>3 DEF AuditOK, q
  <2> QED
    BY <1>1, <1>3, <1>7, <1>8, <1>9, <2>1, <2>2, <2>3 DEF AuditOK
<1>18. KnownOK'
  <2>1. \A i : Known(i) => Known(i)'
    BY <1>1 DEF Known
  <2>2. \A i \in 1..eventSeq' : Known(i)
    BY <1>3, <1>12 DEF KnownOK
  <2> QED
    BY <1>1, <1>3, <2>1, <2>2 DEF KnownOK
<1>19. FollowOK'
  <2>1. ASSUME NEW x, Told(x) PROVE Told(x)'
    BY <1>1, <2>1 DEF Told
  <2>2. \A x \in ToSet(p) : Told(x)
    <3>1. SUFFICES ASSUME NEW x \in ToSet(p) PROVE Told(x)
      OBVIOUS
    <3>2. PICK i \in 1..Len(eventFile) : eventFile[i].rec = x
      BY <1>4
    <3>3. CASE eventFile[i].kind = "line"
      BY <1>3, <3>2, <3>3 DEF FollowOK
    <3>4. CASE eventFile[i].kind # "line"
      BY <1>3, <3>2, <3>4 DEF KnownOK, Told
    <3> QED
      BY <3>3, <3>4
  <2>3. \A x \in ToSet(events') : Told(x)'
    BY <1>6, <2>1, <2>2
  <2>4. (\A j \in 1..Len(eventFile) : eventFile[j].kind = "line" => Told(eventFile[j].rec))'
    BY <1>1, <1>3 DEF FollowOK, Told
  <2>5. Parsed(eventFile') = p
    BY <1>1 DEF p
  <2>6. ASSUME NEW i \in 1..Len(p)
        PROVE  p[i].n \in evicted \/ \E j \in 1..Len(events') : i <= j /\ events'[j] = p[i]
    <3>1. p[i].n \in evicted \/ i <= EventRingSize
      BY <1>1, <1>3 DEF FollowOK, p
    <3> QED
      BY <1>6, <3>1
  <2> QED
    BY <1>1, <2>3, <2>4, <2>5, <2>6 DEF FollowOK
<1> QED
  BY <1>15, <1>16, <1>17, <1>18, <1>19 DEF IInv

LEMMA CrashKeeps ==
  ASSUME IInv, Crash
  PROVE  IInv'
<1>1. /\ up /\ up' = FALSE /\ events' = <<>> /\ eventSeq' = 0 /\ audit' = <<>>
      /\ crashes < MaxCrashes /\ crashes' = crashes + 1
      /\ UNCHANGED <<eventFile, auditFile, last, seen, recorded, audited, evicted, damaged,
                     auditLost, errors>>
  BY DEF Crash
<1>2. EventsOK /\ AuditOK /\ KnownOK /\ FollowOK /\ TypeOK
  BY DEF IInv
<1>3. Len(events') = 0 /\ Len(audit') = 0 /\ ToSet(events') = {} /\ ToSet(audit') = {}
  BY <1>1 DEF ToSet
<1>4. TypeOK'
  <2>1. crashes' \in 0..MaxCrashes /\ eventSeq' \in 0..MaxEvents
    BY <1>1, <1>2, EventLogAssumption DEF TypeOK
  <2>2. events' \in Seq(Event) /\ audit' \in Seq(Record)
    BY <1>1
  <2> QED
    BY <1>1, <1>2, <2>1, <2>2 DEF TypeOK
<1>5. EventsOK'
  <2>1. Falls(events', "n") /\ Falls(events', "id")
    BY <1>3 DEF Falls
  <2>2. Parsed(eventFile') = Parsed(eventFile)
    BY <1>1
  <2>3. 0 <= recorded /\ 0 <= EventRingSize
    BY Numbers, Rings
  <2> QED
    BY <1>1, <1>2, <1>3, <2>1, <2>2, <2>3 DEF EventsOK
<1>6. AuditOK'
  <2>1. Falls(audit', "n")
    BY <1>3 DEF Falls
  <2>2. Parsed(auditFile') = Parsed(auditFile)
    BY <1>1
  <2>3. 0 <= AuditRingSize
    BY Rings
  <2> QED
    BY <1>1, <1>2, <1>3, <2>1, <2>2, <2>3 DEF AuditOK
<1>7. KnownOK'
  <2>1. \A i \in 1..eventSeq' : Known(i)'
    BY <1>1
  <2> QED
    BY <1>1, <1>2, <2>1 DEF KnownOK, Known
<1>8. FollowOK'
  <2> DEFINE p == Parsed(eventFile)
  <2>1. ASSUME NEW i \in 1..Len(p) PROVE p[i].n \in evicted \/ i <= EventRingSize
    <3>1. i \in Nat /\ Len(events) \in Nat /\ Len(events) <= EventRingSize
      BY <1>2, Now, Elements DEF EventsOK
    <3>2. p[i].n \in evicted \/ \E j \in 1..Len(events) : i <= j
      BY <1>1, <1>2 DEF FollowOK
    <3> QED
      BY <3>1, <3>2, Rings
  <2>2. Parsed(eventFile') = p
    BY <1>1
  <2> HIDE DEF p
  <2>3. (\A j \in 1..Len(eventFile) : eventFile[j].kind = "line" => Told(eventFile[j].rec))'
    BY <1>1, <1>2 DEF FollowOK, Told
  <2> QED
    BY <1>1, <1>3, <2>1, <2>2, <2>3 DEF FollowOK
<1> QED
  BY <1>4, <1>5, <1>6, <1>7, <1>8 DEF IInv

-----------------------------------------------------------------------------
(* Recording *)

LEMMA RecordAuditKeeps ==
  ASSUME IInv, RecordAudit
  PROVE  IInv'
<1> DEFINE e == [n |-> audited + 1]
           p == Parsed(auditFile)
           q == Parsed(auditFile')
<1>1. /\ up /\ audited < MaxAudits /\ audited' = audited + 1
      /\ audit' = Push(audit, e, AuditRingSize) /\ auditLost' \in BOOLEAN
      /\ ~auditLost' => ~auditLost
      /\ errors' \in 0..MaxErrors
      /\ \/ ~Glued(auditFile) /\ auditFile' = Continue(auditFile, "line", e)
         \/ Glued(auditFile) /\ auditFile' = Continue(auditFile, "line", e) /\ auditLost'
         \/ auditFile' \in AppendFails(auditFile, e) /\ auditLost'
  <2>1. errors \in 0..MaxErrors /\ MaxErrors \in Nat /\ auditLost \in BOOLEAN
    BY Numbers, Bounds DEF IInv, TypeOK
  <2>2. up /\ audited < MaxAudits /\ audited' = audited + 1 /\ audit' = Push(audit, e, AuditRingSize)
    BY DEF RecordAudit
  <2>3. \/ /\ auditFile' = Continue(auditFile, "line", e)
           /\ auditLost' = (auditLost \/ Glued(auditFile))
           /\ errors' = errors
        \/ /\ errors < MaxErrors /\ errors' = errors + 1
           /\ auditFile' \in AppendFails(auditFile, e)
           /\ auditLost' = TRUE
    BY DEF RecordAudit
  <2> HIDE DEF e
  <2>4. errors' \in 0..MaxErrors
    BY <2>1, <2>3
  <2>5. Glued(auditFile) \in BOOLEAN
    BY DEF Glued
  <2>6. auditLost' \in BOOLEAN
    BY <2>1, <2>3, <2>5
  <2>7. ~auditLost' => ~auditLost
    BY <2>1, <2>3, <2>5
  <2>8. \/ ~Glued(auditFile) /\ auditFile' = Continue(auditFile, "line", e)
        \/ Glued(auditFile) /\ auditFile' = Continue(auditFile, "line", e) /\ auditLost'
        \/ auditFile' \in AppendFails(auditFile, e) /\ auditLost'
    BY <2>1, <2>3, <2>5, Zenon
  <2> QED
    BY <2>2, <2>4, <2>6, <2>7, <2>8, Zenon
<1>2. UNCHANGED <<up, events, eventSeq, eventFile, last, seen, recorded, evicted, damaged, crashes>>
  BY DEF RecordAudit
<1>3. EventsOK /\ AuditOK /\ KnownOK /\ FollowOK /\ TypeOK
  BY DEF IInv
<1>4. EventsOK' /\ KnownOK' /\ FollowOK'
  BY <1>2, <1>3, EventsSame
<1>5. e \in Record /\ e.n = audited + 1 /\ e["n"] = audited + 1 /\ audited \in Nat /\ audited' \in 0..MaxAudits
  BY <1>1, Numbers, Bounds DEF Record
<1> HIDE DEF e
<1>6. Wrote(auditFile, auditFile', e, auditLost', Record)
  BY <1>1, <1>5, Now, Written
<1>7. auditFile' \in Seq(Lines(Record)) /\ Grows(p, q, e, Record) /\ (~auditLost' => q = <<e>> \o p)
  BY <1>6 DEF Wrote
<1>8. p \in Seq(Record) /\ q \in Seq(Record)
  BY <1>7, Now, ParsedFacts
<1>9. /\ audit' \in Seq(Record) /\ Len(audit') <= AuditRingSize
      /\ \A x \in ToSet(audit') : x = e \/ x \in ToSet(audit)
  <2>1. InFront(audit, audit', e, AuditRingSize, Record)
    BY <1>1, <1>5, Now, Rings, PushFacts
  <2> QED
    BY <2>1 DEF InFront
<1> HIDE DEF p, q
<1>10. \A x \in ToSet(p) : x.n <= audited
  <2>1. \A x \in ToSet(p) : \E i \in 1..Len(auditFile) : auditFile[i].rec = x
    BY Now, ParsedFacts DEF p
  <2> QED
    BY <1>3, <2>1 DEF AuditOK
<1>11. \A i \in 1..Len(p) : e["n"] > p[i]["n"]
  <2>1. \A i \in 1..Len(p) : p[i] \in ToSet(p) /\ p[i] \in Record
    BY <1>8, Elements
  <2>2. \A i \in 1..Len(p) : p[i].n \in Nat /\ p[i].n <= audited
    BY <1>10, <2>1, NumberFacts
  <2> QED
    BY <1>5, <2>2
<1>12. Falls(p, "n") /\ Falls(audit, "n")
  BY <1>3 DEF AuditOK, p
<1>13. Falls(q, "n")
  BY <1>5, <1>7, <1>8, <1>11, <1>12, GrowsFalls
<1>14. Falls(audit', "n")
  <2>1. \A i \in 1..Len(audit) : audit[i] \in ToSet(audit) /\ audit[i] \in Record
    BY Now, Elements
  <2>2. \A i \in 1..Len(audit) : audit[i].n \in Nat /\ audit[i].n <= audited
    BY <1>3, <2>1, NumberFacts DEF AuditOK
  <2>3. \A i \in 1..Len(audit) : e["n"] > audit[i]["n"]
    BY <1>5, <2>2
  <2> QED
    BY <1>1, <1>5, <1>12, <2>3, Now, Rings, PushFalls
<1>15. ASSUME ~auditLost'
       PROVE  /\ audit' = Keep(q, AuditRingSize) /\ q # <<>> /\ q[1].n = audited'
  <2>1. audit = Keep(p, AuditRingSize)
    BY <1>1, <1>3, <1>15 DEF AuditOK, p
  <2>2. q = <<e>> \o p
    BY <1>7, <1>15
  <2>3. audit' = Keep(q, AuditRingSize)
    BY <1>1, <1>5, <1>8, <2>1, <2>2, Rings, KeptTwice
  <2>4. Len(q) = Len(p) + 1 /\ q[1] = e /\ Len(p) \in Nat
    BY <1>5, <1>8, <2>2, Pushed, Elements
  <2>5. q # <<>>
    BY <1>8, <2>4, EmptySeq
  <2> QED
    BY <1>1, <1>5, <2>3, <2>4, <2>5
<1>16. AuditOK'
  <2>1. \A x \in ToSet(audit) : x.n <= audited + 1
    <3>1. \A x \in ToSet(audit) : x \in Record /\ x.n <= audited
      BY <1>3, Now, Elements DEF AuditOK
    <3>2. \A x \in ToSet(audit) : x.n \in Nat
      BY <3>1, NumberFacts
    <3> QED
      BY <1>5, <3>1, <3>2
  <2>2. \A x \in ToSet(audit') : x.n <= audited'
    BY <1>1, <1>5, <1>9, <2>1
  <2>3. \A i \in 1..Len(auditFile) : auditFile[i].rec.n <= audited + 1
    <3>1. \A i \in 1..Len(auditFile) : auditFile[i].rec.n \in Nat /\ auditFile[i].rec.n <= audited
      BY <1>3, Now, LineFacts, NumberFacts DEF AuditOK
    <3> QED
      BY <1>5, <3>1
  <2>4. \A i \in 1..Len(auditFile') : auditFile'[i].rec.n <= audited'
    BY <1>1, <1>5, <1>6, <2>3 DEF Wrote
  <2>5. Parsed(auditFile') = q
    BY DEF q
  <2> QED
    BY <1>1, <1>2, <1>9, <1>13, <1>14, <1>15, <2>2, <2>4, <2>5 DEF AuditOK
<1>17. TypeOK'
  BY <1>1, <1>2, <1>3, <1>5, <1>7, <1>9 DEF TypeOK
<1> QED
  BY <1>4, <1>16, <1>17 DEF IInv

\* An event moves one place towards the end of the buffer, or leaves it.
LEMMA Moved ==
  ASSUME IInv, NEW e \in Event, e.n = recorded + 1, events' = Push(events, e, EventRingSize),
         evicted' = evicted \cup {x.n : x \in ToSet(events) \ ToSet(events')},
         NEW j \in 1..Len(events)
  PROVE  \/ events[j].n \in evicted'
         \/ j + 1 \in 1..Len(events') /\ events'[j + 1] = events[j]
<1> DEFINE x == events[j]
<1>1. /\ events' \in Seq(Event) /\ 1 \in 1..Len(events') /\ events'[1] = e
      /\ \A i \in 1..Len(events') : i # 1 => i - 1 \in 1..Len(events) /\ events'[i] = events[i - 1]
  <2>1. InFront(events, events', e, EventRingSize, Event)
    BY Now, Rings, PushFacts
  <2> QED
    BY <2>1 DEF InFront
<1>2. Len(events) \in Nat /\ Len(events') \in Nat
  BY <1>1, Now, Elements
<1>3. CASE j + 1 <= Len(events')
  <2>1. j + 1 \in 1..Len(events') /\ j + 1 # 1 /\ (j + 1) - 1 = j
    BY <1>2, <1>3
  <2>2. events'[j + 1] = events[(j + 1) - 1]
    BY <1>1, <2>1
  <2> QED
    BY <2>1, <2>2
<1>4. CASE ~(j + 1 <= Len(events'))
  <2>1. x \in ToSet(events) /\ x.n <= recorded /\ x.n \in Nat /\ recorded \in Nat
    BY Now, Numbers, Elements, NumberFacts DEF IInv, EventsOK
  <2>2. ASSUME x \in ToSet(events') PROVE FALSE
    <3>1. PICK i \in 1..Len(events') : events'[i] = x
      BY <1>1, <2>2, Elements
    <3>2. i # 1
      BY <1>1, <2>1, <3>1
    <3>3. i - 1 \in 1..Len(events) /\ x = events[i - 1] /\ i - 1 < j
      BY <1>1, <1>2, <1>4, <3>1, <3>2
    <3>4. events[i - 1]["n"] > events[j]["n"]
      BY <3>3 DEF IInv, EventsOK, Falls
    <3> QED
      BY <2>1, <3>3, <3>4
  <2> QED
    BY <2>1, <2>2
<1> QED
  BY <1>2, <1>3, <1>4

\* What RecordEvent does to the file and to what is known to be lost.
LEMMA Recorded ==
  ASSUME IInv, RecordEvent, NEW e, e = [id |-> eventSeq + 1, n |-> recorded + 1]
  PROVE  /\ up /\ recorded < MaxEvents /\ recorded' = recorded + 1 /\ eventSeq' = eventSeq + 1
         /\ e \in Event /\ e.id = eventSeq + 1 /\ e.n = recorded + 1
         /\ events' = Push(events, e, EventRingSize)
         /\ evicted' = evicted \cup {x.n : x \in ToSet(events) \ ToSet(events')}
         /\ damaged \subseteq damaged' /\ damaged' \subseteq damaged \cup {e.id}
         /\ errors' \in 0..MaxErrors
         /\ Wrote(eventFile, eventFile', e, e.id \in damaged', Event)
<1>1. /\ up /\ recorded < MaxEvents /\ recorded' = recorded + 1 /\ eventSeq' = eventSeq + 1
      /\ events' = Push(events, e, EventRingSize)
      /\ evicted' = evicted \cup {x.n : x \in ToSet(events) \ ToSet(events')}
  BY DEF RecordEvent
<1>2. \/ /\ eventFile' = Continue(eventFile, "line", e)
         /\ damaged' = IF Glued(eventFile) THEN damaged \cup {e.id} ELSE damaged
         /\ errors' = errors
      \/ /\ errors < MaxErrors /\ errors' = errors + 1
         /\ eventFile' \in AppendFails(eventFile, e)
         /\ damaged' = damaged \cup {e.id}
  BY DEF RecordEvent
<1>3. e \in Event /\ e.id = eventSeq + 1 /\ e.n = recorded + 1
  <2>1. eventSeq <= recorded
    BY DEF IInv, EventsOK
  <2>2. eventSeq + 1 \in 1..MaxEvents /\ recorded + 1 \in 1..MaxEvents
    BY <1>1, <2>1, Numbers, Bounds
  <2> QED
    BY <2>2 DEF Event
<1>4. errors' \in 0..MaxErrors
  <2>1. errors \in 0..MaxErrors /\ MaxErrors \in Nat
    BY Bounds DEF IInv, TypeOK
  <2> QED
    BY <1>2, <2>1
<1>5. damaged \subseteq damaged' /\ damaged' \subseteq damaged \cup {e.id}
  BY <1>2
<1> DEFINE lost == e.id \in damaged'
<1>6. \/ ~Glued(eventFile) /\ eventFile' = Continue(eventFile, "line", e)
      \/ Glued(eventFile) /\ eventFile' = Continue(eventFile, "line", e) /\ lost
      \/ eventFile' \in AppendFails(eventFile, e) /\ lost
  BY <1>2
<1>7. lost \in BOOLEAN
  OBVIOUS
<1>8. Wrote(eventFile, eventFile', e, lost, Event)
  <2> HIDE DEF lost
  <2> QED
    BY <1>3, <1>6, <1>7, Now, Written
<1> QED
  BY <1>1, <1>3, <1>4, <1>5, <1>8

LEMMA RecordEventKeeps ==
  ASSUME IInv, RecordEvent
  PROVE  IInv'
<1> DEFINE p == Parsed(eventFile)
           q == Parsed(eventFile')
<1>1. PICK e : e = [id |-> eventSeq + 1, n |-> recorded + 1]
  OBVIOUS
<1>2. /\ up /\ recorded < MaxEvents /\ recorded' = recorded + 1 /\ eventSeq' = eventSeq + 1
      /\ e \in Event /\ e.id = eventSeq + 1 /\ e.n = recorded + 1
      /\ events' = Push(events, e, EventRingSize)
      /\ evicted' = evicted \cup {x.n : x \in ToSet(events) \ ToSet(events')}
      /\ damaged \subseteq damaged' /\ damaged' \subseteq damaged \cup {e.id}
      /\ errors' \in 0..MaxErrors
      /\ Wrote(eventFile, eventFile', e, e.id \in damaged', Event)
  BY <1>1, Recorded
<1>3. UNCHANGED <<up, audit, auditFile, last, seen, audited, auditLost, crashes>>
  BY DEF RecordEvent
<1>4. EventsOK /\ AuditOK /\ KnownOK /\ FollowOK /\ TypeOK
  BY DEF IInv
<1>5. AuditOK'
  BY <1>3, <1>4, AuditSame
<1>6. /\ eventFile' \in Seq(Lines(Event)) /\ Grows(p, q, e, Event)
      /\ e.id \notin damaged' => q = <<e>> \o p
  BY <1>2 DEF Wrote
<1>7. p \in Seq(Event) /\ q \in Seq(Event)
  BY <1>6, Now, ParsedFacts
<1>8. /\ events' \in Seq(Event) /\ Len(events') <= EventRingSize
      /\ 1 \in 1..Len(events') /\ events'[1] = e
      /\ \A x \in ToSet(events') : x = e \/ x \in ToSet(events)
  <2>1. InFront(events, events', e, EventRingSize, Event)
    BY <1>2, Now, Rings, PushFacts
  <2> QED
    BY <2>1 DEF InFront
<1>9. /\ recorded \in Nat /\ eventSeq \in Nat /\ eventSeq <= recorded
      /\ recorded' \in 0..MaxEvents /\ eventSeq' \in 0..MaxEvents
  <2>1. eventSeq <= recorded
    BY <1>4 DEF EventsOK
  <2>2. recorded \in Nat /\ eventSeq \in Nat /\ MaxEvents \in Nat
    BY Numbers, Bounds
  <2>3. recorded < MaxEvents /\ recorded' = recorded + 1 /\ eventSeq' = eventSeq + 1
    BY <1>2
  <2> QED
    BY <2>1, <2>2, <2>3
<1> HIDE DEF p, q
<1>10. \A x \in ToSet(p) : x.n \in Nat /\ x.id \in Nat /\ x.n <= recorded /\ x.id <= eventSeq
  <2>1. \A x \in ToSet(p) : x \in Event /\ \E i \in 1..Len(eventFile) : eventFile[i].rec = x
    BY <1>7, Now, ParsedFacts, Elements DEF p
  <2>2. \A x \in ToSet(p) : x.n <= recorded
    BY <1>4, <2>1 DEF EventsOK
  <2>3. \A x \in ToSet(p) : x.id <= eventSeq
    BY <1>2, <1>4 DEF EventsOK, p
  <2> QED
    BY <2>1, <2>2, <2>3, NumberFacts
<1>11. \A x \in ToSet(events) : x.n \in Nat /\ x.id \in Nat /\ x.n <= recorded /\ x.id <= eventSeq
  <2>1. \A x \in ToSet(events) : x \in Event
    BY Now, Elements
  <2> QED
    BY <1>4, <2>1, NumberFacts DEF EventsOK
<1>12. \A i \in 1..Len(eventFile) :
          /\ eventFile[i].rec.n \in Nat /\ eventFile[i].rec.n <= recorded
          /\ eventFile[i].rec.id \in Nat /\ eventFile[i].rec.id <= recorded
  <2>1. \A i \in 1..Len(eventFile) : eventFile[i].rec \in Event
    BY Now, LineFacts
  <2> QED
    BY <1>4, <2>1, NumberFacts DEF EventsOK
<1>13. TypeOK'
  <2>1. evicted' \subseteq 1..MaxEvents
    <3>1. \A x \in ToSet(events) : x.n \in 1..MaxEvents
      BY Now, Elements, NumberFacts
    <3>2. evicted \subseteq 1..MaxEvents
      BY <1>4 DEF TypeOK
    <3> QED
      BY <1>2, <3>1, <3>2
  <2>2. damaged' \subseteq 1..MaxEvents
    <3>1. e.id \in 1..MaxEvents /\ damaged \subseteq 1..MaxEvents
      BY <1>2, <1>4, NumberFacts DEF TypeOK
    <3> QED
      BY <1>2, <3>1
  <2> QED
    BY <1>2, <1>3, <1>4, <1>6, <1>8, <1>9, <2>1, <2>2 DEF TypeOK
<1>14. EventsOK'
  <2>1. Falls(p, "n") /\ Falls(p, "id") /\ Falls(events, "n") /\ Falls(events, "id")
    BY <1>4 DEF EventsOK, p
  <2>2. ASSUME NEW s \in Seq(Event),
               \A x \in ToSet(s) : x.n \in Nat /\ x.id \in Nat /\ x.n <= recorded /\ x.id <= eventSeq
        PROVE  \A i \in 1..Len(s) : e["n"] > s[i]["n"] /\ e["id"] > s[i]["id"]
    <3>1. \A i \in 1..Len(s) : s[i] \in ToSet(s)
      BY Elements
    <3>2. \A i \in 1..Len(s) : s[i].n \in Nat /\ s[i].id \in Nat /\ s[i].n <= recorded /\ s[i].id <= eventSeq
      BY <2>2, <3>1
    <3> QED
      BY <1>2, <1>9, <3>2
  <2>3. Falls(q, "n") /\ Falls(q, "id")
    <3>1. \A i \in 1..Len(p) : e["n"] > p[i]["n"] /\ e["id"] > p[i]["id"]
      BY <1>7, <1>10, <2>2
    <3>2. Falls(q, "n")
      BY <1>2, <1>6, <1>7, <2>1, <3>1, GrowsFalls
    <3>3. Falls(q, "id")
      BY <1>2, <1>6, <1>7, <2>1, <3>1, GrowsFalls
    <3> QED
      BY <3>2, <3>3
  <2>4. Falls(events', "n") /\ Falls(events', "id")
    <3>1. \A i \in 1..Len(events) : e["n"] > events[i]["n"] /\ e["id"] > events[i]["id"]
      BY <1>11, <2>2, Now
    <3>2. Falls(events', "n")
      BY <1>2, <2>1, <3>1, Now, Rings, PushFalls
    <3>3. Falls(events', "id")
      BY <1>2, <2>1, <3>1, Now, Rings, PushFalls
    <3> QED
      BY <3>2, <3>3
  <2>5. \A x \in ToSet(events') : x.n <= recorded' /\ x.id <= eventSeq'
    BY <1>2, <1>8, <1>9, <1>11
  <2>6. \A i \in 1..Len(eventFile') : eventFile'[i].rec.n <= recorded' /\ eventFile'[i].rec.id <= recorded'
    <3>1. \A i \in 1..Len(eventFile) : eventFile[i].rec.n <= recorded + 1 /\ eventFile[i].rec.id <= recorded + 1
      BY <1>9, <1>12
    <3>2. e.n <= recorded + 1 /\ e.id <= recorded + 1
      BY <1>2, <1>9
    <3>3. \A i \in 1..Len(eventFile') : \/ i \in 1..Len(eventFile) /\ eventFile'[i] = eventFile[i]
                                        \/ eventFile'[i].rec = e
      BY <1>2 DEF Wrote
    <3> QED
      BY <1>2, <3>1, <3>2, <3>3
  <2>7. \A x \in ToSet(q) : x.id <= eventSeq'
    <3>1. \A x \in ToSet(q) : x = e \/ x \in ToSet(p)
      BY <1>2, <1>6, <1>7, GrowsFacts
    <3> QED
      BY <1>2, <1>9, <1>10, <3>1
  <2>8. ASSUME damaged' = {}
        PROVE  events' = Keep(q, EventRingSize) /\ eventSeq' = loadedSeq(q)
    <3>1. damaged = {} /\ e.id \notin damaged'
      BY <1>2, <2>8
    <3>2. events = Keep(p, EventRingSize)
      BY <1>2, <1>4, <3>1 DEF EventsOK, p
    <3>3. q = <<e>> \o p
      BY <1>6, <3>1
    <3>4. events' = Keep(q, EventRingSize)
      BY <1>2, <1>7, <3>2, <3>3, Rings, KeptTwice
    <3>5. Len(q) = Len(p) + 1 /\ q[1] = e /\ Len(p) \in Nat
      BY <1>2, <1>7, <3>3, Pushed, Elements
    <3>6. q # <<>>
      BY <1>7, <3>5, EmptySeq
    <3>7. loadedSeq(q) = e.id
      BY <1>7, <2>3, <3>5, <3>6, LoadedSeq
    <3> QED
      BY <1>2, <3>4, <3>7
  <2>9. Parsed(eventFile') = q /\ eventSeq' <= recorded'
    BY <1>2, <1>9 DEF q
  <2> QED
    BY <1>2, <1>3, <1>8, <2>3, <2>4, <2>5, <2>6, <2>7, <2>8, <2>9 DEF EventsOK
<1>15. KnownOK'
  <2>1. \A i : Known(i) => Known(i)'
    BY <1>2 DEF Known, Wrote
  <2>2. Known(e.id)'
    BY <1>2 DEF Known, Wrote
  <2>3. \A i \in 1..e.id : Known(i)'
    <3>1. \A i \in 1..e.id : i \in 1..eventSeq \/ i = e.id
      BY <1>2, <1>9
    <3>2. \A i \in 1..eventSeq : Known(i)
      BY <1>4 DEF KnownOK
    <3> QED
      BY <2>1, <2>2, <3>1, <3>2
  <2>4. \A i \in 1..last' : Known(i)'
    BY <1>3, <1>4, <2>1 DEF KnownOK
  <2>5. ASSUME NEW j \in 1..Len(eventFile')
        PROVE  /\ \A i \in 1..eventFile'[j].rec.id : Known(i)'
               /\ eventFile'[j].kind # "line" => eventFile'[j].rec.id \in damaged'
    <3>1. CASE j \in 1..Len(eventFile) /\ eventFile'[j] = eventFile[j]
      BY <1>2, <1>4, <2>1, <3>1 DEF KnownOK
    <3>2. CASE eventFile'[j].rec = e /\ (eventFile'[j].kind # "line" => e.id \in damaged')
      BY <2>3, <3>2
    <3> QED
      BY <1>2, <3>1, <3>2 DEF Wrote
  <2>6. \A i \in 1..eventSeq' : Known(i)'
    BY <1>2, <2>3
  <2> QED
    BY <2>4, <2>5, <2>6 DEF KnownOK
<1>16. FollowOK'
  <2>1. evicted \subseteq evicted' /\ damaged \subseteq damaged'
    BY <1>2
  <2>2. ASSUME NEW x, Told(x) PROVE Told(x)'
    BY <1>3, <2>1, <2>2 DEF Told
  <2>3. Told(e)'
    <3>1. SUFFICES ASSUME e.id <= last PROVE e.id \in damaged
      BY <1>2, <1>3 DEF Told
    <3>2. e.id \in 1..last
      BY <1>2, <1>9, <3>1, Numbers
    <3>3. Known(e.id)
      BY <1>4, <3>2 DEF KnownOK
    <3>4. ASSUME NEW j \in 1..Len(eventFile), eventFile[j].kind = "line", eventFile[j].rec.id = e.id
          PROVE  FALSE
      <4>1. eventFile[j].rec \in ToSet(p)
        BY <3>4, Now, ParsedFacts DEF Readable, p
      <4> QED
        BY <1>2, <1>9, <1>10, <3>4, <4>1
    <3> QED
      BY <3>3, <3>4 DEF Known
  <2>4. \A x \in ToSet(events') : Told(x)'
    BY <1>4, <1>8, <2>2, <2>3 DEF FollowOK
  <2>5. ASSUME NEW j \in 1..Len(eventFile'), eventFile'[j].kind = "line"
        PROVE  \E x : x = eventFile'[j].rec /\ Told(x)'
    <3>1. CASE j \in 1..Len(eventFile) /\ eventFile'[j] = eventFile[j]
      <4>1. Told(eventFile[j].rec)
        BY <1>4, <2>5, <3>1 DEF FollowOK
      <4> QED
        BY <2>2, <3>1, <4>1
    <3>2. CASE eventFile'[j].rec = e
      BY <2>3, <3>2
    <3> QED
      BY <1>2, <3>1, <3>2 DEF Wrote
  <2>6. (\A j \in 1..Len(eventFile) : eventFile[j].kind = "line" => Told(eventFile[j].rec))'
    BY <2>5 DEF Told
  <2>7. ASSUME NEW i \in 1..Len(q)
        PROVE  q[i].n \in evicted' \/ \E j \in 1..Len(events') : i <= j /\ events'[j] = q[i]
    <3>1. CASE i = 1 /\ q[i] = e
      BY <1>8, <3>1
    <3>2. ASSUME NEW k \in 1..Len(p), q[i] = p[k], i <= k + 1
          PROVE  q[i].n \in evicted' \/ \E j \in 1..Len(events') : i <= j /\ events'[j] = q[i]
      <4>1. CASE p[k].n \in evicted
        BY <2>1, <3>2, <4>1
      <4>2. ASSUME NEW j \in 1..Len(events), k <= j, events[j] = p[k]
            PROVE  q[i].n \in evicted' \/ \E m \in 1..Len(events') : i <= m /\ events'[m] = q[i]
        <5>1. \/ events[j].n \in evicted'
              \/ j + 1 \in 1..Len(events') /\ events'[j + 1] = events[j]
          BY <1>2, Moved
        <5>2. i <= j + 1
          BY <1>7, <3>2, <4>2, Elements
        <5> QED
          BY <3>2, <4>2, <5>1, <5>2
      <4>3. p[k].n \in evicted \/ \E j \in 1..Len(events) : k <= j /\ events[j] = p[k]
        BY <1>2, <1>4 DEF FollowOK, p
      <4> QED
        BY <4>1, <4>2, <4>3
    <3>3. \/ i = 1 /\ q[i] = e
          \/ \E k \in 1..Len(p) : q[i] = p[k] /\ i <= k + 1
      BY <1>2, <1>6, <1>7, GrowsFacts
    <3> QED
      BY <3>1, <3>2, <3>3
  <2>8. Parsed(eventFile') = q
    BY DEF q
  <2> QED
    BY <1>2, <1>3, <2>4, <2>6, <2>7, <2>8 DEF FollowOK
<1> QED
  BY <1>5, <1>13, <1>14, <1>15, <1>16 DEF IInv

-----------------------------------------------------------------------------
(* Reading, and the theorems *)

LEMMA hEventsKeeps ==
  ASSUME IInv, NEW limit \in Limits, hEvents(limit)
  PROVE  IInv'
<1>1. PICK evs : evs = limited(Events(last), limit)
  OBVIOUS
<1>2. /\ last' = (IF evs = <<>> THEN last ELSE evs[1].id)
      /\ seen' = seen \cup {x.n : x \in ToSet(evs)}
      /\ UNCHANGED <<up, events, eventSeq, eventFile, audit, auditFile, recorded, audited,
                     evicted, damaged, auditLost, errors, crashes>>
  BY <1>1 DEF hEvents
<1>3. EventsOK /\ AuditOK /\ KnownOK /\ FollowOK /\ TypeOK
  BY DEF IInv
<1>4. /\ evs \in Seq(Event) /\ \A x \in ToSet(evs) : x \in ToSet(events)
      /\ \A x \in ToSet(events) :
            evs # <<>> /\ last < x.id /\ x.id <= evs[1].id => x \in ToSet(evs)
  <2>1. Falls(events, "id") /\ events \in Seq(Event) /\ limit \in Nat
    BY <1>3, Now, Bounds DEF EventsOK
  <2> QED
    BY <1>1, <2>1, LimitedFacts
<1>5. \A x \in ToSet(events) : x.n \in 1..MaxEvents /\ x.id \in 1..MaxEvents /\ x.id \in Nat /\ x.id <= eventSeq
  <2>1. \A x \in ToSet(events) : x \in Event
    BY Now, Elements
  <2> QED
    BY <1>3, <2>1, NumberFacts DEF EventsOK
<1>6. \/ last' = last
      \/ /\ evs # <<>> /\ last' = evs[1].id
         /\ last' \in 1..MaxEvents /\ last' \in Nat /\ last' <= eventSeq
  <2>1. CASE evs = <<>>
    BY <1>2, <2>1
  <2>2. CASE evs # <<>>
    <3>1. 1 \in 1..Len(evs)
      BY <1>4, <2>2, EmptySeq
    <3>2. evs[1] \in ToSet(events)
      BY <1>4, <3>1, Elements
    <3> QED
      BY <1>2, <1>5, <2>2, <3>2
  <2> QED
    BY <2>1, <2>2
<1>7. TypeOK'
  <2>1. last' \in 0..MaxEvents
    <3>1. last \in 0..MaxEvents /\ \A i \in 1..MaxEvents : i \in 0..MaxEvents
      BY <1>3 DEF TypeOK
    <3> QED
      BY <1>6, <3>1
  <2>2. seen' \subseteq 1..MaxEvents
    <3>1. seen \subseteq 1..MaxEvents
      BY <1>3 DEF TypeOK
    <3> QED
      BY <1>2, <1>4, <1>5, <3>1
  <2> QED
    BY <1>2, <1>3, <2>1, <2>2 DEF TypeOK
<1>8. EventsOK' /\ AuditOK'
  BY <1>2, <1>3 DEF EventsOK, AuditOK
<1>9. KnownOK'
  <2>1. \A i : Known(i) <=> Known(i)'
    BY <1>2 DEF Known
  <2>2. \A i \in 1..last' : Known(i)
    <3>1. CASE last' = last
      BY <1>3, <3>1 DEF KnownOK
    <3>2. CASE last' \in Nat /\ last' <= eventSeq
      <4>1. \A i \in 1..last' : i \in 1..eventSeq
        BY <3>2, Numbers
      <4> QED
        BY <1>3, <4>1 DEF KnownOK
    <3> QED
      BY <1>6, <3>1, <3>2
  <2> QED
    BY <1>2, <1>3, <2>1, <2>2 DEF KnownOK
<1>10. \A x \in ToSet(events) : Told(x)'
  <2>1. SUFFICES ASSUME NEW x \in ToSet(events), x.id <= last'
                 PROVE  x.n \in seen' \cup evicted \/ x.id \in damaged
    BY <1>2 DEF Told
  <2>2. CASE x.id <= last
    BY <1>2, <1>3, <2>2 DEF FollowOK, Told
  <2>3. CASE ~(x.id <= last)
    <3>1. last < x.id
      BY <1>5, <2>3, Numbers
    <3>2. evs # <<>> /\ x.id <= evs[1].id
      BY <1>6, <2>1, <2>3
    <3>3. x \in ToSet(evs)
      BY <1>4, <3>1, <3>2
    <3> QED
      BY <1>2, <3>3
  <2> QED
    BY <2>2, <2>3
<1>11. ASSUME NEW j \in 1..Len(eventFile), eventFile[j].kind = "line"
       PROVE  \E x : x = eventFile[j].rec /\ Told(x)'
  <2> DEFINE p == Parsed(eventFile)
             x == eventFile[j].rec
  <2>1. p \in Seq(Event) /\ x \in ToSet(p)
    BY <1>11, Now, ParsedFacts DEF Readable
  <2>2. PICK i \in 1..Len(p) : p[i] = x
    BY <2>1, Elements
  <2>3. CASE x.n \in evicted
    BY <1>2, <2>3 DEF Told
  <2>4. CASE x.n \notin evicted
    <3>1. PICK k \in 1..Len(events) : events[k] = x
      <4>1. up
        BY DEF hEvents
      <4> QED
        BY <1>3, <2>2, <2>4, <4>1 DEF FollowOK
    <3>2. x \in ToSet(events)
      BY <3>1, Now, Elements
    <3> QED
      BY <1>10, <3>2
  <2> QED
    BY <2>3, <2>4
<1>12. FollowOK'
  <2>1. (\A x \in ToSet(events) : Told(x))'
    BY <1>2, <1>10
  <2>2. (\A j \in 1..Len(eventFile) : eventFile[j].kind = "line" => Told(eventFile[j].rec))'
    BY <1>2, <1>11 DEF Told
  <2>3. (\A i \in 1..Len(Parsed(eventFile)) :
            \/ Parsed(eventFile)[i].n \in evicted
            \/ up /\ \E j \in 1..Len(events) : i <= j /\ events[j] = Parsed(eventFile)[i]
            \/ ~up /\ i <= EventRingSize)'
    BY <1>2, <1>3 DEF FollowOK
  <2> QED
    BY <2>1, <2>2, <2>3 DEF FollowOK
<1> QED
  BY <1>7, <1>8, <1>9, <1>12 DEF IInv

LEMMA StepKeeps == IInv /\ [Next]_vars => IInv'
<1> SUFFICES ASSUME IInv, [Next]_vars PROVE IInv'
  OBVIOUS
<1>1. CASE Open
  BY <1>1, OpenKeeps
<1>2. CASE Crash
  BY <1>2, CrashKeeps
<1>3. CASE RecordEvent
  BY <1>3, RecordEventKeeps
<1>4. CASE RecordAudit
  BY <1>4, RecordAuditKeeps
<1>5. ASSUME NEW limit \in Limits, hEvents(limit) PROVE IInv'
  BY <1>5, hEventsKeeps
<1>6. CASE UNCHANGED vars
  <2>1. EventsOK' /\ KnownOK' /\ FollowOK' /\ AuditOK'
    BY <1>6, EventsSame, AuditSame DEF vars, IInv
  <2>2. TypeOK'
    BY <1>6 DEF vars, IInv, TypeOK
  <2> QED
    BY <2>1, <2>2 DEF IInv
<1> QED
  BY <1>1, <1>2, <1>3, <1>4, <1>5, <1>6 DEF Next

LEMMA Invariant == Spec => []IInv
  BY Starts, StepKeeps, PTL DEF Spec

\* The buffers, the files and the counters keep their types, with files whose
\* lines are torn and glued in any way.
THEOREM LogTypeCorrect == Spec => []TypeOK
<1>1. IInv => TypeOK
  BY DEF IInv
<1> QED
  BY Invariant, <1>1, PTL

\* What Store.Events and AuditLog return is newest first and bounded, also after
\* a restart, and no ID that is in memory or on disk is given again.
THEOREM ServedNewestFirst == Spec => []NewestFirst
<1>1. ASSUME IInv PROVE NewestFirst
  <2>1. EventsOK /\ AuditOK
    BY <1>1 DEF IInv
  <2>2. \A i, j \in 1..Len(events) :
           i < j => Newer(events[i], events[j]) /\ events[i].id > events[j].id
    BY <2>1 DEF EventsOK, Falls, Newer
  <2>3. \A i, j \in 1..Len(audit) : i < j => Newer(audit[i], audit[j])
    BY <2>1 DEF AuditOK, Falls, Newer
  <2>4. up => \A e \in ToSet(events) \cup ToSet(Parsed(eventFile)) : e.id <= eventSeq
    BY <2>1 DEF EventsOK
  <2> QED
    BY <2>1, <2>2, <2>3, <2>4 DEF NewestFirst, EventsOK, AuditOK
<1>2. IInv => NewestFirst
  BY <1>1
<1> QED
  BY Invariant, <1>2, PTL

\* As long as no append failed, a restart would bring back exactly what is in
\* memory; the first audit record served is the last one written.
THEOREM RestartLosesNothing == Spec => []ReloadFaithful
<1>1. ASSUME IInv PROVE ReloadFaithful
  <2>1. EventsOK /\ AuditOK
    BY <1>1 DEF IInv
  <2>2. SUFFICES ASSUME up, ~auditLost, audited > 0, NEW limit \in Limits
                 PROVE  AuditLog(limit)[1].n = audited
    BY <2>1 DEF ReloadFaithful, EventsOK, AuditOK
  <2> DEFINE q == Parsed(auditFile)
  <2>3. audit = Keep(q, AuditRingSize) /\ q # <<>> /\ q[1].n = audited
    BY <2>1, <2>2 DEF AuditOK
  <2>4. q \in Seq(Record) /\ audit \in Seq(Record) /\ AuditRingSize \in Nat \ {0} /\ limit \in Nat
    BY <1>1, Now, Rings, Bounds
  <2> HIDE DEF q
  <2>5. Len(q) \in Nat /\ Len(q) >= 1
    BY <2>3, <2>4, EmptySeq
  <2>6. /\ Len(audit) = IF Len(q) > AuditRingSize THEN AuditRingSize ELSE Len(q)
        /\ \A i \in 1..Len(audit) : audit[i] = q[i]
    BY <2>3, <2>4, Kept
  <2>7. 1 \in 1..Len(audit) /\ audit[1].n = audited
    BY <2>3, <2>4, <2>5, <2>6
  <2>8. CASE limit <= 0
    BY <2>7, <2>8 DEF AuditLog
  <2>9. CASE ~(limit <= 0)
    <3>1. limit \in Nat \ {0} /\ AuditLog(limit) = Keep(audit, limit)
      BY <2>4, <2>9 DEF AuditLog
    <3>2. /\ Len(Keep(audit, limit)) = IF Len(audit) > limit THEN limit ELSE Len(audit)
          /\ \A i \in 1..Len(Keep(audit, limit)) : Keep(audit, limit)[i] = audit[i]
      BY <2>4, <3>1, Kept
    <3>3. 1 \in 1..Len(Keep(audit, limit))
      BY <2>4, <2>7, <3>1, <3>2, Elements
    <3> QED
      BY <2>7, <3>1, <3>2, <3>3
  <2> QED
    BY <2>8, <2>9
<1>2. IInv => ReloadFaithful
  BY <1>1
<1> QED
  BY Invariant, <1>2, PTL

\* A client that asks for the events after the last one it was given, with any
\* limits, has seen every buffered event up to that ID, but for those it was too
\* late for and those whose ID was given to an event that the file had lost.
THEOREM NoEventSkipped == Spec => []FollowerSkipsNothing
<1>1. IInv => FollowerSkipsNothing
  BY DEF IInv, FollowOK, Told, FollowerSkipsNothing
<1> QED
  BY Invariant, <1>1, PTL

=============================================================================
