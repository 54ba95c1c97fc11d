---------------------------- MODULE Engine_proofs ----------------------------
(***************************************************************************)
(* What is proved of Engine for any desired states, any kernel at the      *)
(* first start, any commands that others give, and any number of changes,  *)
(* foreign commands and faults: the type invariant (KernelStaysOne), that  *)
(* others' routes are kept (OthersRoutesKept) and that Verify is sound     *)
(* (VerifyIsSound).  Two inductive invariants carry them: the commands     *)
(* left are a plan (IInv), and the service is restarted once its file is   *)
(* written (Serving).  At the end, that BuildWith makes such desired       *)
(* states of every valid configuration (BuildIsDesired).                   *)
(***************************************************************************)
EXTENDS Engine, SequenceTheorems, FiniteSetTheorems, WellFoundedInduction, TLAPS

-----------------------------------------------------------------------------
(* What is computed along a list *)

\* A set of the first natural numbers that has 0, and with a number the next one,
\* has them all.
LEMMA Climb ==
  ASSUME NEW n \in Nat, NEW G, 0 \in G, \A m \in 0..(n - 1) : m \in G => m + 1 \in G
  PROVE  \A m \in 0..n : m \in G
<1> SUFFICES ASSUME (0..n) \ G # {} PROVE FALSE
  OBVIOUS
<1> DEFINE T == (0..n) \ G
<1>1. T \subseteq Nat
  OBVIOUS
<1>2. \E m \in T : \A i \in T : ~(<<i, m>> \in OpToRel(<, Nat))
  BY <1>1, NatLessThanWellFounded, WFMin, Zenon
<1>3. PICK m \in T : \A i \in T : ~(<<i, m>> \in OpToRel(<, Nat))
  BY <1>2
<1>4. \A i \in T : ~(i < m)
  BY <1>1, <1>3 DEF OpToRel
<1>5. m # 0 /\ m \in 0..n /\ m - 1 \in 0..(n - 1) /\ (m - 1) + 1 = m
  OBVIOUS
<1>6. m - 1 \notin T
  BY <1>4, <1>5
<1>7. m - 1 \in G
  BY <1>5, <1>6
<1> QED
  BY <1>5, <1>7

\* f has the first m + 1 values that g computes from v.
Computes(f, m, V, v, g) ==
    /\ f \in [0..m -> V] /\ f[0] = v
    /\ \A i \in 1..m : f[i] = g[<<i, f[i - 1]>>]

\* What is computed from one element of a list after the other exists.
LEMMA Computed ==
  ASSUME NEW n \in Nat, NEW V, NEW v \in V, NEW g \in [(1..n) \X V -> V]
  PROVE  \E f : Computes(f, n, V, v, g)
<1> DEFINE G == {m \in 0..n : \E f : Computes(f, m, V, v, g)}
<1>1. 0 \in G
  <2> DEFINE f == [i \in 0..0 |-> v]
  <2>1. f \in [0..0 -> V] /\ f[0] = v
    OBVIOUS
  <2> HIDE DEF f
  <2>2. Computes(f, 0, V, v, g)
    BY <2>1 DEF Computes
  <2> QED
    BY <2>2
<1>2. ASSUME NEW m \in 0..(n - 1), m \in G PROVE m + 1 \in G
  <2>1. PICK f : Computes(f, m, V, v, g)
    BY <1>2
  <2>2. f \in [0..m -> V] /\ f[0] = v /\ \A i \in 1..m : f[i] = g[<<i, f[i - 1]>>]
    BY <2>1 DEF Computes
  <2> DEFINE w == g[<<m + 1, f[m]>>]
             h == [i \in 0..(m + 1) |-> IF i = m + 1 THEN w ELSE f[i]]
  <2>3. f[m] \in V /\ <<m + 1, f[m]>> \in (1..n) \X V
    BY <2>2
  <2>4. w \in V
    BY <2>3
  <2> HIDE DEF w
  <2>5. h \in [0..(m + 1) -> V] /\ h[0] = v
    BY <2>2, <2>4
  <2>6. h[m + 1] = w /\ \A i \in 0..m : h[i] = f[i]
    OBVIOUS
  <2> HIDE DEF h
  <2>7. ASSUME NEW i \in 1..(m + 1) PROVE h[i] = g[<<i, h[i - 1]>>]
    <3>1. i - 1 \in 0..m /\ h[i - 1] = f[i - 1]
      BY <2>6
    <3>2. CASE i = m + 1
      <4>1. h[i - 1] = f[m] /\ h[i] = w
        BY <2>6, <3>1, <3>2
      <4> QED
        BY <3>2, <4>1 DEF w
    <3>3. CASE i # m + 1
      <4>1. i \in 1..m /\ i \in 0..m
        BY <3>3
      <4>2. h[i] = f[i] /\ f[i] = g[<<i, f[i - 1]>>]
        BY <2>2, <2>6, <4>1
      <4> QED
        BY <3>1, <4>2
    <3> QED
      BY <3>2, <3>3
  <2>8. Computes(h, m + 1, V, v, g)
    BY <2>5, <2>7 DEF Computes
  <2>9. m + 1 \in 0..n
    OBVIOUS
  <2> QED
    BY <2>8, <2>9
<1>3. n \in G
  <2> HIDE DEF G
  <2> QED
    BY <1>1, <1>2, Climb
<1> QED
  BY <1>3

LEMMA ListFacts ==
  ASSUME NEW s, IsList(s)
  PROVE  /\ Len(s) \in Nat /\ DOMAIN s = 1..Len(s) /\ s \in Seq(Range(s))
         /\ \A i \in 1..Len(s) : s[i] \in Range(s)
         /\ \A e \in Range(s) : \E i \in 1..Len(s) : s[i] = e
<1>1. s \in Seq(Range(s))
  BY DEF IsList
<1>2. Len(s) \in Nat /\ DOMAIN s = 1..Len(s)
  BY <1>1, LenProperties
<1> QED
  BY <1>1, <1>2 DEF Range

\* A sequence of elements of a set is a list of them.
LEMMA SeqIsList ==
  ASSUME NEW S, NEW s \in Seq(S)
  PROVE  IsList(s) /\ Range(s) \subseteq S
<1>1. Len(s) \in Nat /\ DOMAIN s = 1..Len(s) /\ s \in [1..Len(s) -> S]
  BY LenProperties
<1>2. s \in [1..Len(s) -> Range(s)]
  BY <1>1 DEF Range
<1>3. s \in Seq(Range(s))
  BY <1>1, <1>2
<1> QED
  BY <1>1, <1>3 DEF IsList, Range

-----------------------------------------------------------------------------
(* Selecting and flattening *)

\* s is a part of t up to m: its elements are different ones of t.
Part(s, t, m) ==
    \E at \in [1..Len(s) -> 1..m] :
        /\ \A i \in 1..Len(s) : s[i] = t[at[i]]
        /\ \A i, j \in 1..Len(s) : at[i] = at[j] => i = j

\* Among selects all elements of a list that are in a set, and each one once.
LEMMA Selected ==
  ASSUME NEW s, IsList(s), NEW S
  PROVE  /\ Among(s, S) \in Seq(Range(s) \cap S)
         /\ Range(s) \cap S \subseteq Range(Among(s, S))
         /\ Part(Among(s, S), s, Len(s))
<1> DEFINE n == Len(s)
           A == Range(s) \cap S
           V == Seq(A)
           g == [p \in (1..n) \X V |-> IF s[p[1]] \in S THEN Append(p[2], s[p[1]]) ELSE p[2]]
           Pick(f) == [i \in 0..n |-> IF i = 0 THEN <<>>
                                      ELSE IF s[i] \in S THEN Append(f[i - 1], s[i]) ELSE f[i - 1]]
           pick == CHOOSE f : f = Pick(f)
<1>1. n \in Nat /\ \A i \in 1..n : s[i] \in Range(s)
  BY ListFacts
<1>2. <<>> \in V /\ g \in [(1..n) \X V -> V]
  <2>1. ASSUME NEW i \in 1..n, NEW v \in V, s[i] \in S PROVE Append(v, s[i]) \in V
    <3>1. s[i] \in A
      BY <1>1, <2>1
    <3> QED
      BY <3>1
  <2>2. \A p \in (1..n) \X V : p[1] \in 1..n /\ p[2] \in V
    OBVIOUS
  <2>3. <<>> \in V
    OBVIOUS
  <2> HIDE DEF V, n
  <2> QED
    BY <2>1, <2>2, <2>3
<1>3. \E f : f = Pick(f)
  <2> HIDE DEF n, V, g
  <2>1. PICK f : Computes(f, n, V, <<>>, g)
    BY <1>1, <1>2, Computed
  <2>2. /\ f \in [0..n -> V] /\ f[0] = <<>>
        /\ \A i \in 1..n : f[i] = g[<<i, f[i - 1]>>]
    BY <2>1 DEF Computes
  <2> USE DEF g
  <2>3. ASSUME NEW i \in 0..n
        PROVE  f[i] = IF i = 0 THEN <<>>
                      ELSE IF s[i] \in S THEN Append(f[i - 1], s[i]) ELSE f[i - 1]
    <3>1. CASE i = 0
      BY <2>2, <3>1
    <3>2. CASE i # 0
      <4>1. i \in 1..n /\ i - 1 \in 0..n
        BY <1>1, <3>2
      <4>2. f[i] = g[<<i, f[i - 1]>>] /\ f[i - 1] \in V
        BY <2>2, <4>1
      <4>3. <<i, f[i - 1]>> \in (1..n) \X V
        BY <4>1, <4>2
      <4>4. g[<<i, f[i - 1]>>] = IF s[i] \in S THEN Append(f[i - 1], s[i]) ELSE f[i - 1]
        BY <4>3
      <4> QED
        BY <3>2, <4>2, <4>4
    <3> QED
      BY <3>1, <3>2
  <2>4. f = Pick(f)
    BY <2>2, <2>3
  <2> QED
    BY <2>4
<1>4. pick = Pick(pick)
  BY <1>3
<1>5. Among(s, S) = pick[n]
  BY DEF Among
<1> HIDE DEF pick
<1>6. /\ pick[0] = <<>>
      /\ \A i \in 1..n : pick[i] = IF s[i] \in S THEN Append(pick[i - 1], s[i]) ELSE pick[i - 1]
  <2>1. 0 \in 0..n
    BY <1>1
  <2>2. pick[0] = <<>>
    BY <1>4, <2>1
  <2>3. ASSUME NEW i \in 1..n
        PROVE  pick[i] = IF s[i] \in S THEN Append(pick[i - 1], s[i]) ELSE pick[i - 1]
    <3>1. i \in 0..n /\ i # 0
      BY <1>1
    <3> QED
      BY <1>4, <3>1
  <2> QED
    BY <2>2, <2>3
<1> DEFINE All(m) == \A i \in 1..m : s[i] \in S => \E j \in 1..Len(pick[m]) : pick[m][j] = s[i]
           G == {m \in 0..n : pick[m] \in V /\ All(m) /\ Part(pick[m], s, m)}
<1>7. 0 \in G
  <2>1. pick[0] = <<>> /\ Len(<<>>) = 0
    BY <1>6
  <2>2. Part(<<>>, s, 0)
    <3> DEFINE at == [i \in 1..0 |-> 0]
    <3>1. at \in [1..Len(<<>>) -> 1..0] /\ \A i : i \notin 1..Len(<<>>)
      BY <2>1
    <3> HIDE DEF at
    <3> QED
      BY <3>1 DEF Part
  <2>3. All(0)
    OBVIOUS
  <2>4. 0 \in 0..n /\ pick[0] \in V
    BY <1>1, <1>2, <2>1
  <2>5. Part(pick[0], s, 0)
    BY <2>1, <2>2
  <2> HIDE DEF n, V, All
  <2> QED
    BY <2>3, <2>4, <2>5
<1>8. ASSUME NEW m \in 0..(n - 1), m \in G PROVE m + 1 \in G
  <2>1. pick[m] \in V /\ All(m) /\ Part(pick[m], s, m)
    BY <1>8
  <2>2. m + 1 \in 1..n /\ (m + 1) - 1 = m /\ s[m + 1] \in Range(s)
    BY <1>1
  <2>3. PICK at \in [1..Len(pick[m]) -> 1..m] :
           /\ \A i \in 1..Len(pick[m]) : pick[m][i] = s[at[i]]
           /\ \A i, j \in 1..Len(pick[m]) : at[i] = at[j] => i = j
    BY <2>1 DEF Part
  <2>4. CASE s[m + 1] \in S
    <3> DEFINE l == Len(pick[m])
               new == Append(pick[m], s[m + 1])
               at2 == [i \in 1..(l + 1) |-> IF i = l + 1 THEN m + 1 ELSE at[i]]
    <3>1. pick[m + 1] = new
      BY <1>6, <2>2, <2>4
    <3>2. s[m + 1] \in A /\ l \in Nat
      BY <2>1, <2>2, <2>4
    <3>3. /\ new \in V /\ Len(new) = l + 1
          /\ \A i \in 1..l : new[i] = pick[m][i]
          /\ new[l + 1] = s[m + 1]
      BY <2>1, <3>2
    <3>4. All(m + 1)
      <4> SUFFICES ASSUME NEW i \in 1..(m + 1), s[i] \in S
                   PROVE  \E j \in 1..(l + 1) : new[j] = s[i]
        BY <3>1, <3>3
      <4>1. CASE i = m + 1
        <5>1. l + 1 \in 1..(l + 1) /\ new[l + 1] = s[i]
          BY <3>2, <3>3, <4>1
        <5> QED
          BY <5>1
      <4>2. CASE i # m + 1
        <5>1. i \in 1..m
          BY <4>2
        <5>2. PICK j \in 1..l : pick[m][j] = s[i]
          BY <2>1, <5>1
        <5> QED
          BY <3>2, <3>3, <5>2
      <4> QED
        BY <4>1, <4>2
    <3>5. at2 \in [1..(l + 1) -> 1..(m + 1)]
      BY <3>2
    <3>6. \A i \in 1..(l + 1) : new[i] = s[at2[i]]
      <4> SUFFICES ASSUME NEW i \in 1..(l + 1) PROVE new[i] = s[at2[i]]
        OBVIOUS
      <4>1. CASE i = l + 1
        BY <3>3, <4>1
      <4>2. CASE i # l + 1
        <5>1. i \in 1..l /\ at2[i] = at[i]
          BY <3>2, <4>2
        <5> QED
          BY <2>3, <3>3, <5>1
      <4> QED
        BY <4>1, <4>2
    <3>7. \A i, j \in 1..(l + 1) : at2[i] = at2[j] => i = j
      <4> SUFFICES ASSUME NEW i \in 1..(l + 1), NEW j \in 1..(l + 1), at2[i] = at2[j]
                   PROVE  i = j
        OBVIOUS
      <4>1. ASSUME NEW h \in 1..l PROVE at2[h] = at[h] /\ at[h] \in 1..m
        <5>1. h \in 1..(l + 1) /\ h # l + 1
          BY <3>2
        <5> QED
          BY <5>1
      <4>2. at2[l + 1] = m + 1
        BY <3>2
      <4>3. \A h \in 1..(l + 1) : h = l + 1 \/ h \in 1..l
        BY <3>2
      <4>4. m + 1 \notin 1..m
        OBVIOUS
      <4> HIDE DEF at2
      <4> QED
        BY <2>3, <4>1, <4>2, <4>3, <4>4
    <3> HIDE DEF at2, new, l
    <3>8. Part(new, s, m + 1)
      <4>1. at2 \in [1..Len(new) -> 1..(m + 1)]
        BY <3>3, <3>5
      <4>2. \A i \in 1..Len(new) : new[i] = s[at2[i]]
        BY <3>3, <3>6
      <4>3. \A i, j \in 1..Len(new) : at2[i] = at2[j] => i = j
        BY <3>3, <3>7
      <4> QED
        BY <4>1, <4>2, <4>3, Zenon DEF Part
    <3>9. m + 1 \in 0..n
      BY <2>2
    <3>10. pick[m + 1] \in V /\ Part(pick[m + 1], s, m + 1)
      BY <3>1, <3>3, <3>8
    <3> HIDE DEF V, All, n
    <3> QED
      BY <3>4, <3>9, <3>10
  <2>5. CASE s[m + 1] \notin S
    <3>1. pick[m + 1] = pick[m]
      BY <1>6, <2>2, <2>5
    <3>2. All(m + 1)
      BY <2>1, <2>5, <3>1
    <3>3. at \in [1..Len(pick[m]) -> 1..(m + 1)]
      OBVIOUS
    <3>4. Part(pick[m], s, m + 1)
      BY <2>3, <3>3, Zenon DEF Part
    <3>5. m + 1 \in 0..n
      BY <2>2
    <3>6. pick[m + 1] \in V /\ Part(pick[m + 1], s, m + 1)
      BY <2>1, <3>1, <3>4
    <3> HIDE DEF V, All, n
    <3> QED
      BY <3>2, <3>5, <3>6
  <2> QED
    BY <2>4, <2>5
<1>9. n \in G
  <2> HIDE DEF G, n
  <2>1. \A m \in 0..n : m \in G
    BY <1>1, <1>7, <1>8, Climb
  <2> QED
    BY <1>1, <2>1
<1>10. A \subseteq Range(pick[n])
  <2> SUFFICES ASSUME NEW e \in A PROVE e \in Range(pick[n])
    OBVIOUS
  <2>1. PICK i \in 1..n : s[i] = e
    BY ListFacts
  <2>2. PICK j \in 1..Len(pick[n]) : pick[n][j] = e
    BY <1>9, <2>1
  <2>3. DOMAIN pick[n] = 1..Len(pick[n])
    BY <1>9, LenProperties
  <2> QED
    BY <2>2, <2>3 DEF Range
<1> QED
  BY <1>5, <1>9, <1>10

LEMMA SelectedList ==
  ASSUME NEW s, IsList(s), NEW S
  PROVE  IsList(Among(s, S)) /\ Range(Among(s, S)) = Range(s) \cap S
<1>1. Among(s, S) \in Seq(Range(s) \cap S) /\ Range(s) \cap S \subseteq Range(Among(s, S))
  BY Selected
<1> QED
  BY <1>1, SeqIsList

\* f flattens ss from one element to the next.
Flattens(f, ss, C) ==
    /\ FlattenSeq(ss) = f[Len(ss)]
    /\ \A i \in 1..Len(ss) : /\ f[i] \in Seq(C)
                             /\ f[i] = IF i = 1 THEN ss[i] ELSE f[i - 1] \o ss[i]

LEMMA Flattening ==
  ASSUME NEW C, NEW ss \in Seq(Seq(C)), ss # <<>>
  PROVE  \E f : Flattens(f, ss, C)
<1> DEFINE n == Len(ss)
           V == Seq(C)
           g == [p \in (1..n) \X V |-> IF p[1] = 1 THEN ss[1] ELSE p[2] \o ss[p[1]]]
           Flat(f) == [i \in 1..n |-> IF i = 1 THEN ss[i] ELSE f[i - 1] \o ss[i]]
           flat == CHOOSE f : f = Flat(f)
<1>1. n \in Nat /\ \A i \in 1..n : ss[i] \in V
  BY LenProperties
<1>2. n # 0
  BY EmptySeq
<1>3. <<>> \in V /\ g \in [(1..n) \X V -> V]
  BY <1>1
<1>4. PICK f : Computes(f, n, V, <<>>, g)
  <2> HIDE DEF n, V, g
  <2> QED
    BY <1>1, <1>3, Computed
<1>5. /\ f \in [0..n -> V] /\ f[0] = <<>>
      /\ \A i \in 1..n : f[i] = g[<<i, f[i - 1]>>]
  BY <1>4 DEF Computes
<1> DEFINE h == [i \in 1..n |-> f[i]]
<1>6. ASSUME NEW i \in 1..n PROVE h[i] = Flat(h)[i]
  <2>1. i - 1 \in 0..n /\ f[i - 1] \in V
    <3> HIDE DEF n, V, h, g
    <3> QED
      BY <1>1, <1>5
  <2>2. h[i] = IF i = 1 THEN ss[1] ELSE f[i - 1] \o ss[i]
    BY <1>5, <2>1
  <2>3. i # 1 => h[i - 1] = f[i - 1]
    OBVIOUS
  <2> QED
    BY <2>2, <2>3
<1>7. h = Flat(h)
  BY <1>6
<1>8. flat = Flat(flat)
  BY <1>7
<1>9. FlattenSeq(ss) = flat[n]
  BY <1>2 DEF FlattenSeq
<1> HIDE DEF flat
<1>10. \A i \in 1..n : flat[i] = IF i = 1 THEN ss[i] ELSE flat[i - 1] \o ss[i]
  BY <1>8
<1> DEFINE G == {m \in 0..n : m # 0 => flat[m] \in V}
<1>11. 0 \in G
  BY <1>1
<1>12. ASSUME NEW m \in 0..(n - 1), m \in G PROVE m + 1 \in G
  <2>1. m + 1 \in 1..n /\ (m + 1) - 1 = m
    BY <1>1
  <2>2. flat[m + 1] = IF m + 1 = 1 THEN ss[m + 1] ELSE flat[m] \o ss[m + 1]
    BY <1>10, <2>1
  <2>3. flat[m + 1] \in V
    BY <1>1, <1>12, <2>1, <2>2
  <2> QED
    BY <2>1, <2>3
<1>13. \A m \in 0..n : m \in G
  <2> HIDE DEF G, n
  <2> QED
    BY <1>1, <1>11, <1>12, Climb
<1>14. \A i \in 1..n : flat[i] \in V
  BY <1>1, <1>13
<1>15. Flattens(flat, ss, C)
  BY <1>9, <1>10, <1>14 DEF Flattens
<1> QED
  BY <1>15

\* A list of lists becomes one list.
LEMMA Flattened ==
  ASSUME NEW C, NEW ss \in Seq(Seq(C))
  PROVE  FlattenSeq(ss) \in Seq(C)
<1>1. CASE ss = <<>>
  <2>1. FlattenSeq(ss) = ss
    BY <1>1 DEF FlattenSeq
  <2>2. <<>> \in Seq(C)
    OBVIOUS
  <2> QED
    BY <1>1, <2>1, <2>2
<1>2. CASE ss # <<>>
  <2>1. PICK f : Flattens(f, ss, C)
    BY <1>2, Flattening
  <2>2. Len(ss) \in 1..Len(ss)
    BY <1>2, LenProperties, EmptySeq
  <2> QED
    BY <2>1, <2>2 DEF Flattens
<1> QED
  BY <1>1, <1>2

\* If it is empty, so are they.
LEMMA FlattenedEmpty ==
  ASSUME NEW C, NEW ss \in Seq(Seq(C)), FlattenSeq(ss) = <<>>
  PROVE  \A i \in 1..Len(ss) : ss[i] = <<>>
<1> SUFFICES ASSUME NEW i \in 1..Len(ss), ss[i] # <<>> PROVE FALSE
  OBVIOUS
<1> DEFINE n == Len(ss)
<1>1. n \in Nat /\ \A m \in 1..n : ss[m] \in Seq(C)
  BY LenProperties
<1>2. ss # <<>>
  BY <1>1, EmptySeq
<1>3. PICK f : Flattens(f, ss, C)
  BY <1>2, Flattening
<1>4. /\ f[n] = <<>>
      /\ \A m \in 1..n : f[m] \in Seq(C) /\ f[m] = IF m = 1 THEN ss[m] ELSE f[m - 1] \o ss[m]
  BY <1>3 DEF Flattens
<1> DEFINE G == {m \in 0..n : m >= i => f[m] # <<>>}
<1> HIDE DEF n
<1>5. 0 \in G
  BY <1>1 DEF n
<1>6. ASSUME NEW m \in 0..(n - 1), m \in G PROVE m + 1 \in G
  <2>1. m + 1 \in 1..n /\ (m + 1) - 1 = m /\ i \in 1..n
    BY <1>1 DEF n
  <2>2. CASE m = 0
    <3>1. f[m + 1] = ss[m + 1]
      BY <1>4, <2>1, <2>2
    <3> QED
      BY <2>1, <2>2, <3>1
  <2>3. CASE m # 0
    <3>1. m \in 1..n
      BY <1>1, <2>3
    <3>2. f[m] \in Seq(C) /\ ss[m + 1] \in Seq(C)
      BY <1>1, <1>4, <2>1, <3>1
    <3>3. m + 1 # 1
      BY <2>3
    <3>4. f[m + 1] = f[m] \o ss[m + 1]
      BY <1>4, <2>1, <3>3
    <3>5. m + 1 >= i => f[m] # <<>> \/ ss[m + 1] # <<>>
      <4>1. m >= i \/ m + 1 = i \/ ~(m + 1 >= i)
        BY <2>1
      <4>2. m + 1 = i => ss[m + 1] # <<>>
        OBVIOUS
      <4> QED
        BY <1>6, <4>1, <4>2
    <3>6. m + 1 >= i => f[m + 1] # <<>>
      <4>1. f[m] \o ss[m + 1] = <<>> <=> f[m] = <<>> /\ ss[m + 1] = <<>>
        BY <3>2, ConcatEqualIffEmpty
      <4> QED
        BY <3>4, <3>5, <4>1
    <3> QED
      BY <2>1, <3>6
  <2> QED
    BY <2>2, <2>3
<1>7. \A m \in 0..n : m \in G
  <2> HIDE DEF G
  <2> QED
    BY <1>1, <1>5, <1>6, Climb
<1>8. n \in 0..n /\ n >= i
  BY <1>1 DEF n
<1> QED
  BY <1>4, <1>7, <1>8

\* A finite set can be listed.
LEMMA Enumerated ==
  ASSUME NEW S, IsFiniteSet(S)
  PROVE  SetToSeq(S) \in Seq(S)
<1>1. PICK n \in Nat : ExistsBijection(1..n, S)
  BY FS_NatBijection
<1>2. Cardinality(S) = n
  BY <1>1, FS_CountingElements
<1>3. PICK f \in [1..n -> S] : \A a, b \in 1..n : f[a] = f[b] => a = b
  BY <1>1 DEF ExistsBijection, Bijection, Injection, IsInjective
<1>4. f \in [1..Cardinality(S) -> S] /\ IsInjective(f)
  BY <1>2, <1>3 DEF IsInjective
<1>5. SetToSeq(S) \in [1..Cardinality(S) -> S]
  BY <1>4 DEF SetToSeq
<1> QED
  BY <1>2, <1>5

-----------------------------------------------------------------------------
(* Plans *)

\* A command of certain verbs that routerd may give to install routes of new and
\* to remove routes of old.
Fit(c, do, new, old) ==
    /\ c.do \in do
    /\ c.do = "link add" => IsLink(c.arg)
    /\ c.do = "route replace" => c.arg \in new
    /\ c.do = "route del" => c.arg \in old

Planned(s, do, new, old) == IsList(s) /\ \A c \in Range(s) : Fit(c, do, new, old)

LEMMA PlannedNone == ASSUME NEW do, NEW new, NEW old PROVE Planned(<<>>, do, new, old)
<1>1. <<>> \in Seq({}) /\ Range(<<>>) = {}
  BY DEF Range
<1> QED
  BY <1>1 DEF Planned, IsList

\* What has only fit commands is a plan.
LEMMA PlannedBy ==
  ASSUME NEW do, NEW new, NEW old, NEW C, \A c \in C : Fit(c, do, new, old), NEW s \in Seq(C)
  PROVE  Planned(s, do, new, old)
<1>1. IsList(s) /\ Range(s) \subseteq C
  BY SeqIsList
<1> QED
  BY <1>1 DEF Planned

LEMMA PlannedOne ==
  ASSUME NEW do, NEW new, NEW old, NEW c, Fit(c, do, new, old)
  PROVE  Planned(<<c>>, do, new, old)
<1>1. <<c>> \in Seq({c})
  OBVIOUS
<1> QED
  BY <1>1, PlannedBy

LEMMA PlannedBoth ==
  ASSUME NEW do, NEW new, NEW old, NEW s, Planned(s, do, new, old), NEW t, Planned(t, do, new, old)
  PROVE  Planned(s \o t, do, new, old)
<1> DEFINE C == Range(s) \cup Range(t)
<1>1. \A c \in C : Fit(c, do, new, old)
  BY DEF Planned
<1>2. s \in Seq(Range(s)) /\ t \in Seq(Range(t))
  BY DEF Planned, IsList
<1>3. s \in Seq(C) /\ t \in Seq(C)
  BY <1>2, SeqMonotonic
<1>4. s \o t \in Seq(C)
  BY <1>3, ConcatProperties
<1> HIDE DEF C
<1> QED
  BY <1>1, <1>4, PlannedBy

LEMMA PlannedIf ==
  ASSUME NEW do, NEW new, NEW old, NEW cond, NEW s, Planned(s, do, new, old)
  PROVE  Planned(If(cond, s), do, new, old)
<1>1. If(cond, s) = s \/ If(cond, s) = <<>>
  BY DEF If
<1> QED
  BY <1>1, PlannedNone

\* One command for each element of a list.
LEMMA PlannedEach ==
  ASSUME NEW do, NEW new, NEW old, NEW s, IsList(s), NEW m,
         m = [i \in DOMAIN s |-> m[i]], \A i \in DOMAIN s : Fit(m[i], do, new, old)
  PROVE  Planned(m, do, new, old)
<1>1. DOMAIN s = 1..Len(s) /\ Len(s) \in Nat
  BY ListFacts
<1>2. DOMAIN m = 1..Len(s)
  BY <1>1
<1>3. m \in [1..Len(s) -> Range(m)]
  BY <1>1, <1>2 DEF Range
<1>4. m \in Seq(Range(m))
  BY <1>1, <1>3
<1>5. \A c \in Range(m) : Fit(c, do, new, old)
  BY <1>1, <1>2 DEF Range
<1> QED
  BY <1>4, <1>5, PlannedBy

\* One plan after the other.
LEMMA PlannedAll ==
  ASSUME NEW do, NEW new, NEW old, NEW s, IsList(s), NEW m,
         m = [i \in DOMAIN s |-> m[i]], \A i \in DOMAIN s : Planned(m[i], do, new, old)
  PROVE  Planned(FlattenSeq(m), do, new, old)
<1> DEFINE C == UNION {Range(m[i]) : i \in DOMAIN s}
<1>1. DOMAIN s = 1..Len(s) /\ Len(s) \in Nat
  BY ListFacts
<1>2. \A c \in C : Fit(c, do, new, old)
  BY DEF Planned
<1>3. ASSUME NEW i \in DOMAIN s PROVE m[i] \in Seq(C)
  <2>1. m[i] \in Seq(Range(m[i])) /\ Range(m[i]) \subseteq C
    BY DEF Planned, IsList
  <2> HIDE DEF C
  <2> QED
    BY <2>1, SeqMonotonic
<1> HIDE DEF C
<1>4. m \in [1..Len(s) -> Seq(C)]
  BY <1>1, <1>3
<1>5. m \in Seq(Seq(C))
  BY <1>1, <1>4
<1>6. FlattenSeq(m) \in Seq(C)
  BY <1>5, Flattened
<1> QED
  BY <1>2, <1>6, PlannedBy

LEMMA CmdFields ==
  ASSUME NEW verb, NEW dev, NEW arg
  PROVE  /\ Cmd(verb, dev, arg).do = verb /\ Cmd(verb, dev, arg).arg = arg
         /\ CmdIdempotent(verb, dev, arg).do = verb /\ CmdIdempotent(verb, dev, arg).arg = arg
BY DEF Cmd, CmdIdempotent

\* The verbs that do not write files; those that are about neither routes nor new
\* links.
Quiet == Commands \ {"write conf", "write unit"}
Other == Commands \ {"link add", "route replace", "route del"}

LEMMA FitOther ==
  ASSUME NEW do, NEW new, NEW old, NEW verb \in Other \cap do, NEW dev, NEW arg
  PROVE  Fit(Cmd(verb, dev, arg), do, new, old) /\ Fit(CmdIdempotent(verb, dev, arg), do, new, old)
<1>1. verb \in do /\ verb \notin {"link add", "route replace", "route del"}
  BY DEF Other
<1>2. ASSUME NEW c, c.do = verb PROVE Fit(c, do, new, old)
  BY <1>1, <1>2 DEF Fit
<1>3. Cmd(verb, dev, arg).do = verb /\ CmdIdempotent(verb, dev, arg).do = verb
  BY CmdFields
<1> QED
  BY <1>2, <1>3

\* The other three fit if what they are about does.
LEMMA FitOwn ==
  ASSUME NEW do, NEW new, NEW old, NEW dev, NEW arg, Quiet \subseteq do
  PROVE  /\ IsLink(arg) => Fit(Cmd("link add", dev, arg), do, new, old)
         /\ arg \in new => Fit(Cmd("route replace", dev, arg), do, new, old)
         /\ arg \in old => Fit(Cmd("route del", dev, arg), do, new, old)
<1> USE Quiet \subseteq do DEF Quiet, Commands
<1>1. ASSUME NEW c, c.do = "link add", IsLink(c.arg) PROVE Fit(c, do, new, old)
  BY <1>1 DEF Fit
<1>2. ASSUME NEW c, c.do = "route replace", c.arg \in new PROVE Fit(c, do, new, old)
  BY <1>2 DEF Fit
<1>3. ASSUME NEW c, c.do = "route del", c.arg \in old PROVE Fit(c, do, new, old)
  BY <1>3 DEF Fit
<1>4. IsLink(arg) => Fit(Cmd("link add", dev, arg), do, new, old)
  <2> DEFINE c == Cmd("link add", dev, arg)
  <2>1. c.do = "link add" /\ c.arg = arg
    BY DEF Cmd
  <2>2. IsLink(arg) => Fit(c, do, new, old)
    <3> HIDE DEF c
    <3> QED
      BY <1>1, <2>1
  <2> QED
    BY <2>2
<1>5. arg \in new => Fit(Cmd("route replace", dev, arg), do, new, old)
  <2> DEFINE c == Cmd("route replace", dev, arg)
  <2>1. c.do = "route replace" /\ c.arg = arg
    BY DEF Cmd
  <2>2. arg \in new => Fit(c, do, new, old)
    <3> HIDE DEF c
    <3> QED
      BY <1>2, <2>1
  <2> QED
    BY <2>2
<1>6. arg \in old => Fit(Cmd("route del", dev, arg), do, new, old)
  <2> DEFINE c == Cmd("route del", dev, arg)
  <2>1. c.do = "route del" /\ c.arg = arg
    BY DEF Cmd
  <2>2. arg \in old => Fit(c, do, new, old)
    <3> HIDE DEF c
    <3> QED
      BY <1>3, <2>1
  <2> QED
    BY <2>2
<1> QED
  BY <1>4, <1>5, <1>6

LEMMA PlanLinkFits ==
  ASSUME NEW do, NEW new, NEW old, NEW l, IsLink(l), NEW a, Quiet \subseteq do
  PROVE  Planned(PlanLink(l, a), do, new, old)
<1>1. /\ Fit(Cmd("link del", l.name, None), do, new, old)
      /\ Fit(Cmd("link add", l.name, l), do, new, old)
      /\ Fit(Cmd("master", l.name, l.master), do, new, old)
      /\ Fit(Cmd("up", l.name, l.up), do, new, old)
  <2>1. {"link del", "master", "up"} \subseteq Other \cap do
    BY DEF Commands, Other, Quiet
  <2>2. Fit(Cmd("link add", l.name, l), do, new, old)
    BY FitOwn
  <2> QED
    BY <2>1, <2>2, FitOther
<1>2. /\ Planned(<<Cmd("link del", l.name, None)>>, do, new, old)
      /\ Planned(<<Cmd("link add", l.name, l)>>, do, new, old)
      /\ Planned(<<Cmd("master", l.name, l.master)>>, do, new, old)
      /\ Planned(<<Cmd("up", l.name, l.up)>>, do, new, old)
  BY <1>1, PlannedOne
<1> DEFINE there == HasLink(a.links, l.name)
           recreate == /\ there
                       /\ l.type # "ether"
                       /\ By(a.links, l.name).type \notin {l.type, "ether"}
           cur == IF there /\ ~recreate THEN By(a.links, l.name)
                  ELSE [l EXCEPT !.master = None, !.up = FALSE]
           s1 == If(recreate, <<Cmd("link del", l.name, None)>>)
           s2 == If(recreate \/ ~there, <<Cmd("link add", l.name, l)>>)
           s3 == If(cur.master # l.master, <<Cmd("master", l.name, l.master)>>)
           s4 == If(cur.up # l.up, <<Cmd("up", l.name, l.up)>>)
<1>3. PlanLink(l, a) = IF ~there /\ l.type = "ether" THEN <<>> ELSE s1 \o s2 \o s3 \o s4
  BY DEF PlanLink
<1> HIDE DEF there, recreate, cur
<1>4. Planned(s1, do, new, old) /\ Planned(s2, do, new, old) /\ Planned(s3, do, new, old)
         /\ Planned(s4, do, new, old)
  BY <1>2, PlannedIf
<1> HIDE DEF s1, s2, s3, s4
<1>5. Planned(s1 \o s2 \o s3 \o s4, do, new, old)
  BY <1>4, PlannedBoth
<1> QED
  BY <1>3, <1>5, PlannedNone

LEMMA PlanLinksFits ==
  ASSUME NEW do, NEW new, NEW old, NEW d \in Targets, NEW a, IsList(a.links),
         Quiet \subseteq do
  PROVE  Planned(PlanLinks(d, a), do, new, old)
<1>1. IsList(d.links) /\ \A l \in Range(d.links) : IsLink(l)
  BY EngineAssumption DEF IsDesired
<1>2. ASSUME NEW l, IsLink(l) PROVE Planned(PlanLink(l, a), do, new, old)
  BY <1>2, PlanLinkFits
<1> DEFINE stale == Among(a.links, {l \in Range(a.links) :
                                      /\ l.type \in managedKinds
                                      /\ ~HasLink(d.links, l.name)})
           dels == [i \in DOMAIN stale |-> Cmd("link del", stale[i].name, None)]
           parts == [i \in DOMAIN d.links |-> PlanLink(d.links[i], a)]
<1>3. IsList(stale)
  BY SelectedList
<1>4. PlanLinks(d, a) = dels \o FlattenSeq(parts)
  BY DEF PlanLinks, FlatMap, Map
<1> HIDE DEF stale
<1>5. \A i \in DOMAIN stale : Fit(dels[i], do, new, old)
  <2>1. "link del" \in Other \cap do
    BY DEF Commands, Other, Quiet
  <2> QED
    BY <2>1, FitOther
<1>6. dels = [i \in DOMAIN stale |-> dels[i]]
  OBVIOUS
<1>7. \A i \in DOMAIN d.links : Planned(parts[i], do, new, old)
  BY <1>1, <1>2 DEF Range
<1>8. parts = [i \in DOMAIN d.links |-> parts[i]]
  OBVIOUS
<1> HIDE DEF dels, parts
<1>9. Planned(dels, do, new, old)
  BY <1>3, <1>5, <1>6, PlannedEach
<1>10. Planned(FlattenSeq(parts), do, new, old)
  BY <1>1, <1>7, <1>8, PlannedAll
<1> QED
  BY <1>4, <1>9, <1>10, PlannedBoth

\* The devices of the addresses come in some order.
LEMMA AddrDevsListed ==
  ASSUME NEW d \in Targets, NEW order \in SetToSeqs(AddrDevs(d))
  PROVE  IsList(order)
<1> DEFINE n == Len(d.addrs)
           S == AddrDevs(d)
           f == [i \in 1..n |-> d.addrs[i][1]]
<1>1. IsList(d.addrs)
  BY EngineAssumption DEF IsDesired
<1>2. n \in Nat /\ DOMAIN d.addrs = 1..n
  BY <1>1, ListFacts
<1>3. f \in Surjection(1..n, S)
  BY <1>2 DEF Surjection, AddrDevs
<1>4. IsFiniteSet(1..n)
  BY <1>2, FS_Interval
<1> HIDE DEF n, S, f
<1>5. IsFiniteSet(S)
  BY <1>3, <1>4, FS_Surjection
<1>6. Cardinality(S) \in Nat
  BY <1>5, FS_CardinalityType
<1>7. order \in [1..Cardinality(S) -> S]
  BY DEF SetToSeqs, S
<1>8. order \in Seq(S)
  BY <1>6, <1>7
<1> QED
  BY <1>8, SeqIsList

LEMMA PlanAddrsFits ==
  ASSUME NEW do, NEW new, NEW old, NEW d \in Targets, NEW a, IsFiniteSet(a.addrs), NEW order, IsList(order),
         Quiet \subseteq do
  PROVE  Planned(PlanAddrs(d, a, order), do, new, old)
<1>1. ASSUME NEW dev PROVE Planned(PlanAddrsOf(dev, d, a), do, new, old)
  <2> DEFINE stale == SetToSeq({p \in a.addrs \ Range(d.addrs) : p[1] = dev})
             fresh == Among(d.addrs, {p \in Range(d.addrs) \ a.addrs : p[1] = dev})
             dels == [i \in DOMAIN stale |-> CmdIdempotent("addr del", dev, stale[i][2])]
             adds == [i \in DOMAIN fresh |-> Cmd("addr add", dev, fresh[i][2])]
             skip == ~HasLink(d.links, dev) /\ ~HasLink(a.links, dev)
  <2>1. PlanAddrsOf(dev, d, a) = IF skip THEN <<>> ELSE If(dev \in d.drop, dels) \o adds
    BY DEF PlanAddrsOf, Map
  <2>2. IsList(stale)
    <3> DEFINE S == {p \in a.addrs \ Range(d.addrs) : p[1] = dev}
    <3>1. S \in SUBSET a.addrs
      OBVIOUS
    <3> HIDE DEF S
    <3>2. IsFiniteSet(S)
      BY <3>1, FS_Subset
    <3>3. SetToSeq(S) \in Seq(S)
      BY <3>2, Enumerated
    <3> QED
      BY <3>3, SeqIsList DEF S
  <2>3. IsList(fresh)
    BY EngineAssumption, SelectedList DEF IsDesired
  <2> HIDE DEF stale, fresh, skip
  <2>4. {"addr del", "addr add"} \subseteq Other \cap do
    BY DEF Commands, Other, Quiet
  <2>5. \A i \in DOMAIN stale : Fit(dels[i], do, new, old)
    BY <2>4, FitOther
  <2>6. \A i \in DOMAIN fresh : Fit(adds[i], do, new, old)
    BY <2>4, FitOther
  <2>7. dels = [i \in DOMAIN stale |-> dels[i]] /\ adds = [i \in DOMAIN fresh |-> adds[i]]
    OBVIOUS
  <2> HIDE DEF dels, adds
  <2>8. Planned(dels, do, new, old) /\ Planned(adds, do, new, old)
    BY <2>2, <2>3, <2>5, <2>6, <2>7, PlannedEach
  <2>9. Planned(If(dev \in d.drop, dels), do, new, old)
    BY <2>8, PlannedIf
  <2>10. Planned(If(dev \in d.drop, dels) \o adds, do, new, old)
    BY <2>8, <2>9, PlannedBoth
  <2> QED
    BY <2>1, <2>10, PlannedNone
<1> DEFINE parts == [i \in DOMAIN order |-> PlanAddrsOf(order[i], d, a)]
<1>2. PlanAddrs(d, a, order) = FlattenSeq(parts)
  BY DEF PlanAddrs, FlatMap, Map
<1>3. \A i \in DOMAIN order : Planned(parts[i], do, new, old)
  BY <1>1
<1>4. parts = [i \in DOMAIN order |-> parts[i]]
  OBVIOUS
<1> HIDE DEF parts
<1>5. Planned(FlattenSeq(parts), do, new, old)
  BY <1>3, <1>4, PlannedAll
<1> QED
  BY <1>2, <1>5

\* The routes that the last phase installs are those of the target; what it
\* removes are those of the provenance.
LEMMA PlanRoutesFits ==
  ASSUME NEW d \in Targets, NEW a, NEW managed, IsList(managed), NEW old, Range(managed) \subseteq old,
         NEW do, Quiet \subseteq do
  PROVE  Planned(PlanRoutes(d, a, managed), do, Range(d.routes), old)
<1> DEFINE new == Among(d.routes, {r \in Range(d.routes) : ~HasRoute(a.routes, r)})
           stale == Among(managed, {r \in Range(managed) :
                                      ~desiredHasRoute(d, r) /\ HasRoute(a.routes, r)})
           adds == [i \in DOMAIN new |-> Cmd("route replace", new[i].dev, new[i])]
           dels == [i \in DOMAIN stale |-> Cmd("route del", stale[i].dev, stale[i])]
<1>1. PlanRoutes(d, a, managed) = adds \o dels
  BY DEF PlanRoutes, Map
<1>2. IsList(new) /\ Range(new) \subseteq Range(d.routes)
  <2>1. IsList(d.routes)
    BY EngineAssumption DEF IsDesired
  <2> QED
    BY <2>1, SelectedList
<1>3. IsList(stale) /\ Range(stale) \subseteq Range(managed)
  BY SelectedList
<1> HIDE DEF new, stale
<1>4. \A i \in DOMAIN new : Fit(adds[i], do, Range(d.routes), old)
  <2>1. \A i \in DOMAIN new : new[i] \in Range(d.routes)
    BY <1>2 DEF Range
  <2> QED
    BY <2>1, FitOwn
<1>5. \A i \in DOMAIN stale : Fit(dels[i], do, Range(d.routes), old)
  <2>1. \A i \in DOMAIN stale : stale[i] \in old
    BY <1>3 DEF Range
  <2> QED
    BY <2>1, FitOwn
<1>6. adds = [i \in DOMAIN new |-> adds[i]] /\ dels = [i \in DOMAIN stale |-> dels[i]]
  OBVIOUS
<1> HIDE DEF adds, dels
<1>7. Planned(adds, do, Range(d.routes), old) /\ Planned(dels, do, Range(d.routes), old)
  BY <1>2, <1>3, <1>4, <1>5, <1>6, PlannedEach
<1> QED
  BY <1>1, <1>7, PlannedBoth

\* One command, and two.
LEMMA PlannedTwo ==
  ASSUME NEW do, NEW new, NEW old, NEW verb \in Other \cap do, NEW dev, NEW arg,
         NEW verb2 \in Other \cap do, NEW dev2, NEW arg2
  PROVE  /\ Planned(<<Cmd(verb, dev, arg)>>, do, new, old)
         /\ Planned(<<CmdIdempotent(verb, dev, arg)>>, do, new, old)
         /\ Planned(<<Cmd(verb, dev, arg), Cmd(verb2, dev2, arg2)>>, do, new, old)
         /\ Planned(<<CmdIdempotent(verb, dev, arg), Cmd(verb2, dev2, arg2)>>, do, new, old)
<1> DEFINE C == {Cmd(verb, dev, arg), CmdIdempotent(verb, dev, arg), Cmd(verb2, dev2, arg2)}
<1>1. \A c \in C : Fit(c, do, new, old)
  BY FitOther
<1>2. /\ <<Cmd(verb, dev, arg)>> \in Seq(C) /\ <<CmdIdempotent(verb, dev, arg)>> \in Seq(C)
      /\ <<Cmd(verb, dev, arg), Cmd(verb2, dev2, arg2)>> \in Seq(C)
      /\ <<CmdIdempotent(verb, dev, arg), Cmd(verb2, dev2, arg2)>> \in Seq(C)
  OBVIOUS
<1> HIDE DEF C
<1> QED
  BY <1>1, <1>2, PlannedBy

LEMMA PlanFirewallFits ==
  ASSUME NEW do, NEW new, NEW old, NEW d, NEW a, Quiet \subseteq do
  PROVE  Planned(PlanFirewall(d, a), do, new, old)
<1>1. {"nft delete", "nft load"} \subseteq Other \cap do
  BY DEF Commands, Other, Quiet
<1>2. Planned(<<CmdIdempotent("nft delete", None, None), Cmd("nft load", None, d.nft)>>,
              do, new, old)
  BY <1>1, PlannedTwo
<1> QED
  BY <1>2, PlannedIf DEF PlanFirewall

LEMMA PlanQoSFits ==
  ASSUME NEW do, NEW new, NEW old, NEW d \in Targets, NEW a, Quiet \subseteq do
  PROVE  Planned(PlanQoS(d, a), do, new, old)
<1> DEFINE tc == Among(d.tc, {q \in Range(d.tc) : HasLink(d.links, q.dev) /\ q \notin a.tc})
           m == [i \in DOMAIN tc |-> Cmd("tc", tc[i].dev, tc[i])]
<1>1. PlanQoS(d, a) = m
  BY DEF PlanQoS, Map
<1>2. IsList(tc)
  BY EngineAssumption, SelectedList DEF IsDesired
<1> HIDE DEF tc
<1>3. \A i \in DOMAIN tc : Fit(m[i], do, new, old)
  <2>1. "tc" \in Other \cap do
    BY DEF Commands, Other, Quiet
  <2> QED
    BY <2>1, FitOther
<1>4. m = [i \in DOMAIN tc |-> m[i]]
  OBVIOUS
<1> HIDE DEF m
<1> QED
  BY <1>1, <1>2, <1>3, <1>4, PlannedEach

LEMMA PlanServicesFits ==
  ASSUME NEW new, NEW old, NEW d \in Targets, NEW a
  PROVE  Planned(PlanServices(d, a), Commands, new, old)
<1> DEFINE do == Commands
           confChanged == a.conf # d.conf
           unitChanged == a.unit # Unit
           wg == Among(d.wg, Range(d.wg) \ a.wg)
           s1 == If(confChanged, <<Cmd("write conf", None, d.conf)>>)
           s2 == If(unitChanged, <<Cmd("write unit", None, Unit), Cmd("daemon-reload", None, None)>>)
           s3 == If(confChanged, <<Cmd("restart", None, None)>>)
           s4 == If(confChanged \/ unitChanged, <<CmdIdempotent("enable", None, None)>>)
           s5 == [i \in DOMAIN wg |-> Cmd("wg", wg[i].dev, wg[i].conf)]
<1>1. PlanServices(d, a) = s1 \o s2 \o s3 \o s4 \o s5
  BY DEF PlanServices, Map
<1>2. {"write conf", "write unit", "daemon-reload", "restart", "enable", "wg"} \subseteq Other \cap do
  BY DEF Commands, Other
<1> HIDE DEF do, confChanged, unitChanged
<1>3. Planned(s1, do, new, old)
  BY <1>2, PlannedTwo, PlannedIf
<1>4. Planned(s2, do, new, old)
  <2>1. Planned(<<Cmd("write unit", None, Unit), Cmd("daemon-reload", None, None)>>, do, new, old)
    BY <1>2, PlannedTwo
  <2> QED
    BY <2>1, PlannedIf
<1>5. Planned(s3, do, new, old) /\ Planned(s4, do, new, old)
  BY <1>2, PlannedTwo, PlannedIf
<1>6. Planned(s5, do, new, old)
  <2>1. IsList(wg)
    BY EngineAssumption, SelectedList DEF IsDesired
  <2> HIDE DEF wg
  <2>2. \A i \in DOMAIN wg : Fit(s5[i], do, new, old)
    BY <1>2, FitOther
  <2>3. s5 = [i \in DOMAIN wg |-> s5[i]]
    OBVIOUS
  <2> HIDE DEF s5
  <2> QED
    BY <2>1, <2>2, <2>3, PlannedEach
<1> HIDE DEF s1, s2, s3, s4, s5
<1>7. Planned(s1 \o s2 \o s3 \o s4 \o s5, do, new, old)
  BY <1>3, <1>4, <1>5, <1>6, PlannedBoth
<1> QED
  BY <1>1, <1>7 DEF do

LEMMA PlanRestFits ==
  ASSUME NEW d \in Targets, NEW a, NEW managed, IsList(managed), NEW old, Range(managed) \subseteq old
  PROVE  Planned(PlanRest(d, a, managed), Commands, Range(d.routes), old)
<1> DEFINE new == Range(d.routes)
           do == Commands
<1>1. Quiet \subseteq do
  BY DEF Quiet
<1>2. Planned(PlanServices(d, a), do, new, old)
  BY PlanServicesFits
<1>3. Planned(PlanRoutes(d, a, managed), do, new, old)
  BY <1>1, PlanRoutesFits
<1> HIDE DEF new, do
<1>4. Planned(PlanFirewall(d, a), do, new, old) /\ Planned(PlanQoS(d, a), do, new, old)
  BY <1>1, PlanFirewallFits, PlanQoSFits
<1>5. Planned(PlanRest(d, a, managed), do, new, old)
  BY <1>2, <1>3, <1>4, PlannedBoth DEF PlanRest
<1> QED
  BY <1>5 DEF new, do

-----------------------------------------------------------------------------
(* The kernel stays one *)

\* What Consistent says of the links alone.
GoodLinks(links) ==
    /\ IsList(links) /\ \A l \in Range(links) : IsLink(l)
    /\ \A i, j \in DOMAIN links : links[i].name = links[j].name => i = j
    /\ \A l \in Range(links) : \A n \in {l.master, l.parent} \ {None} : HasLink(links, n)

\* What it says of the addresses and routes.
GoodRest(x) ==
    /\ IsFiniteSet(x.addrs) /\ \A a \in x.addrs : HasLink(x.links, a[1])
    /\ \A r \in x.routes :
          /\ HasLink(x.links, r.dev)
          /\ r.via # None => \E a \in x.addrs : a[1] = r.dev

Fields == {"links", "addrs", "routes", "nft", "conf", "unit", "service", "wg", "tc"}

LEMMA ConsistentParts ==
  ASSUME NEW x
  PROVE  Consistent(x) <=> DOMAIN x = Fields /\ GoodLinks(x.links) /\ GoodRest(x)
<1>1. DOMAIN Kernel(<<>>) = Fields
  BY DEF Kernel, Fields
<1> QED
  BY <1>1 DEF Consistent, GoodLinks, GoodRest

\* A list has a link exactly if one of its elements has the name.
LEMMA HasLinkRange ==
  ASSUME NEW links, NEW n
  PROVE  HasLink(links, n) <=> \E l \in Range(links) : l.name = n
BY DEF HasLink, Range

LEMMA ByIs ==
  ASSUME NEW links, GoodLinks(links), NEW n, HasLink(links, n)
  PROVE  /\ By(links, n) \in Range(links) /\ By(links, n).name = n /\ IsLink(By(links, n))
         /\ \A i \in DOMAIN links : links[i].name = n => links[i] = By(links, n)
<1> DEFINE i == CHOOSE i \in DOMAIN links : links[i].name = n
<1>1. i \in DOMAIN links /\ links[i].name = n
  BY DEF HasLink
<1>2. By(links, n) = links[i]
  BY DEF By
<1> HIDE DEF i
<1>3. links[i] \in Range(links)
  BY <1>1 DEF Range
<1> QED
  BY <1>1, <1>2, <1>3 DEF GoodLinks

\* What is defined on the first numbers is a list.
LEMMA ListIs ==
  ASSUME NEW n \in Nat, NEW s, s = [i \in 1..n |-> s[i]]
  PROVE  IsList(s)
<1>1. s \in [1..n -> Range(s)]
  BY DEF Range
<1>2. s \in Seq(Range(s))
  BY <1>1
<1> QED
  BY <1>2 DEF IsList

\* A link is changed in place.
LEMMA ChangeGood ==
  ASSUME NEW links, GoodLinks(links), NEW name, NEW l, IsLink(l), l.name = name,
         \A n \in {l.master, l.parent} \ {None} : HasLink(links, n)
  PROVE  /\ GoodLinks(Change(links, name, l))
         /\ \A n : HasLink(links, n) <=> HasLink(Change(links, name, l), n)
<1> DEFINE new == Change(links, name, l)
<1>1. DOMAIN new = DOMAIN links
  BY DEF Change
<1>2. \A i \in DOMAIN links : new[i] = IF links[i].name = name THEN l ELSE links[i]
  BY DEF Change
<1>3. new = [i \in DOMAIN links |-> new[i]]
  BY DEF Change
<1> HIDE DEF new
<1>4. DOMAIN links = 1..Len(links) /\ Len(links) \in Nat
  BY ListFacts DEF GoodLinks
<1>5. IsList(new)
  BY <1>3, <1>4, ListIs
<1>6. \A i \in DOMAIN links : new[i].name = links[i].name
  BY <1>2
<1>7. \A n : HasLink(links, n) <=> HasLink(new, n)
  BY <1>1, <1>6 DEF HasLink
<1>8. \A m \in Range(new) : m = l \/ m \in Range(links)
  BY <1>1, <1>2 DEF Range
<1>9. \A m \in Range(new) : IsLink(m) /\ \A n \in {m.master, m.parent} \ {None} : HasLink(new, n)
  BY <1>7, <1>8 DEF GoodLinks
<1>10. \A i, j \in DOMAIN new : new[i].name = new[j].name => i = j
  BY <1>1, <1>6 DEF GoodLinks
<1>11. GoodLinks(new)
  BY <1>5, <1>9, <1>10 DEF GoodLinks
<1> QED
  BY <1>7, <1>11 DEF new

\* A link is added under a name that is free.
LEMMA AppendGood ==
  ASSUME NEW links, GoodLinks(links), NEW l, IsLink(l), ~HasLink(links, l.name),
         \A n \in {l.master, l.parent} \ {None} : HasLink(links, n)
  PROVE  /\ GoodLinks(Append(links, l))
         /\ \A n : HasLink(links, n) => HasLink(Append(links, l), n)
<1> DEFINE new == Append(links, l)
           m == Len(links)
           C == Range(links) \cup {l}
<1>1. links \in Seq(Range(links)) /\ DOMAIN links = 1..m /\ m \in Nat
  BY ListFacts DEF GoodLinks
<1>2. links \in Seq(C)
  BY <1>1, SeqMonotonic
<1>3. /\ new \in Seq(C) /\ Len(new) = m + 1
      /\ \A i \in 1..m : new[i] = links[i]
      /\ new[m + 1] = l
  BY <1>1, <1>2
<1>4. DOMAIN new = 1..(m + 1)
  BY <1>1, <1>3, LenProperties
<1>5. IsList(new) /\ Range(new) \subseteq C
  BY <1>3, SeqIsList
<1> HIDE DEF new, m
<1>6. ASSUME NEW n, HasLink(links, n) PROVE HasLink(new, n)
  <2>1. PICK i \in 1..m : links[i].name = n
    BY <1>1, <1>6 DEF HasLink
  <2>2. i \in DOMAIN new /\ new[i].name = n
    BY <1>1, <1>3, <1>4, <2>1
  <2> QED
    BY <2>2 DEF HasLink
<1>7. \A e \in Range(new) : IsLink(e) /\ \A n \in {e.master, e.parent} \ {None} : HasLink(new, n)
  BY <1>5, <1>6 DEF GoodLinks
<1>8. ASSUME NEW i \in DOMAIN new, NEW j \in DOMAIN new, new[i].name = new[j].name PROVE i = j
  <2>1. \A h \in 1..m : links[h].name # l.name
    BY <1>1 DEF HasLink
  <2>2. \A g, h \in 1..m : links[g].name = links[h].name => g = h
    BY <1>1 DEF GoodLinks
  <2>3. \A h \in DOMAIN new : h = m + 1 \/ h \in 1..m
    BY <1>1, <1>4
  <2> QED
    BY <1>3, <1>8, <2>1, <2>2, <2>3
<1>9. GoodLinks(new)
  BY <1>5, <1>7, <1>8 DEF GoodLinks
<1> QED
  BY <1>6, <1>9 DEF new

\* The devices that stay, the ports of those that go without their bridge.
Freed(kept, gone) ==
    [i \in DOMAIN kept |->
        IF kept[i].master \in gone THEN [kept[i] EXCEPT !.master = None] ELSE kept[i]]

\* A port that leaves its bridge is the same device.
LEMMA Unmastered ==
  ASSUME NEW l, IsLink(l)
  PROVE  LET free == [l EXCEPT !.master = None]
         IN  /\ DOMAIN free = DOMAIN l /\ free.master = None
             /\ free.name = l.name /\ free.type = l.type /\ free.parent = l.parent
<1>1. DOMAIN l = {"name", "type", "parent", "master", "up"}
  BY DEF IsLink
<1> QED
  BY <1>1

LEMMA FreedFields ==
  ASSUME NEW kept, NEW gone, NEW i \in DOMAIN kept, IsLink(kept[i])
  PROVE  LET l == Freed(kept, gone)[i]
         IN  /\ DOMAIN l = DOMAIN kept[i]
             /\ l.name = kept[i].name /\ l.type = kept[i].type /\ l.parent = kept[i].parent
             /\ l.master = IF kept[i].master \in gone THEN None ELSE kept[i].master
<1>1. CASE kept[i].master \in gone
  <2>1. Freed(kept, gone)[i] = [kept[i] EXCEPT !.master = None]
    BY <1>1 DEF Freed
  <2> QED
    BY <1>1, <2>1, Unmastered
<1>2. CASE kept[i].master \notin gone
  <2>1. Freed(kept, gone)[i] = kept[i]
    BY <1>2 DEF Freed
  <2> QED
    BY <1>2, <2>1
<1> QED
  BY <1>1, <1>2

LEMMA FreedGood ==
  ASSUME NEW links, GoodLinks(links), NEW gone,
         \A l \in Range(links) : l.type = "vlan" /\ l.parent \in gone => l.name \in gone,
         NEW kept, IsList(kept), Part(kept, links, Len(links)),
         Range(kept) = {l \in Range(links) : l.name \notin gone}
  PROVE  /\ GoodLinks(Freed(kept, gone))
         /\ \A n : HasLink(Freed(kept, gone), n) <=> HasLink(links, n) /\ n \notin gone
<1> DEFINE new == Freed(kept, gone)
           S == {l \in Range(links) : l.name \notin gone}
<1>1. \A l \in Range(links) : l.type = "vlan" /\ l.parent \in gone => l.name \in gone
  OBVIOUS
<1>2. DOMAIN new = DOMAIN kept /\ new = [i \in DOMAIN kept |-> new[i]]
  BY DEF Freed
<1>3. IsList(links)
  BY DEF GoodLinks
<1>4. IsList(kept) /\ Range(kept) = S
  OBVIOUS
<1>5. Part(kept, links, Len(links))
  OBVIOUS
<1>6. DOMAIN kept = 1..Len(kept) /\ Len(kept) \in Nat
  BY <1>4, ListFacts
<1>7. \A i \in DOMAIN kept : kept[i] \in Range(links) /\ kept[i].name \notin gone /\ IsLink(kept[i])
  BY <1>4 DEF Range, GoodLinks
<1>8. \A i \in DOMAIN kept : /\ DOMAIN new[i] = DOMAIN kept[i]
                             /\ new[i].name = kept[i].name /\ new[i].type = kept[i].type
                             /\ new[i].parent = kept[i].parent
                             /\ new[i].master = IF kept[i].master \in gone THEN None
                                                ELSE kept[i].master
  BY <1>7, FreedFields
<1> HIDE DEF new
<1>9. IsList(new)
  BY <1>2, <1>6, ListIs
<1>10. ASSUME NEW n PROVE HasLink(new, n) <=> HasLink(links, n) /\ n \notin gone
  <2>1. HasLink(new, n) <=> HasLink(kept, n)
    <3>1. DOMAIN new = DOMAIN kept /\ \A i \in DOMAIN kept : new[i].name = kept[i].name
      BY <1>2, <1>8
    <3> QED
      BY <3>1 DEF HasLink
  <2>2. HasLink(kept, n) <=> \E l \in S : l.name = n
    BY <1>4, HasLinkRange
  <2>3. HasLink(links, n) <=> \E l \in Range(links) : l.name = n
    BY HasLinkRange
  <2> QED
    BY <2>1, <2>2, <2>3
<1>11. ASSUME NEW i \in DOMAIN new
       PROVE  IsLink(new[i]) /\ \A n \in {new[i].master, new[i].parent} \ {None} : HasLink(new, n)
  <2>1. i \in DOMAIN kept /\ kept[i] \in Range(links) /\ kept[i].name \notin gone /\ IsLink(kept[i])
    BY <1>2, <1>7
  <2>2. IsLink(new[i])
    BY <1>8, <2>1 DEF IsLink
  <2>3. \A n \in {kept[i].master, kept[i].parent} \ {None} : HasLink(links, n)
    BY <2>1 DEF GoodLinks
  <2>4. new[i].parent # None => new[i].parent \notin gone /\ HasLink(links, new[i].parent)
    BY <1>1, <1>8, <2>1, <2>3 DEF IsLink
  <2>5. new[i].master # None => new[i].master \notin gone /\ HasLink(links, new[i].master)
    BY <1>8, <2>1, <2>3
  <2> QED
    BY <1>10, <2>2, <2>4, <2>5
<1>12. ASSUME NEW i \in DOMAIN new, NEW j \in DOMAIN new, new[i].name = new[j].name PROVE i = j
  <2>1. PICK at \in [1..Len(kept) -> 1..Len(links)] :
           /\ \A h \in 1..Len(kept) : kept[h] = links[at[h]]
           /\ \A g, h \in 1..Len(kept) : at[g] = at[h] => g = h
    BY <1>5 DEF Part
  <2>2. i \in 1..Len(kept) /\ j \in 1..Len(kept)
    BY <1>2, <1>6
  <2>3. kept[i] = links[at[i]] /\ kept[j] = links[at[j]] /\ kept[i].name = kept[j].name
    BY <1>2, <1>8, <1>12, <2>1, <2>2
  <2>4. DOMAIN links = 1..Len(links)
    BY <1>3, ListFacts
  <2>5. at[i] \in DOMAIN links /\ at[j] \in DOMAIN links
    BY <2>1, <2>2, <2>4
  <2>6. \A g, h \in DOMAIN links : links[g].name = links[h].name => g = h
    BY DEF GoodLinks
  <2>7. at[i] = at[j]
    BY <2>3, <2>5, <2>6
  <2>8. at[i] = at[j] => i = j
    BY <2>1, <2>2
  <2> QED
    BY <2>7, <2>8
<1>13. \A l \in Range(new) : IsLink(l) /\ \A n \in {l.master, l.parent} \ {None} : HasLink(new, n)
  BY <1>11 DEF Range
<1>14. GoodLinks(new)
  BY <1>9, <1>12, <1>13 DEF GoodLinks
<1> QED
  BY <1>10, <1>14 DEF new

\* A device goes, and its family with it.
LEMMA DeleteGood ==
  ASSUME NEW links, GoodLinks(links), NEW name, NEW new,
         new = LET gone == Family(links, name)
                   kept == Among(links, {l \in Range(links) : l.name \notin gone})
               IN [i \in DOMAIN kept |-> IF kept[i].master \in gone
                                         THEN [kept[i] EXCEPT !.master = None] ELSE kept[i]]
  PROVE  /\ GoodLinks(new)
         /\ \A n : HasLink(new, n) <=> HasLink(links, n) /\ n \notin Family(links, name)
<1> DEFINE gone == Family(links, name)
           S == {l \in Range(links) : l.name \notin gone}
           kept == Among(links, S)
<1>1. \A l \in Range(links) : l.type = "vlan" /\ l.parent \in gone => l.name \in gone
  BY DEF Family
<1>2. new = Freed(kept, gone)
  BY DEF Freed
<1>3. IsList(links)
  BY DEF GoodLinks
<1> HIDE DEF gone
<1>4. IsList(kept) /\ Range(kept) = Range(links) \cap S
  BY <1>3, SelectedList
<1>5. Part(kept, links, Len(links))
  BY <1>3, Selected
<1> HIDE DEF kept
<1>6. Range(kept) = S
  BY <1>4
<1>7. /\ GoodLinks(Freed(kept, gone))
      /\ \A n : HasLink(Freed(kept, gone), n) <=> HasLink(links, n) /\ n \notin gone
  BY <1>1, <1>4, <1>5, <1>6, FreedGood
<1> QED
  BY <1>2, <1>7 DEF gone

\* What a command may do to a route that is there.
Lost(x, c, y, r) ==
    \/ c.do = "route del" /\ c.arg.dst = r.dst /\ c.arg.dev = r.dev /\ c.arg.via \in {None, r.via}
    \/ c.do = "route replace" /\ c.arg \in y.routes /\ c.arg.dst = r.dst /\ c.arg.metric = r.metric
    \/ ~HasLink(y.links, r.dev) \/ ~By(y.links, r.dev).up
    \/ x.addrs # y.addrs

\* A kernel of which only other fields change.
LEMMA SameNetwork ==
  ASSUME NEW x, Consistent(x), NEW y, DOMAIN y = Fields,
         y.links = x.links, y.addrs = x.addrs, y.routes = x.routes
  PROVE  Consistent(y)
<1>1. GoodLinks(x.links) /\ GoodRest(x)
  BY ConsistentParts
<1>2. GoodLinks(y.links) /\ GoodRest(y)
  BY <1>1 DEF GoodRest
<1> QED
  BY <1>2, ConsistentParts

LEMMA LinkAddKeeps ==
  ASSUME NEW x, Consistent(x), NEW l, IsLink(l), NEW y \in LinkAdd(x, l)
  PROVE  Consistent(y) /\ y.routes = x.routes
<1> DEFINE e == [l EXCEPT !.master = None, !.up = FALSE]
<1>1. DOMAIN x = Fields /\ GoodLinks(x.links) /\ GoodRest(x)
  BY ConsistentParts
<1>2. /\ ~HasLink(x.links, l.name) /\ (l.type = "vlan" => HasLink(x.links, l.parent))
      /\ y = [x EXCEPT !.links = Append(@, e)]
  BY DEF LinkAdd
<1>3. /\ DOMAIN y = Fields /\ y.links = Append(x.links, e)
      /\ y.addrs = x.addrs /\ y.routes = x.routes
  BY <1>1, <1>2 DEF Fields
<1>4. /\ IsLink(e) /\ e.name = l.name
      /\ \A n \in {e.master, e.parent} \ {None} : HasLink(x.links, n)
  BY <1>2 DEF IsLink
<1> HIDE DEF e
<1>5. GoodLinks(y.links) /\ \A n : HasLink(x.links, n) => HasLink(y.links, n)
  BY <1>1, <1>2, <1>3, <1>4, AppendGood
<1>6. GoodRest(y)
  BY <1>1, <1>3, <1>5 DEF GoodRest
<1> QED
  BY <1>3, <1>5, <1>6, ConsistentParts

LEMMA LinkDelKeeps ==
  ASSUME NEW x, Consistent(x), NEW name, NEW y \in LinkDel(x, name)
  PROVE  /\ Consistent(y)
         /\ \A r \in x.routes \ y.routes : ~HasLink(y.links, r.dev)
         /\ y.conf = x.conf /\ y.unit = x.unit /\ y.service = x.service
<1> DEFINE gone == Family(x.links, name)
           new == LET kept == Among(x.links, {l \in Range(x.links) : l.name \notin gone})
                  IN [i \in DOMAIN kept |-> IF kept[i].master \in gone
                                            THEN [kept[i] EXCEPT !.master = None] ELSE kept[i]]
<1>1. DOMAIN x = Fields /\ GoodLinks(x.links) /\ GoodRest(x)
  BY ConsistentParts
<1>2. y = [x EXCEPT !.links = new,
                    !.addrs = {a \in @ : a[1] \notin gone},
                    !.routes = {r \in @ : r.dev \notin gone},
                    !.wg = {w \in @ : w.dev \notin gone},
                    !.tc = {q \in @ : q.dev \notin gone}]
  BY DEF LinkDel
<1>3. GoodLinks(new) /\ \A n : HasLink(new, n) <=> HasLink(x.links, n) /\ n \notin gone
  BY <1>1, DeleteGood
<1> HIDE DEF gone, new
<1>4. /\ DOMAIN y = Fields /\ y.links = new
      /\ y.addrs = {a \in x.addrs : a[1] \notin gone}
      /\ y.routes = {r \in x.routes : r.dev \notin gone}
      /\ y.conf = x.conf /\ y.unit = x.unit /\ y.service = x.service
  BY <1>1, <1>2 DEF Fields
<1>5. IsFiniteSet(y.addrs)
  <2>1. y.addrs \in SUBSET x.addrs
    BY <1>4
  <2> QED
    BY <1>1, <2>1, FS_Subset DEF GoodRest
<1>6. \A a \in y.addrs : HasLink(y.links, a[1])
  BY <1>1, <1>3, <1>4 DEF GoodRest
<1>7. ASSUME NEW r \in y.routes
      PROVE  HasLink(y.links, r.dev) /\ (r.via # None => \E a \in y.addrs : a[1] = r.dev)
  BY <1>1, <1>3, <1>4 DEF GoodRest
<1>8. GoodRest(y)
  BY <1>5, <1>6, <1>7 DEF GoodRest
<1>9. \A r \in x.routes \ y.routes : ~HasLink(y.links, r.dev)
  BY <1>3, <1>4
<1> QED
  BY <1>3, <1>4, <1>8, <1>9, ConsistentParts

LEMMA LinkMasterKeeps ==
  ASSUME NEW x, Consistent(x), NEW name, NEW m, NEW y \in LinkMaster(x, name, m)
  PROVE  Consistent(y) /\ y.routes = x.routes
<1> DEFINE l == By(x.links, name)
           e == [l EXCEPT !.master = m]
<1>1. DOMAIN x = Fields /\ GoodLinks(x.links) /\ GoodRest(x)
  BY ConsistentParts
<1>2. /\ HasLink(x.links, name) /\ (m # None => HasLink(x.links, m))
      /\ y = [x EXCEPT !.links = Change(@, name, e)]
  BY DEF LinkMaster
<1>3. l \in Range(x.links) /\ l.name = name /\ IsLink(l)
  BY <1>1, <1>2, ByIs
<1> HIDE DEF l
<1>4. /\ IsLink(e) /\ e.name = name
      /\ \A n \in {e.master, e.parent} \ {None} : HasLink(x.links, n)
  BY <1>1, <1>2, <1>3 DEF IsLink, GoodLinks
<1> HIDE DEF e
<1>5. /\ DOMAIN y = Fields /\ y.links = Change(x.links, name, e)
      /\ y.addrs = x.addrs /\ y.routes = x.routes
  BY <1>1, <1>2 DEF Fields
<1>6. GoodLinks(y.links) /\ \A n : HasLink(x.links, n) <=> HasLink(y.links, n)
  BY <1>1, <1>4, <1>5, ChangeGood
<1>7. GoodRest(y)
  BY <1>1, <1>5, <1>6 DEF GoodRest
<1> QED
  BY <1>5, <1>6, <1>7, ConsistentParts

LEMMA LinkUpKeeps ==
  ASSUME NEW x, Consistent(x), NEW name, NEW up, NEW y \in LinkUp(x, name, up)
  PROVE  /\ Consistent(y)
         /\ \A r \in x.routes \ y.routes : ~By(y.links, r.dev).up
<1> DEFINE l == By(x.links, name)
           e == [l EXCEPT !.up = up]
<1>1. DOMAIN x = Fields /\ GoodLinks(x.links) /\ GoodRest(x)
  BY ConsistentParts
<1>2. /\ HasLink(x.links, name)
      /\ y = [x EXCEPT !.links = Change(@, name, e),
                       !.routes = IF up THEN @ ELSE {r \in @ : r.dev # name}]
  BY DEF LinkUp
<1>3. l \in Range(x.links) /\ l.name = name /\ IsLink(l)
  BY <1>1, <1>2, ByIs
<1> HIDE DEF l
<1>4. /\ IsLink(e) /\ e.name = name /\ e.up = up
      /\ \A n \in {e.master, e.parent} \ {None} : HasLink(x.links, n)
  BY <1>1, <1>3 DEF IsLink, GoodLinks
<1> HIDE DEF e
<1>5. /\ DOMAIN y = Fields /\ y.links = Change(x.links, name, e)
      /\ y.addrs = x.addrs
      /\ y.routes = IF up THEN x.routes ELSE {r \in x.routes : r.dev # name}
  BY <1>1, <1>2 DEF Fields
<1>6. GoodLinks(y.links) /\ \A n : HasLink(x.links, n) <=> HasLink(y.links, n)
  BY <1>1, <1>4, <1>5, ChangeGood
<1>7. GoodRest(y)
  BY <1>1, <1>5, <1>6 DEF GoodRest
<1>8. By(y.links, name).up = up
  <2>1. PICK i \in DOMAIN x.links : x.links[i].name = name
    BY <1>2 DEF HasLink
  <2>2. i \in DOMAIN y.links /\ y.links[i] = e
    BY <1>5, <2>1 DEF Change
  <2>3. HasLink(y.links, name)
    BY <1>2, <1>6
  <2>4. By(y.links, name) = e
    BY <1>4, <1>6, <2>2, <2>3, ByIs
  <2> QED
    BY <1>4, <2>4
<1>9. \A r \in x.routes \ y.routes : ~up /\ r.dev = name
  BY <1>5
<1>10. \A r \in x.routes \ y.routes : ~By(y.links, r.dev).up
  BY <1>8, <1>9
<1> QED
  BY <1>5, <1>6, <1>7, <1>10, ConsistentParts

LEMMA AddrAddKeeps ==
  ASSUME NEW x, Consistent(x), NEW dev, NEW a, NEW y \in AddrAdd(x, dev, a)
  PROVE  Consistent(y) /\ y.routes = x.routes
<1>1. DOMAIN x = Fields /\ GoodLinks(x.links) /\ GoodRest(x)
  BY ConsistentParts
<1>2. HasLink(x.links, dev) /\ y = [x EXCEPT !.addrs = @ \cup {<<dev, a>>}]
  BY DEF AddrAdd
<1>3. /\ DOMAIN y = Fields /\ y.links = x.links
      /\ y.addrs = x.addrs \cup {<<dev, a>>} /\ y.routes = x.routes
  BY <1>1, <1>2 DEF Fields
<1>4. IsFiniteSet(y.addrs)
  BY <1>1, <1>3, FS_AddElement DEF GoodRest
<1>5. \A b \in y.addrs : HasLink(y.links, b[1])
  BY <1>1, <1>2, <1>3 DEF GoodRest
<1>6. GoodRest(y)
  BY <1>1, <1>3, <1>4, <1>5 DEF GoodRest
<1> QED
  BY <1>1, <1>3, <1>6, ConsistentParts

LEMMA AddrDelKeeps ==
  ASSUME NEW x, Consistent(x), NEW dev, NEW a, NEW y \in AddrDel(x, dev, a)
  PROVE  Consistent(y) /\ \A r \in x.routes \ y.routes : x.addrs # y.addrs
<1> DEFINE left == x.addrs \ {<<dev, a>>}
           Reached(r) == r.via = None \/ r.dev # dev \/ \E b \in left : b[1] = dev
<1>1. DOMAIN x = Fields /\ GoodLinks(x.links) /\ GoodRest(x)
  BY ConsistentParts
<1>2. y = [x EXCEPT !.addrs = left, !.routes = {r \in @ : Reached(r)}]
  BY DEF AddrDel
<1>3. /\ DOMAIN y = Fields /\ y.links = x.links
      /\ y.addrs = left /\ y.routes = {r \in x.routes : Reached(r)}
  BY <1>1, <1>2 DEF Fields
<1>4. IsFiniteSet(left)
  <2>1. left \in SUBSET x.addrs
    OBVIOUS
  <2> HIDE DEF left
  <2> QED
    BY <1>1, <2>1, FS_Subset DEF GoodRest
<1>5. \A b \in y.addrs : HasLink(y.links, b[1])
  BY <1>1, <1>3 DEF GoodRest
<1>6. \A b \in x.addrs : b[1] # dev => b \in left
  OBVIOUS
<1>7. ASSUME NEW r \in y.routes, r.via # None PROVE \E b \in y.addrs : b[1] = r.dev
  <2>1. r \in x.routes /\ Reached(r)
    BY <1>3
  <2>2. PICK b \in x.addrs : b[1] = r.dev
    BY <1>1, <1>7, <2>1 DEF GoodRest
  <2> QED
    BY <1>3, <1>6, <1>7, <2>1, <2>2
<1>8. \A r \in y.routes : HasLink(y.links, r.dev)
  BY <1>1, <1>3 DEF GoodRest
<1>9. GoodRest(y)
  BY <1>3, <1>4, <1>5, <1>7, <1>8 DEF GoodRest
<1>10. ASSUME NEW r \in x.routes \ y.routes PROVE x.addrs # y.addrs
  <2>1. r.via # None /\ r.dev = dev /\ \A b \in left : b[1] # dev
    BY <1>3
  <2>2. \E b \in x.addrs : b[1] = r.dev
    BY <1>1, <2>1 DEF GoodRest
  <2> QED
    BY <1>3, <2>1, <2>2
<1> QED
  BY <1>1, <1>3, <1>9, <1>10, ConsistentParts

\* A route gives way to one with its destination and metric.
GivesWay(r, s) == s.dst = r.dst /\ s.metric = r.metric

LEMMA RouteReplaceKeeps ==
  ASSUME NEW x, Consistent(x), NEW s, NEW y \in RouteReplace(x, s)
  PROVE  /\ Consistent(y) /\ s \in y.routes
         /\ \A r \in x.routes \ y.routes : GivesWay(r, s)
<1>1. DOMAIN x = Fields /\ GoodLinks(x.links) /\ GoodRest(x)
  BY ConsistentParts
<1>2. /\ HasLink(x.links, s.dev)
      /\ s.via # None => \E a \in x.addrs : a[1] = s.dev
      /\ \/ y = [x EXCEPT !.routes = {s} \cup {r \in @ : r.dst # s.dst \/ r.metric # s.metric}]
         \/ y = [x EXCEPT !.routes = {s} \cup @]
  BY DEF RouteReplace
<1>3. /\ DOMAIN y = Fields /\ y.links = x.links /\ y.addrs = x.addrs
      /\ \/ y.routes = {s} \cup {r \in x.routes : r.dst # s.dst \/ r.metric # s.metric}
         \/ y.routes = {s} \cup x.routes
  BY <1>1, <1>2 DEF Fields
<1>4. \A r \in y.routes : r = s \/ r \in x.routes
  BY <1>3
<1>5. GoodRest(y)
  BY <1>1, <1>2, <1>3, <1>4 DEF GoodRest
<1>6. s \in y.routes /\ \A r \in x.routes \ y.routes : GivesWay(r, s)
  BY <1>3 DEF GivesWay
<1> QED
  BY <1>1, <1>3, <1>5, <1>6, ConsistentParts

LEMMA RouteDelKeeps ==
  ASSUME NEW x, Consistent(x), NEW s, NEW y \in RouteDel(x, s)
  PROVE  /\ Consistent(y)
         /\ \A r \in x.routes \ y.routes : s.dst = r.dst /\ s.dev = r.dev /\ s.via \in {None, r.via}
<1>1. DOMAIN x = Fields /\ GoodLinks(x.links) /\ GoodRest(x)
  BY ConsistentParts
<1>2. /\ DOMAIN y = Fields /\ y.links = x.links /\ y.addrs = x.addrs
      /\ y.routes = {r \in x.routes : r.dst # s.dst \/ r.dev # s.dev
                                      \/ (s.via # None /\ r.via # s.via)}
  BY <1>1 DEF Fields, RouteDel
<1>3. GoodRest(y)
  BY <1>1, <1>2 DEF GoodRest
<1> QED
  BY <1>1, <1>2, <1>3, ConsistentParts

\* The commands for the firewall, the services and the queues.
LEMMA OthersKeep ==
  ASSUME NEW x, Consistent(x), NEW c, NEW y \in Results(x, c),
         c.do \in {"nft delete", "nft load", "write conf", "write unit", "daemon-reload",
                   "restart", "enable", "wg", "tc"}
  PROVE  Consistent(y) /\ y.routes = x.routes
<1>1. DOMAIN x = Fields
  BY ConsistentParts
<1>2. \/ \E v : y \in {[x EXCEPT !.nft = v], [x EXCEPT !.conf = v], [x EXCEPT !.unit = v],
                       [x EXCEPT !.service = v], [x EXCEPT !.wg = v], [x EXCEPT !.tc = v]}
      \/ y = x
  <2>1. CASE c.do \in {"nft delete", "nft load"}
    BY <2>1 DEF Results, NftTable
  <2>2. CASE c.do \in {"write conf", "write unit"}
    BY <2>2 DEF Results
  <2>3. CASE c.do \in {"daemon-reload", "restart", "enable"}
    <3>1. y \in Systemctl(x, c.do)
      BY <2>3 DEF Results
    <3>2. y = x \/ y = [x EXCEPT !.service = x.conf]
             \/ y = [x EXCEPT !.service = IF @ = None THEN x.conf ELSE @]
      BY <2>3, <3>1 DEF Systemctl
    <3>3. [x EXCEPT !.service = IF @ = None THEN x.conf ELSE @]
             = [x EXCEPT !.service = IF x.service = None THEN x.conf ELSE x.service]
      OBVIOUS
    <3> QED
      BY <3>2, <3>3
  <2>4. CASE c.do = "wg"
    <3>1. y \in WgSync(x, c.dev, c.arg)
      BY <2>4 DEF Results
    <3> QED
      BY <3>1 DEF WgSync
  <2>5. CASE c.do = "tc"
    <3>1. y \in TcReplace(x, c.arg)
      BY <2>5 DEF Results
    <3> QED
      BY <3>1 DEF TcReplace
  <2> QED
    BY <2>1, <2>2, <2>3, <2>4, <2>5
<1>3. DOMAIN y = Fields /\ y.links = x.links /\ y.addrs = x.addrs /\ y.routes = x.routes
  BY <1>1, <1>2 DEF Fields
<1> QED
  BY <1>3, SameNetwork

\* Every outcome of a command is a kernel, and says why a route is lost.
LEMMA ResultsKeep ==
  ASSUME NEW x, Consistent(x), NEW c, c.do \in Commands, c.do = "link add" => IsLink(c.arg),
         NEW y \in Results(x, c)
  PROVE  Consistent(y) /\ \A r \in x.routes \ y.routes : Lost(x, c, y, r)
<1>1. CASE c.do = "link add"
  <2>1. y \in LinkAdd(x, c.arg)
    BY <1>1 DEF Results
  <2> QED
    BY <1>1, <2>1, LinkAddKeeps
<1>2. CASE c.do = "link del"
  <2>1. y \in LinkDel(x, c.dev)
    BY <1>2 DEF Results
  <2> QED
    BY <2>1, LinkDelKeeps DEF Lost
<1>3. CASE c.do = "master"
  <2>1. y \in LinkMaster(x, c.dev, c.arg)
    BY <1>3 DEF Results
  <2> QED
    BY <2>1, LinkMasterKeeps
<1>4. CASE c.do = "up"
  <2>1. y \in LinkUp(x, c.dev, c.arg)
    BY <1>4 DEF Results
  <2> QED
    BY <2>1, LinkUpKeeps DEF Lost
<1>5. CASE c.do = "addr add"
  <2>1. y \in AddrAdd(x, c.dev, c.arg)
    BY <1>5 DEF Results
  <2> QED
    BY <2>1, AddrAddKeeps
<1>6. CASE c.do = "addr del"
  <2>1. y \in AddrDel(x, c.dev, c.arg)
    BY <1>6 DEF Results
  <2> QED
    BY <2>1, AddrDelKeeps DEF Lost
<1>7. CASE c.do = "route replace"
  <2>1. y \in RouteReplace(x, c.arg)
    BY <1>7 DEF Results
  <2>2. /\ Consistent(y) /\ c.arg \in y.routes
        /\ \A r \in x.routes \ y.routes : GivesWay(r, c.arg)
    BY <2>1, RouteReplaceKeeps
  <2> QED
    BY <1>7, <2>2 DEF Lost, GivesWay
<1>8. CASE c.do = "route del"
  <2>1. y \in RouteDel(x, c.arg)
    BY <1>8 DEF Results
  <2>2. /\ Consistent(y)
        /\ \A r \in x.routes \ y.routes :
              /\ c.arg.dst = r.dst /\ c.arg.dev = r.dev
              /\ c.arg.via \in {None, r.via}
    BY <2>1, RouteDelKeeps
  <2> QED
    BY <1>8, <2>2 DEF Lost
<1>9. CASE c.do \in {"nft delete", "nft load", "write conf", "write unit", "daemon-reload",
                     "restart", "enable", "wg", "tc"}
  BY <1>9, OthersKeep
<1>10. \/ c.do \in {"link add", "link del", "master", "up", "addr add", "addr del",
                    "route replace", "route del"}
       \/ c.do \in {"nft delete", "nft load", "write conf", "write unit", "daemon-reload",
                    "restart", "enable", "wg", "tc"}
  BY DEF Commands
<1> QED
  BY <1>1, <1>2, <1>3, <1>4, <1>5, <1>6, <1>7, <1>8, <1>9, <1>10

-----------------------------------------------------------------------------
(* The service runs with its file *)

\* What a command does to the files and the service.
LEMMA FilesKept ==
  ASSUME NEW x, Consistent(x), NEW c, c.do \in Commands, NEW y \in Results(x, c)
  PROVE  /\ c.do # "write conf" => y.conf = x.conf
         /\ c.do # "write unit" => y.unit = x.unit
         /\ c.do = "write unit" => y.unit = c.arg
         /\ c.do \notin {"restart", "enable"} => y.service = x.service
         /\ c.do = "restart" => y.service = x.conf
         /\ c.do = "enable" => y.service \in {x.service, x.conf}
<1>1. DOMAIN x = Fields
  BY ConsistentParts
<1> DEFINE Same == y.conf = x.conf /\ y.unit = x.unit /\ y.service = x.service
<1>2. CASE c.do \in {"link add", "link del", "master", "up", "addr add", "addr del",
                     "route replace", "route del"}
  <2>1. CASE c.do = "link add"
    <3>1. y \in LinkAdd(x, c.arg)
      BY <2>1 DEF Results
    <3>2. \E v : y = [x EXCEPT !.links = v]
      BY <3>1 DEF LinkAdd
    <3>3. Same
      BY <1>1, <3>2 DEF Fields
    <3> QED
      BY <2>1, <3>3
  <2>2. CASE c.do = "link del"
    <3>1. y \in LinkDel(x, c.dev)
      BY <2>2 DEF Results
    <3>2. Same
      BY <3>1, LinkDelKeeps
    <3> QED
      BY <2>2, <3>2
  <2>3. CASE c.do = "master"
    <3>1. y \in LinkMaster(x, c.dev, c.arg)
      BY <2>3 DEF Results
    <3>2. \E v : y = [x EXCEPT !.links = v]
      BY <3>1 DEF LinkMaster
    <3>3. Same
      BY <1>1, <3>2 DEF Fields
    <3> QED
      BY <2>3, <3>3
  <2>4. CASE c.do = "up"
    <3>1. y \in LinkUp(x, c.dev, c.arg)
      BY <2>4 DEF Results
    <3>2. \E v1, v2 : y = [x EXCEPT !.links = v1, !.routes = v2]
      BY <3>1 DEF LinkUp
    <3>3. Same
      BY <1>1, <3>2 DEF Fields
    <3> QED
      BY <2>4, <3>3
  <2>5. CASE c.do = "addr add"
    <3>1. y \in AddrAdd(x, c.dev, c.arg)
      BY <2>5 DEF Results
    <3>2. \E v : y = [x EXCEPT !.addrs = v]
      BY <3>1 DEF AddrAdd
    <3>3. Same
      BY <1>1, <3>2 DEF Fields
    <3> QED
      BY <2>5, <3>3
  <2>6. CASE c.do = "addr del"
    <3>1. y \in AddrDel(x, c.dev, c.arg)
      BY <2>6 DEF Results
    <3>2. \E v1, v2 : y = [x EXCEPT !.addrs = v1, !.routes = v2]
      BY <3>1 DEF AddrDel
    <3>3. Same
      BY <1>1, <3>2 DEF Fields
    <3> QED
      BY <2>6, <3>3
  <2>7. CASE c.do = "route replace"
    <3>1. y \in RouteReplace(x, c.arg)
      BY <2>7 DEF Results
    <3>2. \E v : y = [x EXCEPT !.routes = v]
      BY <3>1 DEF RouteReplace
    <3>3. Same
      BY <1>1, <3>2 DEF Fields
    <3> QED
      BY <2>7, <3>3
  <2>8. CASE c.do = "route del"
    <3>1. y \in RouteDel(x, c.arg)
      BY <2>8 DEF Results
    <3>2. \E v : y = [x EXCEPT !.routes = v]
      BY <3>1 DEF RouteDel
    <3>3. Same
      BY <1>1, <3>2 DEF Fields
    <3> QED
      BY <2>8, <3>3
  <2> QED
    BY <1>2, <2>1, <2>2, <2>3, <2>4, <2>5, <2>6, <2>7, <2>8
<1>3. CASE c.do \in {"nft delete", "nft load", "wg", "tc", "daemon-reload"}
  <2>1. \/ y = x
        \/ \E v : y \in {[x EXCEPT !.nft = v], [x EXCEPT !.wg = v], [x EXCEPT !.tc = v]}
    <3>1. CASE c.do \in {"nft delete", "nft load"}
      BY <3>1 DEF Results, NftTable
    <3>2. CASE c.do = "wg"
      <4>1. y \in WgSync(x, c.dev, c.arg)
        BY <3>2 DEF Results
      <4> QED
        BY <4>1 DEF WgSync
    <3>3. CASE c.do = "tc"
      <4>1. y \in TcReplace(x, c.arg)
        BY <3>3 DEF Results
      <4> QED
        BY <4>1 DEF TcReplace
    <3>4. CASE c.do = "daemon-reload"
      <4>1. y \in Systemctl(x, c.do)
        BY <3>4 DEF Results
      <4> QED
        BY <3>4, <4>1 DEF Systemctl
    <3> QED
      BY <1>3, <3>1, <3>2, <3>3, <3>4
  <2>2. Same
    BY <1>1, <2>1 DEF Fields
  <2> QED
    BY <1>3, <2>2
<1>4. CASE c.do = "write conf"
  <2>1. y = [x EXCEPT !.conf = c.arg]
    BY <1>4 DEF Results
  <2>2. y.unit = x.unit /\ y.service = x.service
    BY <1>1, <2>1 DEF Fields
  <2> QED
    BY <1>4, <2>2
<1>5. CASE c.do = "write unit"
  <2>1. y = [x EXCEPT !.unit = c.arg]
    BY <1>5 DEF Results
  <2>2. y.unit = c.arg /\ y.conf = x.conf /\ y.service = x.service
    BY <1>1, <2>1 DEF Fields
  <2> QED
    BY <1>5, <2>2
<1>6. CASE c.do \in {"restart", "enable"}
  <2>1. y \in Systemctl(x, c.do)
    BY <1>6 DEF Results
  <2>2. CASE c.do = "restart"
    <3>1. y = [x EXCEPT !.service = x.conf]
      BY <2>1, <2>2 DEF Systemctl
    <3>2. y.service = x.conf /\ y.conf = x.conf /\ y.unit = x.unit
      BY <1>1, <3>1 DEF Fields
    <3> QED
      BY <2>2, <3>2
  <2>3. CASE c.do = "enable"
    <3>1. y = [x EXCEPT !.service = IF @ = None THEN x.conf ELSE @]
      BY <2>1, <2>3 DEF Systemctl
    <3>2. y.service \in {x.service, x.conf} /\ y.conf = x.conf /\ y.unit = x.unit
      BY <1>1, <3>1 DEF Fields
    <3> QED
      BY <2>3, <3>2
  <2> QED
    BY <1>6, <2>2, <2>3
<1>7. \/ c.do \in {"link add", "link del", "master", "up", "addr add", "addr del",
                   "route replace", "route del"}
      \/ c.do \in {"nft delete", "nft load", "wg", "tc", "daemon-reload"}
      \/ c.do = "write conf" \/ c.do = "write unit" \/ c.do \in {"restart", "enable"}
  BY DEF Commands
<1> QED
  BY <1>2, <1>3, <1>4, <1>5, <1>6, <1>7

\* The commands of s from i on restart the service: nothing refuses them, given
\* the unit that is there.
RestartAt(unit, s, i) ==
    \/ unit # None /\ i \in DOMAIN s /\ s[i].do = "restart"
    \/ /\ unit # None /\ i \in DOMAIN s /\ i + 1 \in DOMAIN s
       /\ s[i].do = "daemon-reload" /\ s[i + 1].do = "restart"
    \/ /\ i \in DOMAIN s /\ i + 1 \in DOMAIN s /\ i + 2 \in DOMAIN s
       /\ s[i].do = "write unit" /\ s[i + 1].do = "daemon-reload" /\ s[i + 2].do = "restart"

\* Once the file is written the service is restarted.
Restarts(unit, s) ==
    \A i \in DOMAIN s : /\ s[i].do = "write conf" => RestartAt(unit, s, i + 1)
                        /\ s[i].do = "write unit" => s[i].arg = Unit

LEMMA RestartsUnit ==
  ASSUME NEW unit, NEW unit2, unit # None => unit2 # None, NEW s
  PROVE  /\ Restarts(unit, s) => Restarts(unit2, s)
         /\ \A i : RestartAt(unit, s, i) => RestartAt(unit2, s, i)
<1>1. \A i : RestartAt(unit, s, i) => RestartAt(unit2, s, i)
  BY DEF RestartAt
<1> QED
  BY <1>1 DEF Restarts

LEMMA RestartsTail ==
  ASSUME NEW unit, NEW s, IsList(s), s # <<>>
  PROVE  /\ Restarts(unit, s) => Restarts(unit, Tail(s))
         /\ RestartAt(unit, s, 2) => RestartAt(unit, Tail(s), 1)
<1> DEFINE n == Len(s)
           t == Tail(s)
<1>1. s \in Seq(Range(s)) /\ DOMAIN s = 1..n /\ n \in Nat
  BY ListFacts
<1>2. n # 0
  BY <1>1, EmptySeq
<1>3. DOMAIN t = 1..(n - 1) /\ \A i \in 1..(n - 1) : t[i] = s[i + 1]
  <2>1. t \in Seq(Range(s)) /\ Len(t) = n - 1
    BY <1>1, HeadTailProperties
  <2> QED
    BY <1>1, <1>2, <2>1, HeadTailProperties
<1> HIDE DEF t, n
<1>4. ASSUME NEW i \in Nat \ {0}, RestartAt(unit, s, i + 1) PROVE RestartAt(unit, t, i)
  <2>1. \A j \in Nat \ {0} : j + 1 \in DOMAIN s => j \in DOMAIN t /\ t[j] = s[j + 1]
    BY <1>1, <1>3
  <2>2. /\ i \in Nat \ {0} /\ i + 1 \in Nat \ {0} /\ i + 2 \in Nat \ {0}
        /\ (i + 1) + 1 = i + 2 /\ (i + 2) + 1 = (i + 1) + 2
    OBVIOUS
  <2> QED
    BY <1>4, <2>1, <2>2 DEF RestartAt
<1>5. ASSUME Restarts(unit, s), NEW i \in DOMAIN t
      PROVE  /\ t[i].do = "write conf" => RestartAt(unit, t, i + 1)
             /\ t[i].do = "write unit" => t[i].arg = Unit
  <2>1. i \in Nat \ {0} /\ i + 1 \in DOMAIN s /\ t[i] = s[i + 1] /\ i + 1 \in Nat \ {0}
    BY <1>1, <1>3
  <2>2. /\ s[i + 1].do = "write conf" => RestartAt(unit, s, (i + 1) + 1)
        /\ s[i + 1].do = "write unit" => s[i + 1].arg = Unit
    BY <1>5, <2>1 DEF Restarts
  <2> QED
    BY <1>4, <2>1, <2>2
<1>6. RestartAt(unit, s, 2) => RestartAt(unit, t, 1)
  <2>1. 1 \in Nat \ {0} /\ 2 = 1 + 1
    OBVIOUS
  <2> SUFFICES ASSUME RestartAt(unit, s, 2) PROVE RestartAt(unit, t, 1)
    OBVIOUS
  <2>2. RestartAt(unit, s, 1 + 1)
    BY <2>1
  <2> QED
    BY <1>4, <2>1, <2>2
<1> QED
  BY <1>5, <1>6 DEF Restarts, t

\* u is t after s, of the elements of C.
Joins(u, s, t, m, n, C) ==
    /\ u \in Seq(C) /\ Len(u) = m + n
    /\ \A i \in 1..m : u[i] = s[i]
    /\ \A i \in 1..n : u[m + i] = t[i]

\* s has n elements, all in C.
Has(s, n, C) == s \in Seq(C) /\ Len(s) = n

LEMMA Joined ==
  ASSUME NEW C, NEW m, NEW n, NEW s, Has(s, m, C), NEW t, Has(t, n, C), NEW u, u = s \o t
  PROVE  Joins(u, s, t, m, n, C)
<1>1. s \in Seq(C) /\ t \in Seq(C) /\ Len(s) = m /\ Len(t) = n
  BY DEF Has
<1>2. /\ u \in Seq(C) /\ Len(u) = m + n
      /\ \A i \in 1..(m + n) : u[i] = IF i <= m THEN s[i] ELSE t[i - m]
  BY <1>1, ConcatProperties
<1>3. m \in Nat /\ n \in Nat
  BY <1>1, LenProperties
<1>4. \A i \in 1..m : u[i] = s[i]
  BY <1>2, <1>3
<1>5. ASSUME NEW i \in 1..n PROVE u[m + i] = t[i]
  <2>1. m + i \in 1..(m + n) /\ ~(m + i <= m) /\ (m + i) - m = i
    BY <1>3
  <2> QED
    BY <1>2, <2>1
<1> QED
  BY <1>2, <1>4, <1>5 DEF Joins

LEMMA RestartsBoth ==
  ASSUME NEW unit, NEW s, IsList(s), Restarts(unit, s), NEW t, IsList(t), Restarts(unit, t)
  PROVE  Restarts(unit, s \o t)
<1> DEFINE m == Len(s)
           n == Len(t)
           u == s \o t
           C == Range(s) \cup Range(t)
<1>1. /\ s \in Seq(Range(s)) /\ DOMAIN s = 1..m /\ m \in Nat
      /\ t \in Seq(Range(t)) /\ DOMAIN t = 1..n /\ n \in Nat
  BY ListFacts
<1>2. s \in Seq(C) /\ t \in Seq(C)
  BY <1>1, SeqMonotonic
<1>3. /\ DOMAIN u = 1..(m + n)
      /\ \A i \in 1..m : u[i] = s[i]
      /\ \A i \in 1..n : u[m + i] = t[i]
  <2>1. Has(s, m, C) /\ Has(t, n, C)
    BY <1>2 DEF Has
  <2>2. u = s \o t
    OBVIOUS
  <2> HIDE DEF u, m, n, C
  <2>3. Joins(u, s, t, m, n, C)
    BY <2>1, <2>2, Joined
  <2> QED
    BY <2>3, <1>1, LenProperties DEF Joins
<1> HIDE DEF u, m, n
<1>4. ASSUME NEW i \in 1..(m + 1), RestartAt(unit, s, i) PROVE RestartAt(unit, u, i)
  <2>1. \A j \in DOMAIN s : j \in DOMAIN u /\ u[j] = s[j]
    BY <1>1, <1>3
  <2> QED
    BY <1>4, <2>1 DEF RestartAt
<1>5. ASSUME NEW i \in Nat, RestartAt(unit, t, i) PROVE RestartAt(unit, u, m + i)
  <2>1. \A j \in DOMAIN t : m + j \in DOMAIN u /\ u[m + j] = t[j]
    BY <1>1, <1>3
  <2>2. (m + i) + 1 = m + (i + 1) /\ (m + i) + 2 = m + (i + 2)
    BY <1>1
  <2> QED
    BY <1>5, <2>1, <2>2 DEF RestartAt
<1>6. ASSUME NEW i \in DOMAIN u
      PROVE  /\ u[i].do = "write conf" => RestartAt(unit, u, i + 1)
             /\ u[i].do = "write unit" => u[i].arg = Unit
  <2>1. CASE i \in 1..m
    <3>1. u[i] = s[i] /\ i \in DOMAIN s /\ i + 1 \in 1..(m + 1)
      BY <1>1, <1>3, <2>1
    <3> QED
      BY <1>4, <3>1 DEF Restarts
  <2>2. CASE i \notin 1..m
    <3> DEFINE j == i - m
    <3>1. j \in 1..n /\ m + j = i /\ i + 1 = m + (j + 1) /\ j + 1 \in Nat
      BY <1>1, <1>3, <2>2
    <3> HIDE DEF j
    <3>2. u[i] = t[j] /\ j \in DOMAIN t
      BY <1>1, <1>3, <3>1
    <3> QED
      BY <1>5, <3>1, <3>2 DEF Restarts
  <2> QED
    BY <2>1, <2>2
<1>7. Restarts(unit, u)
  BY <1>6 DEF Restarts
<1> QED
  BY <1>7 DEF u

\* A plan that writes no file.
LEMMA RestartsQuiet ==
  ASSUME NEW unit, NEW new, NEW old, NEW s, Planned(s, Quiet, new, old)
  PROVE  IsList(s) /\ Restarts(unit, s)
<1>1. \A i \in DOMAIN s : s[i].do \in Quiet
  BY DEF Planned, Fit, Range
<1> QED
  BY <1>1 DEF Planned, Restarts, Quiet

LEMMA Singles ==
  ASSUME NEW C, NEW a \in C, NEW b \in C, NEW s
  PROVE  /\ s = <<a>> => Has(s, 1, C) /\ s[1] = a
         /\ s = <<a, b>> => Has(s, 2, C) /\ s[1] = a /\ s[2] = b
<1>1. <<a>> \in Seq(C) /\ Len(<<a>>) = 1 /\ <<a>>[1] = a
  OBVIOUS
<1>2. <<a, b>> \in Seq(C) /\ Len(<<a, b>>) = 2 /\ <<a, b>>[1] = a /\ <<a, b>>[2] = b
  OBVIOUS
<1>3. s = <<a>> => Has(s, 1, C) /\ s[1] = a
  BY <1>1, Zenon DEF Has
<1>4. s = <<a, b>> => Has(s, 2, C) /\ s[1] = a /\ s[2] = b
  BY <1>2, Zenon DEF Has
<1> QED
  BY <1>3, <1>4

\* s is the list of a, b and c.
Three(s, a, b, c) == IsList(s) /\ DOMAIN s = 1..3 /\ s[1] = a /\ s[2] = b /\ s[3] = c

LEMMA ListOfThree ==
  ASSUME NEW a, NEW b, NEW c, NEW s, s = (<<a>> \o <<b>>) \o <<c>> \/ s = <<a, b>> \o <<c>>
  PROVE  Three(s, a, b, c)
<1> DEFINE C == {a, b, c}
           x == <<a>>
           y == <<b>>
           z == <<c>>
<1>1. a \in C /\ b \in C /\ c \in C
  OBVIOUS
<1> HIDE DEF C
<1>2. /\ Has(x, 1, C) /\ x[1] = a
      /\ Has(y, 1, C) /\ y[1] = b
      /\ Has(z, 1, C) /\ z[1] = c
  BY <1>1, Singles
<1>3. \E p : Has(p, 2, C) /\ p[1] = a /\ p[2] = b /\ s = p \o z
  <2>1. CASE s = (<<a>> \o <<b>>) \o <<c>>
    <3> DEFINE p == x \o y
    <3>1. p = x \o y /\ s = p \o z
      BY <2>1
    <3> HIDE DEF p, x, y, z
    <3>2. Joins(p, x, y, 1, 1, C)
      BY <1>2, <3>1, Joined
    <3>3. Has(p, 2, C) /\ p[1] = a /\ p[2] = b
      <4>1. 1 + 1 = 2 /\ 1 \in 1..1
        OBVIOUS
      <4> QED
        BY <1>2, <3>2, <4>1 DEF Joins, Has
    <3> QED
      BY <3>1, <3>3
  <2>2. CASE s = <<a, b>> \o <<c>>
    <3> DEFINE p == <<a, b>>
    <3>1. Has(p, 2, C) /\ p[1] = a /\ p[2] = b
      BY <1>1, Singles
    <3>2. s = p \o z
      BY <2>2
    <3> HIDE DEF p, z
    <3> QED
      BY <3>1, <3>2
  <2> QED
    BY <2>1, <2>2
<1> HIDE DEF x, y, z
<1>4. PICK p : Has(p, 2, C) /\ p[1] = a /\ p[2] = b /\ s = p \o z
  BY <1>3
<1>5. Joins(s, p, z, 2, 1, C)
  BY <1>2, <1>4, Joined
<1>6. 2 + 1 = 3 /\ 1 \in 1..2 /\ 2 \in 1..2 /\ 1 \in 1..1
  OBVIOUS
<1>7. s \in Seq(C) /\ Len(s) = 3 /\ s[1] = a /\ s[2] = b /\ s[3] = c
  BY <1>2, <1>4, <1>5, <1>6 DEF Joins
<1> QED
  BY <1>7, SeqIsList, LenProperties DEF Three

Five(s, a, b, c, d, e) ==
    /\ IsList(s) /\ DOMAIN s = 1..5
    /\ s[1] = a /\ s[2] = b /\ s[3] = c /\ s[4] = d /\ s[5] = e

LEMMA ListOfFive ==
  ASSUME NEW a, NEW b, NEW c, NEW d, NEW e, NEW s,
         s = ((<<a>> \o <<b, c>>) \o <<d>>) \o <<e>>
  PROVE  Five(s, a, b, c, d, e)
<1> DEFINE C == {a, b, c, d, e}
           w == <<a>>
           x == <<b, c>>
           y == <<d>>
           z == <<e>>
           p == w \o x
           q == p \o y
<1>1. a \in C /\ b \in C /\ c \in C /\ d \in C /\ e \in C
  OBVIOUS
<1>2. p = w \o x /\ q = p \o y /\ s = q \o z
  OBVIOUS
<1> HIDE DEF C, p, q
<1>3. /\ Has(w, 1, C) /\ w[1] = a
      /\ Has(x, 2, C) /\ x[1] = b /\ x[2] = c
      /\ Has(y, 1, C) /\ y[1] = d
      /\ Has(z, 1, C) /\ z[1] = e
  BY <1>1, Singles
<1> HIDE DEF w, x, y, z
<1>4. Joins(p, w, x, 1, 2, C)
  BY <1>2, <1>3, Joined
<1>5. /\ 1 + 1 = 2 /\ 1 + 2 = 3 /\ 3 + 1 = 4 /\ 4 + 1 = 5 /\ 1 \in 1..1 /\ 1 \in 1..2 /\ 2 \in 1..2
      /\ {1, 2, 3} \subseteq 1..3 /\ {1, 2, 3, 4} \subseteq 1..4
  OBVIOUS
<1>6. Has(p, 3, C) /\ p[1] = a /\ p[2] = b /\ p[3] = c
  BY <1>3, <1>4, <1>5 DEF Joins, Has
<1>7. Joins(q, p, y, 3, 1, C)
  BY <1>2, <1>3, <1>6, Joined
<1>8. Has(q, 4, C) /\ q[1] = a /\ q[2] = b /\ q[3] = c /\ q[4] = d
  BY <1>3, <1>5, <1>6, <1>7 DEF Joins, Has
<1>9. Joins(s, q, z, 4, 1, C)
  BY <1>2, <1>3, <1>8, Joined
<1>10. s \in Seq(C) /\ Len(s) = 5 /\ s[1] = a /\ s[2] = b /\ s[3] = c /\ s[4] = d /\ s[5] = e
  BY <1>3, <1>5, <1>8, <1>9 DEF Joins
<1> QED
  BY <1>10, SeqIsList, LenProperties DEF Five

LEMMA RestartsServices ==
  ASSUME NEW d \in Targets, NEW a
  PROVE  Restarts(a.unit, PlanServices(d, a))
<1> DEFINE wg == Among(d.wg, Range(d.wg) \ a.wg)
           wc == Cmd("write conf", None, d.conf)
           wu == Cmd("write unit", None, Unit)
           dr == Cmd("daemon-reload", None, None)
           rs == Cmd("restart", None, None)
           en == CmdIdempotent("enable", None, None)
           s1 == IF a.conf # d.conf THEN <<wc>> ELSE <<>>
           s2 == IF a.unit # Unit THEN <<wu, dr>> ELSE <<>>
           s3 == IF a.conf # d.conf THEN <<rs>> ELSE <<>>
           s4 == IF a.conf # d.conf \/ a.unit # Unit THEN <<en>> ELSE <<>>
           s == ((s1 \o s2) \o s3) \o s4
           t == [i \in DOMAIN wg |-> Cmd("wg", wg[i].dev, wg[i].conf)]
<1>1. PlanServices(d, a) = s \o t
  BY DEF PlanServices, Map, If
<1>2. Planned(t, Quiet, {}, {})
  <2>1. IsList(wg)
    BY EngineAssumption, SelectedList DEF IsDesired
  <2> HIDE DEF wg
  <2>2. "wg" \in Other \cap Quiet
    BY DEF Other, Quiet, Commands
  <2>3. \A i \in DOMAIN wg : Fit(t[i], Quiet, {}, {})
    BY <2>2, FitOther
  <2>4. t = [i \in DOMAIN wg |-> t[i]]
    OBVIOUS
  <2> HIDE DEF t
  <2> QED
    BY <2>1, <2>3, <2>4, PlannedEach
<1> HIDE DEF t
<1>3. /\ wc.do = "write conf" /\ wu.do = "write unit" /\ wu.arg = Unit
      /\ dr.do = "daemon-reload" /\ rs.do = "restart" /\ en.do = "enable"
  BY DEF Cmd, CmdIdempotent
<1>4. Unit # None
  BY EngineAssumption
<1> DEFINE C == {wc, wu, dr, rs, en}
<1>5. /\ <<>> \in Seq(C) /\ <<wc>> \in Seq(C) /\ <<wu, dr>> \in Seq(C)
  <2> HIDE DEF wc, wu, dr, rs, en
  <2> QED
    OBVIOUS
<1> HIDE DEF wc, wu, dr, rs, en, C
<1>6. \A u \in Seq(C) : u \o <<>> = u /\ <<>> \o u = u
  BY ConcatEmptySeq
<1>7. IsList(s) /\ Restarts(a.unit, s)
  <2>1. CASE a.conf # d.conf /\ a.unit # Unit
    <3>1. s = ((<<wc>> \o <<wu, dr>>) \o <<rs>>) \o <<en>>
      BY <2>1
    <3> HIDE DEF s
    <3>2. Five(s, wc, wu, dr, rs, en)
      BY <3>1, ListOfFive
    <3>3. /\ IsList(s) /\ DOMAIN s = 1..5
          /\ s[1] = wc /\ s[2] = wu /\ s[3] = dr /\ s[4] = rs /\ s[5] = en
      BY <3>2 DEF Five
    <3>4. \A i \in 1..5 : i = 1 \/ i = 2 \/ i = 3 \/ i = 4 \/ i = 5
      OBVIOUS
    <3>5. RestartAt(a.unit, s, 1 + 1)
      <4>1. 2 \in 1..5 /\ 2 + 1 \in 1..5 /\ 2 + 2 \in 1..5 /\ 2 + 1 = 3 /\ 2 + 2 = 4 /\ 1 + 1 = 2
        OBVIOUS
      <4> QED
        BY <1>3, <3>3, <4>1 DEF RestartAt
    <3> QED
      BY <1>3, <3>3, <3>4, <3>5 DEF Restarts
  <2>2. CASE a.conf # d.conf /\ a.unit = Unit
    <3>1. s = (<<wc>> \o <<rs>>) \o <<en>>
      BY <1>5, <1>6, <2>2
    <3> HIDE DEF s
    <3>2. Three(s, wc, rs, en)
      BY <3>1, ListOfThree
    <3>3. IsList(s) /\ DOMAIN s = 1..3 /\ s[1] = wc /\ s[2] = rs /\ s[3] = en
      BY <3>2 DEF Three
    <3>4. \A i \in 1..3 : i = 1 \/ i = 2 \/ i = 3
      OBVIOUS
    <3>5. RestartAt(a.unit, s, 1 + 1)
      <4>1. 2 \in 1..3 /\ 1 + 1 = 2
        OBVIOUS
      <4> QED
        BY <1>3, <1>4, <2>2, <3>3, <4>1 DEF RestartAt
    <3> QED
      BY <1>3, <3>3, <3>4, <3>5 DEF Restarts
  <2>3. CASE a.conf = d.conf /\ a.unit # Unit
    <3>1. s = <<wu, dr>> \o <<en>>
      BY <1>5, <1>6, <2>3
    <3> HIDE DEF s
    <3>2. Three(s, wu, dr, en)
      BY <3>1, ListOfThree
    <3>3. IsList(s) /\ DOMAIN s = 1..3 /\ s[1] = wu /\ s[2] = dr /\ s[3] = en
      BY <3>2 DEF Three
    <3>4. \A i \in 1..3 : i = 1 \/ i = 2 \/ i = 3
      OBVIOUS
    <3> QED
      BY <1>3, <3>3, <3>4 DEF Restarts
  <2>4. CASE a.conf = d.conf /\ a.unit = Unit
    <3>1. s = <<>>
      BY <1>5, <1>6, <2>4
    <3> HIDE DEF s
    <3>2. s \in Seq({}) /\ DOMAIN s = {}
      BY <3>1
    <3> QED
      BY <3>2, SeqIsList DEF Restarts
  <2> QED
    BY <2>1, <2>2, <2>3, <2>4
<1>8. IsList(t) /\ Restarts(a.unit, t)
  BY <1>2, RestartsQuiet
<1> HIDE DEF s
<1>9. Restarts(a.unit, s \o t)
  BY <1>7, <1>8, RestartsBoth
<1> QED
  BY <1>1, <1>9

-----------------------------------------------------------------------------
(* The inductive invariant *)

\* What routerd is about to do is a plan: it installs routes of the desired
\* state that the Apply that runs was called with, and it removes routes that
\* some Apply was asked for.
OpsOK ==
    /\ IsList(prov)
    /\ pc # "idle" => Range(want.routes) \subseteq asked
    /\ Planned(ops, Commands, Range(want.routes), asked)
    /\ pc \in {"idle", "save"} => ops = <<>>

IInv == TypeOK /\ OpsOK

LEMMA Bounds == MaxChanges \in Nat /\ MaxForeign \in Nat /\ MaxFaults \in Nat
BY EngineAssumption

LEMMA TargetsAre == \A d \in Targets : IsDesired(d) /\ IsList(d.routes)
BY EngineAssumption DEF IsDesired

LEMMA Initially == Init => IInv
<1> SUFFICES ASSUME Init PROVE IInv
  OBVIOUS
<1>1. IsList(<<>>) /\ Range(<<>>) = {}
  <2>1. <<>> \in Seq({}) /\ Range(<<>>) = {}
    BY DEF Range
  <2> QED
    BY <2>1 DEF IsList
<1>2. Consistent(k)
  BY EngineAssumption DEF Init
<1>3. TypeOK
  BY <1>1, <1>2, Bounds DEF Init, TypeOK
<1>4. OpsOK
  BY <1>1, PlannedNone DEF Init, OpsOK
<1> QED
  BY <1>3, <1>4 DEF IInv

\* The next command, and those after it.
LEMMA PlannedHead ==
  ASSUME NEW do, NEW new, NEW old, NEW s, Planned(s, do, new, old), s # <<>>
  PROVE  Fit(Head(s), do, new, old) /\ Planned(Tail(s), do, new, old)
<1>1. s \in Seq(Range(s)) /\ \A c \in Range(s) : Fit(c, do, new, old)
  BY DEF Planned, IsList
<1>2. Head(s) \in Range(s) /\ Tail(s) \in Seq(Range(s))
  BY <1>1, HeadTailProperties
<1> QED
  BY <1>1, <1>2, PlannedBy

\* A phase that is planned from the addresses on.
LEMMA PlanFromAddrsFits ==
  ASSUME IInv, NEW d \in Targets, NEW old, Range(prov) \subseteq old, PlanFromAddrs(d)
  PROVE  pc' \in {"addrs", "rest"} /\ Planned(ops', Commands, Range(d.routes), old)
<1>1. IsFiniteSet(k.addrs) /\ IsList(prov)
  BY DEF IInv, TypeOK, OpsOK, Consistent
<1>2. PICK order \in SetToSeqs(AddrDevs(d)) :
         IF PlanAddrs(d, k, order) # <<>>
         THEN pc' = "addrs" /\ ops' = PlanAddrs(d, k, order)
         ELSE pc' = "rest" /\ ops' = PlanRest(d, k, prov)
  BY DEF PlanFromAddrs
<1>3. Planned(PlanAddrs(d, k, order), Commands, Range(d.routes), old)
  BY <1>1, AddrDevsListed, PlanAddrsFits DEF Quiet
<1>4. Planned(PlanRest(d, k, prov), Commands, Range(d.routes), old)
  BY <1>1, PlanRestFits
<1> QED
  BY <1>2, <1>3, <1>4

\* The next command of a plan that is carried out.
LEMMA OwnCommand ==
  ASSUME IInv, ops # <<>>, NEW y \in Results(k, Head(ops))
  PROVE  Consistent(y) /\ \A r \in k.routes \ y.routes : Lost(k, Head(ops), y, r)
<1>1. Fit(Head(ops), Commands, Range(want.routes), asked)
  BY PlannedHead DEF IInv, OpsOK
<1>2. Head(ops).do \in Commands /\ (Head(ops).do = "link add" => IsLink(Head(ops).arg))
  BY <1>1 DEF Fit
<1>3. Consistent(k)
  BY DEF IInv, TypeOK
<1> QED
  BY <1>2, <1>3, ResultsKeep

LEMMA StepKeeps == IInv /\ [Next]_vars => IInv'
<1> SUFFICES ASSUME IInv, [Next]_vars PROVE IInv'
  OBVIOUS
<1> USE DEF IInv
<1>1. Planned(<<>>, Commands, Range(want.routes)', asked')
  BY PlannedNone
<1>2. CASE Start
  <2>1. target \in Targets
    BY DEF TypeOK
  <2>2. /\ want' = target /\ asked' = asked \cup Range(target.routes)
        /\ UNCHANGED <<k, prov, target, changes, others, faults>>
    BY <1>2 DEF Start
  <2>3. Range(prov) \subseteq asked'
    BY <2>2 DEF TypeOK
  <2>4. /\ pc' \in {"idle", "links", "addrs", "rest"}
        /\ Planned(ops', Commands, Range(target.routes), asked')
        /\ pc' = "idle" => ops' = <<>>
    <3>1. CASE ~CheckInterfaces(target, k)
      <4>1. pc' = "idle" /\ ops' = <<>>
        BY <1>2, <3>1 DEF Start, OpsOK
      <4> QED
        BY <4>1, PlannedNone
    <3>2. CASE CheckInterfaces(target, k) /\ PlanLinks(target, k) # <<>>
      <4>1. pc' = "links" /\ ops' = PlanLinks(target, k)
        BY <1>2, <3>2 DEF Start
      <4>2. IsList(k.links)
        BY DEF TypeOK, Consistent
      <4>3. Planned(PlanLinks(target, k), Commands, Range(target.routes), asked')
        BY <2>1, <4>2, PlanLinksFits DEF Quiet
      <4> QED
        BY <4>1, <4>3
    <3>3. CASE CheckInterfaces(target, k) /\ PlanLinks(target, k) = <<>>
      <4>1. PlanFromAddrs(target)
        BY <1>2, <3>3 DEF Start
      <4>2. pc' \in {"addrs", "rest"} /\ Planned(ops', Commands, Range(target.routes), asked')
        BY <2>1, <2>3, <4>1, PlanFromAddrsFits
      <4> QED
        BY <4>2
    <3> QED
      BY <3>1, <3>2, <3>3
  <2>5. TypeOK'
    BY <2>1, <2>2, <2>3, <2>4 DEF TypeOK
  <2>6. OpsOK'
    BY <2>2, <2>4 DEF OpsOK
  <2> QED
    BY <2>5, <2>6
<1>3. CASE LinksDone
  <2>1. /\ pc = "links" /\ PlanFromAddrs(want)
        /\ UNCHANGED <<k, prov, target, want, asked, changes, others, faults>>
    BY <1>3 DEF LinksDone
  <2>2. pc' \in {"addrs", "rest"} /\ Planned(ops', Commands, Range(want.routes), asked)
    BY <2>1, PlanFromAddrsFits DEF TypeOK
  <2>3. TypeOK'
    BY <2>1, <2>2 DEF TypeOK
  <2>4. OpsOK'
    BY <2>1, <2>2 DEF OpsOK
  <2> QED
    BY <2>3, <2>4
<1>4. CASE AddrsDone
  <2>1. /\ pc = "addrs" /\ pc' = "rest" /\ ops' = PlanRest(want, k, prov)
        /\ UNCHANGED <<k, prov, target, want, asked, changes, others, faults>>
    BY <1>4 DEF AddrsDone
  <2>2. Planned(PlanRest(want, k, prov), Commands, Range(want.routes), asked)
    BY PlanRestFits DEF TypeOK, OpsOK
  <2>3. TypeOK'
    BY <2>1 DEF TypeOK
  <2>4. OpsOK'
    BY <2>1, <2>2 DEF OpsOK
  <2> QED
    BY <2>3, <2>4
<1>5. CASE Run
  <2>1. /\ ops # <<>> /\ k' \in Results(k, Head(ops)) /\ ops' = Tail(ops)
        /\ UNCHANGED <<prov, target, want, pc, asked, changes, others, faults>>
    BY <1>5 DEF Run
  <2>2. Consistent(k')
    BY <2>1, OwnCommand
  <2>3. Planned(ops', Commands, Range(want.routes), asked)
    BY <2>1, PlannedHead DEF OpsOK
  <2>4. TypeOK'
    BY <2>1, <2>2 DEF TypeOK
  <2>5. OpsOK'
    BY <2>1, <2>3 DEF OpsOK
  <2> QED
    BY <2>4, <2>5
<1>6. CASE RunRefused
  <2>1. /\ ops # <<>> /\ ((pc' = pc /\ ops' = Tail(ops)) \/ (pc' = "idle" /\ ops' = <<>>))
        /\ UNCHANGED <<k, prov, target, want, asked, changes, others, faults>>
    BY <1>6 DEF RunRefused, Returns
  <2>2. Planned(ops', Commands, Range(want.routes), asked)
    BY <2>1, PlannedHead, PlannedNone DEF OpsOK
  <2>3. TypeOK'
    BY <2>1 DEF TypeOK
  <2>4. OpsOK'
    BY <2>1, <2>2 DEF OpsOK
  <2> QED
    BY <2>3, <2>4
<1>7. CASE RunFails
  <2>1. /\ ops # <<>> /\ faults < MaxFaults /\ faults' = faults + 1
        /\ k' \in {k} \cup Results(k, Head(ops)) /\ pc' = "idle" /\ ops' = <<>>
        /\ UNCHANGED <<prov, target, want, asked, changes, others>>
    BY <1>7 DEF RunFails, Returns
  <2>2. Consistent(k')
    BY <2>1, OwnCommand DEF TypeOK
  <2>3. TypeOK'
    BY <2>1, <2>2, Bounds DEF TypeOK
  <2>4. OpsOK'
    BY <1>1, <2>1 DEF OpsOK
  <2> QED
    BY <2>3, <2>4
<1>8. CASE ObserveFails
  <2>1. /\ faults < MaxFaults /\ faults' = faults + 1 /\ pc' = "idle" /\ ops' = <<>>
        /\ UNCHANGED <<k, prov, target, want, asked, changes, others>>
    BY <1>8 DEF ObserveFails, Returns
  <2>2. TypeOK'
    BY <2>1, Bounds DEF TypeOK
  <2>3. OpsOK'
    BY <1>1, <2>1 DEF OpsOK
  <2> QED
    BY <2>2, <2>3
<1>9. CASE Verify
  <2>1. /\ pc = "rest" /\ ops = <<>> /\ ops' = <<>> /\ pc' \in {"idle", "save"}
        /\ UNCHANGED <<k, prov, target, want, asked, changes, others, faults>>
    BY <1>9 DEF Verify, Returns
  <2>2. TypeOK'
    BY <2>1 DEF TypeOK
  <2>3. OpsOK'
    BY <1>1, <2>1 DEF OpsOK
  <2> QED
    BY <2>2, <2>3
<1>10. CASE SaveProvenance
  <2>1. /\ pc = "save" /\ pc' = "idle" /\ ops' = <<>>
        /\ \/ prov' = want.routes /\ faults' = faults
           \/ faults < MaxFaults /\ faults' = faults + 1 /\ prov' = prov
        /\ UNCHANGED <<k, target, want, asked, changes, others>>
    BY <1>10 DEF SaveProvenance, Returns
  <2>2. IsList(prov') /\ Range(prov') \subseteq asked
    BY <2>1, TargetsAre DEF TypeOK, OpsOK
  <2>3. TypeOK'
    BY <2>1, <2>2, Bounds DEF TypeOK
  <2>4. OpsOK'
    BY <1>1, <2>1, <2>2 DEF OpsOK
  <2> QED
    BY <2>3, <2>4
<1>11. CASE Retarget
  <2>1. /\ changes < MaxChanges /\ changes' = changes + 1 /\ target' \in Targets
        /\ UNCHANGED <<k, prov, want, pc, ops, asked, others, faults>>
    BY <1>11 DEF Retarget
  <2>2. TypeOK'
    BY <2>1, Bounds DEF TypeOK
  <2>3. OpsOK'
    BY <2>1 DEF OpsOK
  <2> QED
    BY <2>2, <2>3
<1>12. CASE Drift
  <2>1. /\ others < MaxForeign /\ others' = others + 1
        /\ UNCHANGED <<prov, target, want, pc, ops, asked, changes, faults>>
    BY <1>12 DEF Drift
  <2>2. PICK c \in Foreign : k' \in Results(k, c)
    BY <1>12 DEF Drift
  <2>3. Consistent(k')
    <3>1. c.do \in Commands /\ (c.do = "link add" => IsLink(c.arg))
      BY EngineAssumption
    <3> QED
      BY <2>2, <3>1, ResultsKeep DEF TypeOK
  <2>4. TypeOK'
    BY <2>1, <2>3, Bounds DEF TypeOK
  <2>5. OpsOK'
    BY <2>1 DEF OpsOK
  <2> QED
    BY <2>4, <2>5
<1>13. CASE UNCHANGED vars
  <2>1. TypeOK'
    BY <1>13 DEF TypeOK, vars
  <2>2. OpsOK'
    BY <1>13 DEF OpsOK, vars
  <2> QED
    BY <2>1, <2>2
<1> QED
  BY <1>2, <1>3, <1>4, <1>5, <1>6, <1>7, <1>8, <1>9, <1>10, <1>11, <1>12, <1>13 DEF Next, Step

\* The service has read its file, or the next commands restart it: unless a command
\* was lost.
Serving ==
    faults = 0 => /\ k.service = k.conf \/ RestartAt(k.unit, ops, 1)
                  /\ Restarts(k.unit, ops)

LEMMA RestartsRest ==
  ASSUME NEW d \in Targets, NEW a, NEW managed, IsList(managed)
  PROVE  Restarts(a.unit, PlanRest(d, a, managed))
<1> DEFINE new == Range(d.routes)
           old == Range(managed)
           r == PlanRoutes(d, a, managed)
           f == PlanFirewall(d, a)
           s == PlanServices(d, a)
           q == PlanQoS(d, a)
<1>1. Quiet \subseteq Quiet /\ Quiet \subseteq Commands
  BY DEF Quiet
<1>2. Planned(r, Quiet, new, old) /\ Planned(f, Quiet, new, old) /\ Planned(q, Quiet, new, old)
  BY <1>1, PlanRoutesFits, PlanFirewallFits, PlanQoSFits
<1>3. Planned(r, Commands, new, old) /\ Planned(f, Commands, new, old)
         /\ Planned(s, Commands, new, old) /\ Planned(q, Commands, new, old)
  BY <1>1, PlanRoutesFits, PlanFirewallFits, PlanServicesFits, PlanQoSFits
<1>4. Restarts(a.unit, s)
  BY RestartsServices
<1>5. PlanRest(d, a, managed) = ((r \o f) \o s) \o q
  BY DEF PlanRest
<1> HIDE DEF r, f, s, q, new, old
<1>6. Restarts(a.unit, r) /\ Restarts(a.unit, f) /\ Restarts(a.unit, q)
  BY <1>2, RestartsQuiet
<1>7. IsList(r) /\ IsList(f) /\ IsList(s) /\ IsList(q)
  BY <1>3 DEF Planned
<1>8. Planned(r \o f, Commands, new, old) /\ Planned((r \o f) \o s, Commands, new, old)
  BY <1>3, PlannedBoth
<1>9. IsList(r \o f) /\ IsList((r \o f) \o s)
  BY <1>8 DEF Planned
<1>10. Restarts(a.unit, r \o f)
  BY <1>6, <1>7, RestartsBoth
<1>11. Restarts(a.unit, (r \o f) \o s)
  BY <1>4, <1>7, <1>9, <1>10, RestartsBoth
<1>12. Restarts(a.unit, ((r \o f) \o s) \o q)
  BY <1>6, <1>7, <1>9, <1>11, RestartsBoth
<1> QED
  BY <1>5, <1>12

LEMMA RestartsFromAddrs ==
  ASSUME IInv, NEW d \in Targets, PlanFromAddrs(d)
  PROVE  Restarts(k.unit, ops')
<1>1. IsFiniteSet(k.addrs) /\ IsList(prov)
  BY DEF IInv, TypeOK, OpsOK, Consistent
<1>2. PICK order \in SetToSeqs(AddrDevs(d)) :
         ops' \in {PlanAddrs(d, k, order), PlanRest(d, k, prov)}
  BY DEF PlanFromAddrs
<1>3. Planned(PlanAddrs(d, k, order), Quiet, {}, {})
  BY <1>1, AddrDevsListed, PlanAddrsFits
<1>4. Restarts(k.unit, PlanAddrs(d, k, order))
  BY <1>3, RestartsQuiet
<1>5. Restarts(k.unit, PlanRest(d, k, prov))
  BY <1>1, RestartsRest
<1> QED
  BY <1>2, <1>4, <1>5

LEMMA NothingLeft ==
  ASSUME NEW unit
  PROVE  Restarts(unit, <<>>) /\ ~RestartAt(unit, <<>>, 1)
<1>1. \A i : i \notin DOMAIN <<>>
  OBVIOUS
<1> QED
  BY <1>1 DEF Restarts, RestartAt

\* One command of a plan that restarts the service when it must.
LEMMA ServingRun ==
  ASSUME NEW x, Consistent(x), NEW s, IsList(s), s # <<>>, Head(s).do \in Commands,
         x.service = x.conf \/ RestartAt(x.unit, s, 1), Restarts(x.unit, s)
  PROVE  /\ \A y \in Results(x, Head(s)) :
               /\ y.service = y.conf \/ RestartAt(y.unit, Tail(s), 1)
               /\ Restarts(y.unit, Tail(s))
         /\ MayFail(x, Head(s)) => /\ x.service = x.conf
                                   /\ Head(s).ignore => Restarts(x.unit, Tail(s))
<1> DEFINE c == Head(s)
           t == Tail(s)
<1>1. s \in Seq(Range(s)) /\ DOMAIN s = 1..Len(s) /\ Len(s) \in Nat
  BY ListFacts
<1>2. 1 \in DOMAIN s /\ c = s[1]
  BY <1>1, EmptySeq, HeadTailProperties
<1>3. /\ Restarts(x.unit, t)
      /\ \A unit : RestartAt(unit, s, 2) => RestartAt(unit, t, 1)
  BY RestartsTail
<1> HIDE DEF c, t
<1>4. /\ c.do = "write conf" => RestartAt(x.unit, t, 1)
      /\ c.do = "write unit" => c.arg = Unit
  <2>1. /\ c.do = "write conf" => RestartAt(x.unit, s, 2)
        /\ c.do = "write unit" => c.arg = Unit
    <3>1. 1 + 1 = 2
      OBVIOUS
    <3> QED
      BY <1>2, <3>1 DEF Restarts
  <2> QED
    BY <1>3, <2>1
<1>5. Unit # None
  BY EngineAssumption
<1>6. RestartAt(x.unit, s, 1) =>
         \/ c.do = "restart" /\ x.unit # None
         \/ c.do = "daemon-reload" /\ RestartAt(x.unit, t, 1)
         \/ c.do = "write unit" /\ \A unit : unit # None => RestartAt(unit, t, 1)
  <2> SUFFICES ASSUME RestartAt(x.unit, s, 1)
               PROVE  \/ c.do = "restart" /\ x.unit # None
                      \/ c.do = "daemon-reload" /\ RestartAt(x.unit, t, 1)
                      \/ c.do = "write unit" /\ \A unit : unit # None => RestartAt(unit, t, 1)
    OBVIOUS
  <2>1. 1 + 1 = 2 /\ 1 + 2 = 3 /\ 2 + 1 = 3
    OBVIOUS
  <2>2. CASE x.unit # None /\ s[1].do = "restart"
    BY <1>2, <2>2
  <2>3. CASE x.unit # None /\ 2 \in DOMAIN s /\ s[1].do = "daemon-reload" /\ s[2].do = "restart"
    <3>1. RestartAt(x.unit, s, 2)
      BY <2>1, <2>3 DEF RestartAt
    <3> QED
      BY <1>2, <1>3, <2>3, <3>1
  <2>4. CASE /\ 2 \in DOMAIN s /\ 3 \in DOMAIN s
             /\ s[1].do = "write unit" /\ s[2].do = "daemon-reload" /\ s[3].do = "restart"
    <3>1. ASSUME NEW unit, unit # None PROVE RestartAt(unit, t, 1)
      <4>1. RestartAt(unit, s, 2)
        BY <2>1, <2>4, <3>1 DEF RestartAt
      <4> QED
        BY <1>3, <4>1
    <3> QED
      BY <1>2, <2>4, <3>1
  <2> QED
    BY <2>1, <2>2, <2>3, <2>4 DEF RestartAt
<1>7. ASSUME NEW y \in Results(x, c)
      PROVE  /\ y.service = y.conf \/ RestartAt(y.unit, t, 1)
             /\ Restarts(y.unit, t)
  <2>1. /\ c.do # "write conf" => y.conf = x.conf
        /\ c.do # "write unit" => y.unit = x.unit
        /\ c.do = "write unit" => y.unit = c.arg
        /\ c.do \notin {"restart", "enable"} => y.service = x.service
        /\ c.do = "restart" => y.service = x.conf
        /\ c.do = "enable" => y.service \in {x.service, x.conf}
    BY <1>7, FilesKept DEF c
  <2>2. x.unit # None => y.unit # None
    BY <1>4, <1>5, <2>1
  <2>3. Restarts(y.unit, t) /\ \A i : RestartAt(x.unit, t, i) => RestartAt(y.unit, t, i)
    BY <1>3, <2>2, RestartsUnit
  <2>4. y.service = y.conf \/ RestartAt(y.unit, t, 1)
    BY <1>4, <1>5, <1>6, <2>1, <2>3
  <2> QED
    BY <2>3, <2>4
<1>8. ASSUME MayFail(x, c), x.service # x.conf PROVE FALSE
  <2>1. \/ c.do = "restart" /\ x.unit # None
        \/ c.do \in {"daemon-reload", "write unit"}
    BY <1>6, <1>8
  <2>2. Results(x, c) = {}
    BY <1>8, <2>1 DEF MayFail
  <2>3. CASE c.do = "restart" /\ x.unit # None
    BY <2>2, <2>3 DEF Results, Systemctl
  <2>4. CASE c.do = "daemon-reload"
    BY <2>2, <2>4 DEF Results, Systemctl
  <2>5. CASE c.do = "write unit"
    BY <2>2, <2>5 DEF Results
  <2> QED
    BY <2>1, <2>3, <2>4, <2>5
<1> QED
  BY <1>3, <1>7, <1>8 DEF c, t

LEMMA ServingInitially == Init => Serving
<1> SUFFICES ASSUME Init PROVE Serving
  OBVIOUS
<1>1. Boot.service = Boot.conf
  BY EngineAssumption
<1> QED
  BY <1>1, NothingLeft DEF Init, Serving

LEMMA ServingKept == IInv /\ Serving /\ [Next]_vars => Serving'
<1> SUFFICES ASSUME IInv, Serving, [Next]_vars, faults' = 0 PROVE Serving'
  BY DEF Serving
<1>1. faults = 0
  BY DEF Next, Step, vars, Start, LinksDone, AddrsDone, Run, RunRefused, Verify, SaveProvenance,
         RunFails, ObserveFails, Retarget, Drift, IInv, TypeOK
<1>2. /\ k.service = k.conf \/ RestartAt(k.unit, ops, 1)
      /\ Restarts(k.unit, ops)
  BY <1>1 DEF Serving
<1>3. ops = <<>> => k.service = k.conf
  BY <1>2, NothingLeft
<1>4. ASSUME k' = k, k.service = k.conf, Restarts(k.unit, ops') PROVE Serving'
  BY <1>4 DEF Serving
<1>5. CASE Start
  <2>1. k' = k /\ target \in Targets /\ ops = <<>>
    BY <1>5 DEF Start, IInv, TypeOK, OpsOK
  <2>2. CASE ~CheckInterfaces(target, k)
    <3>1. ops' = <<>>
      BY <1>5, <2>1, <2>2 DEF Start
    <3> QED
      BY <1>3, <1>4, <2>1, <3>1, NothingLeft
  <2>3. CASE CheckInterfaces(target, k) /\ PlanLinks(target, k) # <<>>
    <3>1. ops' = PlanLinks(target, k)
      BY <1>5, <2>3 DEF Start
    <3>2. IsList(k.links)
      BY DEF IInv, TypeOK, Consistent
    <3>3. Planned(PlanLinks(target, k), Quiet, {}, {})
      BY <2>1, <3>2, PlanLinksFits
    <3>4. Restarts(k.unit, ops')
      BY <3>1, <3>3, RestartsQuiet
    <3> QED
      BY <1>3, <1>4, <2>1, <3>4
  <2>4. CASE CheckInterfaces(target, k) /\ PlanLinks(target, k) = <<>>
    <3>1. PlanFromAddrs(target)
      BY <1>5, <2>4 DEF Start
    <3>2. Restarts(k.unit, ops')
      BY <2>1, <3>1, RestartsFromAddrs
    <3> QED
      BY <1>3, <1>4, <2>1, <3>2
  <2> QED
    BY <2>2, <2>3, <2>4
<1>6. CASE LinksDone
  <2>1. k' = k /\ ops = <<>> /\ PlanFromAddrs(want) /\ want \in Targets
    BY <1>6 DEF LinksDone, IInv, TypeOK
  <2>2. Restarts(k.unit, ops')
    BY <2>1, RestartsFromAddrs
  <2> QED
    BY <1>3, <1>4, <2>1, <2>2
<1>7. CASE AddrsDone
  <2>1. k' = k /\ ops = <<>> /\ ops' = PlanRest(want, k, prov) /\ want \in Targets /\ IsList(prov)
    BY <1>7 DEF AddrsDone, IInv, TypeOK, OpsOK
  <2>2. Restarts(k.unit, ops')
    BY <2>1, RestartsRest
  <2> QED
    BY <1>3, <1>4, <2>1, <2>2
<1>8. ASSUME ops # <<>>
      PROVE  Consistent(k) /\ IsList(ops) /\ Head(ops).do \in Commands
  <2>1. Fit(Head(ops), Commands, Range(want.routes), asked)
    BY <1>8, PlannedHead DEF IInv, OpsOK
  <2> QED
    BY <2>1 DEF Fit, IInv, TypeOK, OpsOK, Planned
<1>9. CASE Run
  <2>1. ops # <<>> /\ k' \in Results(k, Head(ops)) /\ ops' = Tail(ops)
    BY <1>9 DEF Run
  <2>2. /\ k'.service = k'.conf \/ RestartAt(k'.unit, Tail(ops), 1)
        /\ Restarts(k'.unit, Tail(ops))
    BY <1>2, <1>8, <2>1, ServingRun
  <2> QED
    BY <2>1, <2>2 DEF Serving
<1>10. CASE RunRefused
  <2>1. /\ ops # <<>> /\ MayFail(k, Head(ops)) /\ k' = k
        /\ \/ Head(ops).ignore /\ ops' = Tail(ops)
           \/ ops' = <<>>
    BY <1>10 DEF RunRefused, Returns
  <2>2. /\ k.service = k.conf
        /\ Head(ops).ignore => Restarts(k.unit, Tail(ops))
    BY <1>2, <1>8, <2>1, ServingRun
  <2>3. Restarts(k.unit, ops')
    BY <2>1, <2>2, NothingLeft
  <2> QED
    BY <1>4, <2>1, <2>2, <2>3
<1>11. CASE RunFails \/ ObserveFails
  <2>1. faults' = faults + 1
    BY <1>11 DEF RunFails, ObserveFails
  <2> QED
    BY <1>1, <2>1
<1>12. CASE Verify \/ SaveProvenance
  <2>1. k' = k /\ ops = <<>> /\ ops' = <<>>
    BY <1>12 DEF Verify, SaveProvenance, Returns, IInv, OpsOK
  <2> QED
    BY <1>3, <1>4, <2>1, NothingLeft
<1>13. CASE Retarget
  <2>1. k' = k /\ ops' = ops
    BY <1>13 DEF Retarget
  <2> QED
    BY <1>2, <2>1 DEF Serving
<1>14. CASE Drift
  <2>1. ops' = ops
    BY <1>14 DEF Drift
  <2>2. PICK c \in Foreign : k' \in Results(k, c)
    BY <1>14 DEF Drift
  <2>3. c.do \in Commands /\ c.do \notin {"write conf", "write unit"}
    BY EngineAssumption
  <2>4. /\ k'.conf = k.conf /\ k'.unit = k.unit
        /\ k'.service = k.service \/ k'.service = k.conf
    <3>1. Consistent(k)
      BY DEF IInv, TypeOK
    <3> QED
      BY <2>2, <2>3, <3>1, FilesKept
  <2> QED
    BY <1>2, <2>1, <2>4 DEF Serving
<1>15. CASE UNCHANGED vars
  BY <1>2, <1>15 DEF Serving, vars
<1> QED
  BY <1>5, <1>6, <1>7, <1>9, <1>10, <1>11, <1>12, <1>13, <1>14, <1>15 DEF Next, Step

-----------------------------------------------------------------------------
(* Nothing is left to plan *)

LEMMA ShortLists ==
  ASSUME NEW x, NEW y
  PROVE  /\ IsList(<<x>>) /\ <<x>> # <<>>
         /\ IsList(<<x, y>>) /\ <<x, y>> # <<>>
<1> DEFINE C == {x, y}
<1>1. <<x>> \in Seq(C) /\ <<x, y>> \in Seq(C)
  OBVIOUS
<1>2. <<x>> # <<>> /\ <<x, y>> # <<>>
  OBVIOUS
<1> HIDE DEF C
<1> QED
  BY <1>1, <1>2, SeqIsList

LEMMA ListNone == IsList(<<>>)
<1>1. <<>> \in Seq({})
  OBVIOUS
<1> QED
  BY <1>1, SeqIsList

LEMMA ListBoth ==
  ASSUME NEW s, IsList(s), NEW t, IsList(t)
  PROVE  /\ IsList(s \o t)
         /\ s \o t = <<>> => s = <<>> /\ t = <<>>
<1> DEFINE C == Range(s) \cup Range(t)
<1>1. s \in Seq(Range(s)) /\ t \in Seq(Range(t))
  BY DEF IsList
<1>2. s \in Seq(C) /\ t \in Seq(C)
  BY <1>1, SeqMonotonic
<1>3. s \o t \in Seq(C)
  BY <1>2, ConcatProperties
<1> HIDE DEF C
<1>4. s \o t = <<>> => s = <<>> /\ t = <<>>
  BY <1>2, ConcatEqualIffEmpty
<1> QED
  BY <1>3, <1>4, SeqIsList

LEMMA IfNone ==
  ASSUME NEW cond, NEW s, IsList(s)
  PROVE  /\ IsList(If(cond, s))
         /\ If(cond, s) = <<>> => ~cond \/ s = <<>>
BY ListNone DEF If

LEMMA EachNone ==
  ASSUME NEW s, IsList(s), NEW m, m = [i \in DOMAIN s |-> m[i]]
  PROVE  /\ IsList(m)
         /\ m = <<>> => s = <<>>
<1>1. DOMAIN s = 1..Len(s) /\ Len(s) \in Nat /\ s \in Seq(Range(s))
  BY ListFacts
<1>2. DOMAIN m = 1..Len(s)
  BY <1>1
<1>3. IsList(m)
  <2>1. m = [i \in 1..Len(s) |-> m[i]]
    BY <1>1
  <2> QED
    BY <1>1, <2>1, ListIs
<1>4. ASSUME m = <<>> PROVE s = <<>>
  <2>1. DOMAIN m = {}
    BY <1>4
  <2>2. Len(s) = 0
    <3>1. 1..Len(s) = {}
      BY <1>2, <2>1
    <3>2. Len(s) # 0 => 1 \in 1..Len(s)
      BY <1>1
    <3> QED
      BY <3>1, <3>2
  <2> QED
    BY <1>1, <2>2, EmptySeq
<1> QED
  BY <1>3, <1>4

LEMMA AllNone ==
  ASSUME NEW s, IsList(s), NEW m, m = [i \in DOMAIN s |-> m[i]], \A i \in DOMAIN s : IsList(m[i])
  PROVE  /\ IsList(FlattenSeq(m))
         /\ FlattenSeq(m) = <<>> => \A i \in DOMAIN s : m[i] = <<>>
<1> DEFINE C == UNION {Range(m[i]) : i \in DOMAIN s}
<1>1. DOMAIN s = 1..Len(s) /\ Len(s) \in Nat
  BY ListFacts
<1>2. ASSUME NEW i \in DOMAIN s PROVE m[i] \in Seq(C)
  <2>1. m[i] \in Seq(Range(m[i])) /\ Range(m[i]) \subseteq C
    BY DEF IsList
  <2> HIDE DEF C
  <2> QED
    BY <2>1, SeqMonotonic
<1> HIDE DEF C
<1>3. m \in [1..Len(s) -> Seq(C)]
  BY <1>1, <1>2
<1>4. m \in Seq(Seq(C)) /\ Len(m) = Len(s)
  BY <1>1, <1>3, LenProperties
<1>5. IsList(FlattenSeq(m))
  BY <1>4, Flattened, SeqIsList
<1> QED
  BY <1>1, <1>4, <1>5, FlattenedEmpty

LEMMA SelectedNone ==
  ASSUME NEW s, IsList(s), NEW S, Among(s, S) = <<>>
  PROVE  \A e \in Range(s) : e \notin S
<1>1. Range(<<>>) = {}
  BY DEF Range
<1> QED
  BY <1>1, SelectedList

LEMMA EnumeratedNone ==
  ASSUME NEW S, IsFiniteSet(S)
  PROVE  IsList(SetToSeq(S)) /\ (SetToSeq(S) = <<>> => S = {})
<1>1. SetToSeq(S) \in Seq(S)
  BY Enumerated
<1>2. ASSUME SetToSeq(S) = <<>> PROVE S = {}
  <2>1. PICK n \in Nat : ExistsBijection(1..n, S)
    BY FS_NatBijection
  <2>2. Cardinality(S) = n
    BY <2>1, FS_CountingElements
  <2>3. \E f \in [1..n -> S] : IsInjective(f)
    BY <2>1 DEF ExistsBijection, Bijection, Injection
  <2>4. SetToSeq(S) \in [1..n -> S]
    BY <2>2, <2>3 DEF SetToSeq
  <2>5. DOMAIN <<>> = 1..n
    BY <1>2, <2>4
  <2>6. n = 0
    BY <2>5
  <2> QED
    BY <2>2, <2>6, FS_EmptySet
<1> QED
  BY <1>1, <1>2, SeqIsList

-----------------------------------------------------------------------------
(* Verify is sound *)

\* The link is there as it is desired.
LinkIs(l, links) ==
    \E x \in Range(links) : /\ x.name = l.name /\ x.master = l.master /\ x.up
                            /\ l.type # "ether" => x.type \in {l.type, "ether"}

LEMMA PlanLinkNone ==
  ASSUME NEW l, IsLink(l), l.up, NEW a, GoodLinks(a.links), PlanLink(l, a) = <<>>,
         l.type = "ether" => HasLink(a.links, l.name)
  PROVE  LinkIs(l, a.links)
<1> DEFINE there == HasLink(a.links, l.name)
           recreate == /\ there
                       /\ l.type # "ether"
                       /\ By(a.links, l.name).type \notin {l.type, "ether"}
           cur == IF there /\ ~recreate THEN By(a.links, l.name)
                  ELSE [l EXCEPT !.master = None, !.up = FALSE]
           c1 == <<Cmd("link del", l.name, None)>>
           c2 == <<Cmd("link add", l.name, l)>>
           c3 == <<Cmd("master", l.name, l.master)>>
           c4 == <<Cmd("up", l.name, l.up)>>
           s1 == If(recreate, c1)
           s2 == If(recreate \/ ~there, c2)
           s3 == If(cur.master # l.master, c3)
           s4 == If(cur.up # l.up, c4)
<1>1. ~(~there /\ l.type = "ether")
  OBVIOUS
<1>2. s1 \o s2 \o s3 \o s4 = <<>>
  BY <1>1 DEF PlanLink
<1>3. /\ IsList(c1) /\ c1 # <<>> /\ IsList(c2) /\ c2 # <<>>
      /\ IsList(c3) /\ c3 # <<>> /\ IsList(c4) /\ c4 # <<>>
  BY ShortLists
<1> HIDE DEF c1, c2, c3, c4, cur, recreate, there
<1>4. IsList(s1) /\ IsList(s2) /\ IsList(s3) /\ IsList(s4)
  BY <1>3, IfNone
<1>5. s1 = <<>> /\ s2 = <<>> /\ s3 = <<>> /\ s4 = <<>>
  <2> HIDE DEF s1, s2, s3, s4
  <2>1. IsList(s1 \o s2) /\ IsList((s1 \o s2) \o s3)
    BY <1>4, ListBoth
  <2>2. (s1 \o s2) \o s3 = <<>> /\ s4 = <<>>
    BY <1>2, <1>4, <2>1, ListBoth
  <2>3. s1 \o s2 = <<>> /\ s3 = <<>>
    BY <1>4, <2>1, <2>2, ListBoth
  <2> QED
    BY <1>4, <2>2, <2>3, ListBoth
<1>6. ~recreate /\ there /\ cur.master = l.master /\ ~(cur.up # l.up)
  BY <1>3, <1>5, IfNone
<1> DEFINE x == By(a.links, l.name)
<1>7. x \in Range(a.links) /\ x.name = l.name
  BY <1>6, ByIs DEF there
<1>8. cur = x
  BY <1>6 DEF cur
<1>9. l.type # "ether" => x.type \in {l.type, "ether"}
  BY <1>6 DEF recreate
<1>10. x.master = l.master /\ x.up = l.up
  BY <1>6, <1>8
<1> HIDE DEF x
<1>11. x.up
  BY <1>10, Zenon
<1> QED
  BY <1>7, <1>9, <1>10, <1>11, Zenon DEF LinkIs

LEMMA PlanLinksNone ==
  ASSUME NEW d \in Targets, NEW a, GoodLinks(a.links), PlanLinks(d, a) = <<>>,
         CheckInterfaces(d, a)
  PROVE  /\ \A l \in Range(d.links) : LinkIs(l, a.links)
         /\ \A x \in Range(a.links) :
              x.type \in managedKinds => \E l \in Range(d.links) : l.name = x.name
<1>1. IsList(d.links) /\ \A l \in Range(d.links) : IsLink(l) /\ l.up
  BY EngineAssumption DEF IsDesired
<1>2. IsList(a.links)
  BY DEF GoodLinks
<1> DEFINE Stale == {l \in Range(a.links) : /\ l.type \in managedKinds
                                            /\ ~HasLink(d.links, l.name)}
           stale == Among(a.links, Stale)
           dels == [i \in DOMAIN stale |-> Cmd("link del", stale[i].name, None)]
           parts == [i \in DOMAIN d.links |-> PlanLink(d.links[i], a)]
<1>3. PlanLinks(d, a) = dels \o FlattenSeq(parts)
  BY DEF PlanLinks, FlatMap, Map
<1>4. IsList(stale)
  BY <1>2, SelectedList
<1>5. dels = [i \in DOMAIN stale |-> dels[i]] /\ parts = [i \in DOMAIN d.links |-> parts[i]]
  OBVIOUS
<1>6. \A i \in DOMAIN d.links : d.links[i] \in Range(d.links) /\ parts[i] = PlanLink(d.links[i], a)
  BY DEF Range
<1> HIDE DEF dels, parts, stale, Stale
<1>7. \A i \in DOMAIN d.links : IsList(parts[i])
  <2>1. \A l \in Range(d.links) : Planned(PlanLink(l, a), Quiet, {}, {})
    BY <1>1, PlanLinkFits
  <2> QED
    BY <1>6, <2>1 DEF Planned
<1>8. IsList(dels) /\ IsList(FlattenSeq(parts))
  BY <1>1, <1>4, <1>5, <1>7, EachNone, AllNone
<1>9. dels = <<>> /\ FlattenSeq(parts) = <<>>
  BY <1>3, <1>8, ListBoth
<1>10. stale = <<>> /\ \A i \in DOMAIN d.links : parts[i] = <<>>
  BY <1>1, <1>4, <1>5, <1>7, <1>9, EachNone, AllNone
<1>11. ASSUME NEW l \in Range(d.links) PROVE LinkIs(l, a.links)
  <2>1. PICK i \in DOMAIN d.links : d.links[i] = l
    BY DEF Range
  <2>2. PlanLink(l, a) = <<>>
    BY <1>6, <1>10, <2>1
  <2>3. l.type = "ether" => HasLink(a.links, l.name)
    BY <2>1 DEF CheckInterfaces
  <2>4. IsLink(l) /\ l.up
    BY <1>1, Zenon
  <2> QED
    BY <2>2, <2>3, <2>4, PlanLinkNone
<1>12. ASSUME NEW x \in Range(a.links), x.type \in managedKinds
       PROVE  \E l \in Range(d.links) : l.name = x.name
  <2>1. x \notin Stale
    BY <1>2, <1>10, SelectedNone DEF stale
  <2>2. HasLink(d.links, x.name)
    BY <1>12, <2>1 DEF Stale
  <2> QED
    BY <2>2, HasLinkRange
<1> QED
  BY <1>11, <1>12

LEMMA PlanAddrsNone ==
  ASSUME NEW d \in Targets, NEW a, IsFiniteSet(a.addrs),
         \A dev \in AddrDevs(d) : PlanAddrsOf(dev, d, a) = <<>>
  PROVE  /\ Range(d.addrs) \subseteq a.addrs
         /\ \A p \in a.addrs : p[1] \in d.drop => p \in Range(d.addrs)
<1>1. /\ IsList(d.addrs)
      /\ \A p \in Range(d.addrs) : HasLink(d.links, p[1])
      /\ \A dev \in d.drop : \E p \in Range(d.addrs) : p[1] = dev
  BY EngineAssumption DEF IsDesired
<1>2. \A p \in Range(d.addrs) : p[1] \in AddrDevs(d)
  BY DEF Range, AddrDevs
<1>3. ASSUME NEW dev \in AddrDevs(d), HasLink(d.links, dev)
      PROVE  /\ \A p \in Range(d.addrs) : p[1] = dev => p \in a.addrs
             /\ dev \in d.drop => \A p \in a.addrs : p[1] = dev => p \in Range(d.addrs)
  <2> DEFINE Stale == {p \in a.addrs \ Range(d.addrs) : p[1] = dev}
             Fresh == {p \in Range(d.addrs) \ a.addrs : p[1] = dev}
             stale == SetToSeq(Stale)
             fresh == Among(d.addrs, Fresh)
             dels == [i \in DOMAIN stale |-> CmdIdempotent("addr del", dev, stale[i][2])]
             adds == [i \in DOMAIN fresh |-> Cmd("addr add", dev, fresh[i][2])]
  <2>1. If(dev \in d.drop, dels) \o adds = <<>>
    BY <1>3 DEF PlanAddrsOf, Map
  <2>2. dels = [i \in DOMAIN stale |-> dels[i]] /\ adds = [i \in DOMAIN fresh |-> adds[i]]
    OBVIOUS
  <2>3. IsFiniteSet(Stale)
    <3>1. Stale \in SUBSET a.addrs
      OBVIOUS
    <3> HIDE DEF Stale
    <3> QED
      BY <3>1, FS_Subset
  <2> HIDE DEF Stale, Fresh, dels, adds
  <2>4. IsList(stale) /\ (stale = <<>> => Stale = {})
    BY <2>3, EnumeratedNone
  <2>5. IsList(fresh) /\ (fresh = <<>> => \A p \in Range(d.addrs) : p \notin Fresh)
    BY <1>1, SelectedList, SelectedNone
  <2> HIDE DEF stale, fresh
  <2>6. IsList(dels) /\ (dels = <<>> => stale = <<>>) /\ IsList(adds) /\ (adds = <<>> => fresh = <<>>)
    BY <2>2, <2>4, <2>5, EachNone
  <2>7. IsList(If(dev \in d.drop, dels))
        /\ (If(dev \in d.drop, dels) = <<>> => dev \notin d.drop \/ dels = <<>>)
    BY <2>6, IfNone
  <2>8. If(dev \in d.drop, dels) = <<>> /\ adds = <<>>
    BY <2>1, <2>6, <2>7, ListBoth
  <2>9. ASSUME NEW p \in Range(d.addrs), p[1] = dev PROVE p \in a.addrs
    BY <2>5, <2>6, <2>8, <2>9 DEF Fresh
  <2>10. ASSUME dev \in d.drop, NEW p \in a.addrs, p[1] = dev PROVE p \in Range(d.addrs)
    BY <2>4, <2>6, <2>7, <2>8, <2>10 DEF Stale
  <2> QED
    BY <2>9, <2>10
<1> QED
  BY <1>1, <1>2, <1>3

LEMMA PlanRoutesNone ==
  ASSUME NEW d \in Targets, NEW a, NEW managed, IsList(managed)
  PROVE  /\ IsList(PlanRoutes(d, a, managed))
         /\ PlanRoutes(d, a, managed) = <<>> =>
              /\ \A r \in Range(d.routes) : HasRoute(a.routes, r)
              /\ \A r \in Range(managed) : HasRoute(a.routes, r) => desiredHasRoute(d, r)
<1> DEFINE New == {r \in Range(d.routes) : ~HasRoute(a.routes, r)}
           Stale == {r \in Range(managed) : ~desiredHasRoute(d, r) /\ HasRoute(a.routes, r)}
           new == Among(d.routes, New)
           stale == Among(managed, Stale)
           adds == [i \in DOMAIN new |-> Cmd("route replace", new[i].dev, new[i])]
           dels == [i \in DOMAIN stale |-> Cmd("route del", stale[i].dev, stale[i])]
<1>1. PlanRoutes(d, a, managed) = adds \o dels
  BY DEF PlanRoutes, Map
<1>2. IsList(d.routes)
  BY EngineAssumption DEF IsDesired
<1>3. adds = [i \in DOMAIN new |-> adds[i]] /\ dels = [i \in DOMAIN stale |-> dels[i]]
  OBVIOUS
<1> HIDE DEF New, Stale, adds, dels
<1>4. /\ IsList(new) /\ (new = <<>> => \A r \in Range(d.routes) : r \notin New)
      /\ IsList(stale) /\ (stale = <<>> => \A r \in Range(managed) : r \notin Stale)
  BY <1>2, SelectedList, SelectedNone
<1> HIDE DEF new, stale
<1>5. IsList(adds) /\ (adds = <<>> => new = <<>>) /\ IsList(dels) /\ (dels = <<>> => stale = <<>>)
  BY <1>3, <1>4, EachNone
<1>6. IsList(adds \o dels) /\ (adds \o dels = <<>> => adds = <<>> /\ dels = <<>>)
  BY <1>5, ListBoth
<1> QED
  BY <1>1, <1>4, <1>5, <1>6 DEF New, Stale

LEMMA PlanFirewallNone ==
  ASSUME NEW d, NEW a
  PROVE  /\ IsList(PlanFirewall(d, a))
         /\ PlanFirewall(d, a) = <<>> => a.nft = d.nft
<1> DEFINE s == <<CmdIdempotent("nft delete", None, None), Cmd("nft load", None, d.nft)>>
<1>1. IsList(s) /\ s # <<>>
  BY ShortLists
<1>2. PlanFirewall(d, a) = If(a.nft # d.nft, s)
  BY DEF PlanFirewall
<1> HIDE DEF s
<1> QED
  BY <1>1, <1>2, IfNone

LEMMA PlanServicesNone ==
  ASSUME NEW d \in Targets, NEW a
  PROVE  /\ IsList(PlanServices(d, a))
         /\ PlanServices(d, a) = <<>> =>
              a.conf = d.conf /\ a.unit = Unit /\ Range(d.wg) \subseteq a.wg
<1> DEFINE New == Range(d.wg) \ a.wg
           wg == Among(d.wg, New)
           c1 == <<Cmd("write conf", None, d.conf)>>
           c2 == <<Cmd("write unit", None, Unit), Cmd("daemon-reload", None, None)>>
           c3 == <<Cmd("restart", None, None)>>
           c4 == <<CmdIdempotent("enable", None, None)>>
           s1 == If(a.conf # d.conf, c1)
           s2 == If(a.unit # Unit, c2)
           s3 == If(a.conf # d.conf, c3)
           s4 == If(a.conf # d.conf \/ a.unit # Unit, c4)
           s5 == [i \in DOMAIN wg |-> Cmd("wg", wg[i].dev, wg[i].conf)]
<1>1. PlanServices(d, a) = (((s1 \o s2) \o s3) \o s4) \o s5
  BY DEF PlanServices, Map
<1>2. /\ IsList(c1) /\ c1 # <<>> /\ IsList(c2) /\ c2 # <<>>
      /\ IsList(c3) /\ IsList(c4)
  BY ShortLists
<1>3. s5 = [i \in DOMAIN wg |-> s5[i]]
  OBVIOUS
<1> HIDE DEF c1, c2, c3, c4, s5, New
<1>4. IsList(wg) /\ (wg = <<>> => \A w \in Range(d.wg) : w \notin New)
  <2>1. IsList(d.wg)
    BY EngineAssumption DEF IsDesired
  <2> QED
    BY <2>1, SelectedList, SelectedNone
<1> HIDE DEF wg
<1>5. IsList(s5) /\ (s5 = <<>> => wg = <<>>)
  BY <1>3, <1>4, EachNone
<1>6. /\ IsList(s1) /\ (s1 = <<>> => a.conf = d.conf)
      /\ IsList(s2) /\ (s2 = <<>> => a.unit = Unit)
      /\ IsList(s3) /\ IsList(s4)
  BY <1>2, IfNone
<1> HIDE DEF s1, s2, s3, s4
<1>7. IsList(s1 \o s2) /\ (s1 \o s2 = <<>> => s1 = <<>> /\ s2 = <<>>)
  BY <1>6, ListBoth
<1>8. IsList((s1 \o s2) \o s3) /\ ((s1 \o s2) \o s3 = <<>> => s1 \o s2 = <<>>)
  BY <1>6, <1>7, ListBoth
<1>9. IsList(((s1 \o s2) \o s3) \o s4) /\ (((s1 \o s2) \o s3) \o s4 = <<>> => (s1 \o s2) \o s3 = <<>>)
  BY <1>6, <1>8, ListBoth
<1>10. /\ IsList((((s1 \o s2) \o s3) \o s4) \o s5)
       /\ (((s1 \o s2) \o s3) \o s4) \o s5 = <<>> => ((s1 \o s2) \o s3) \o s4 = <<>> /\ s5 = <<>>
  BY <1>5, <1>9, ListBoth
<1>11. wg = <<>> => Range(d.wg) \subseteq a.wg
  BY <1>4 DEF New
<1> QED
  BY <1>1, <1>5, <1>6, <1>7, <1>8, <1>9, <1>10, <1>11

LEMMA PlanQoSNone ==
  ASSUME NEW d \in Targets, NEW a
  PROVE  /\ IsList(PlanQoS(d, a))
         /\ PlanQoS(d, a) = <<>> =>
              \A q \in Range(d.tc) : HasLink(d.links, q.dev) => q \in a.tc
<1> DEFINE New == {q \in Range(d.tc) : HasLink(d.links, q.dev) /\ q \notin a.tc}
           tc == Among(d.tc, New)
           m == [i \in DOMAIN tc |-> Cmd("tc", tc[i].dev, tc[i])]
<1>1. PlanQoS(d, a) = m
  BY DEF PlanQoS, Map
<1>2. m = [i \in DOMAIN tc |-> m[i]]
  OBVIOUS
<1> HIDE DEF m, New
<1>3. IsList(tc) /\ (tc = <<>> => \A q \in Range(d.tc) : q \notin New)
  <2>1. IsList(d.tc)
    BY EngineAssumption DEF IsDesired
  <2> QED
    BY <2>1, SelectedList, SelectedNone
<1> HIDE DEF tc
<1>4. IsList(m) /\ (m = <<>> => tc = <<>>)
  BY <1>2, <1>3, EachNone
<1> QED
  BY <1>1, <1>3, <1>4 DEF New

LEMMA PlanRestNone ==
  ASSUME NEW d \in Targets, NEW a, NEW managed, IsList(managed), PlanRest(d, a, managed) = <<>>
  PROVE  /\ PlanRoutes(d, a, managed) = <<>> /\ PlanFirewall(d, a) = <<>>
         /\ PlanServices(d, a) = <<>> /\ PlanQoS(d, a) = <<>>
<1> DEFINE r == PlanRoutes(d, a, managed)
           f == PlanFirewall(d, a)
           s == PlanServices(d, a)
           q == PlanQoS(d, a)
<1>1. IsList(r) /\ IsList(f) /\ IsList(s) /\ IsList(q)
  BY PlanRoutesNone, PlanFirewallNone, PlanServicesNone, PlanQoSNone
<1>2. ((r \o f) \o s) \o q = <<>>
  BY DEF PlanRest
<1> HIDE DEF r, f, s, q
<1>3. IsList(r \o f)
  BY <1>1, ListBoth
<1>4. IsList((r \o f) \o s)
  BY <1>1, <1>3, ListBoth
<1>5. (r \o f) \o s = <<>> /\ q = <<>>
  BY <1>1, <1>2, <1>4, ListBoth
<1>6. r \o f = <<>> /\ s = <<>>
  BY <1>1, <1>3, <1>5, ListBoth
<1>7. r = <<>> /\ f = <<>>
  BY <1>1, <1>6, ListBoth
<1> QED
  BY <1>5, <1>6, <1>7 DEF r, f, s, q

LEMMA Invariant == Spec => []IInv
<1> QED
  BY Initially, StepKeeps, PTL DEF Spec

LEMMA ServingInvariant == Spec => []Serving
<1> QED
  BY Invariant, ServingInitially, ServingKept, PTL DEF Spec

-----------------------------------------------------------------------------
(* Results *)

\* Whatever the desired states are, whatever others command and whatever fails,
\* no sequence of commands leaves a kernel in which a name is taken twice, or a
\* master, a parent, a route's device or its gateway's network is gone; and the
\* provenance never names a route that no Apply was asked for.
THEOREM KernelStaysOne == Spec => []TypeOK
<1> QED
  BY Invariant, PTL DEF IInv

\* No command of routerd takes a route away that it was never asked for, except
\* as ForeignKept says.
THEOREM OthersRoutesKept == Spec => ForeignKept
<1> DEFINE Reason(r) ==
        \/ \E s \in asked : s.dst = r.dst /\ s.dev = r.dev /\ s.via \in {None, r.via}
        \/ \E s \in k'.routes \cap Range(want.routes) : s.dst = r.dst /\ s.metric = r.metric
        \/ ~HasLink(k'.links, r.dev) \/ ~By(k'.links, r.dev).up
        \/ k.addrs # k'.addrs
<1>1. ASSUME IInv, [Next]_vars, others' = others, NEW r \in k.routes \ k'.routes
      PROVE  Reason(r)
  <2>1. ops # <<>> /\ k' \in Results(k, Head(ops))
    <3>1. k' # k
      BY <1>1
    <3>2. Run \/ RunFails \/ Drift
      BY <1>1, <3>1 DEF Next, Step, vars, Start, LinksDone, AddrsDone, RunRefused, Verify,
                        SaveProvenance, ObserveFails, Retarget
    <3>3. ~Drift
      BY <1>1 DEF Drift, IInv, TypeOK
    <3> QED
      BY <3>1, <3>2, <3>3 DEF Run, RunFails
  <2>2. Fit(Head(ops), Commands, Range(want.routes), asked)
    BY <1>1, <2>1, PlannedHead DEF IInv, OpsOK
  <2>3. Lost(k, Head(ops), k', r)
    BY <1>1, <2>1, OwnCommand
  <2> DEFINE c == Head(ops)
  <2> HIDE DEF c
  <2>4. Fit(c, Commands, Range(want.routes), asked) /\ Lost(k, c, k', r)
    BY <2>2, <2>3 DEF c
  <2> QED
    BY <2>4 DEF Fit, Lost
<1>2. IInv /\ [Next]_vars => [others' = others => \A r \in k.routes \ k'.routes : Reason(r)]_vars
  BY <1>1
<1> QED
  BY <1>2, Invariant, PTL DEF Spec, ForeignKept

\* When Verify accepts, the kernel is what the configuration says, whatever failed
\* and whatever others did in the middle of the Apply; and no managed route that is
\* no longer desired is left over.
THEOREM VerifyIsSound == Spec => VerifiedMeans
<1> DEFINE NoStale == \A r \in Range(prov) : HasRoute(k.routes, r) => desiredHasRoute(want, r)
<1>1. ASSUME IInv, Serving, Verified(want), ops = <<>>
      PROVE  (CheckInterfaces(want, k) => Means(want)) /\ NoStale
  <2>1. want \in Targets /\ IsList(prov) /\ GoodLinks(k.links) /\ IsFiniteSet(k.addrs)
    BY <1>1, ConsistentParts DEF IInv, TypeOK, OpsOK, GoodRest
  <2>2. /\ PlanLinks(want, k) = <<>>
        /\ \A dev \in AddrDevs(want) : PlanAddrsOf(dev, want, k) = <<>>
        /\ PlanRest(want, k, prov) = <<>>
    BY <1>1 DEF Verified
  <2>3. /\ PlanRoutes(want, k, prov) = <<>> /\ PlanFirewall(want, k) = <<>>
        /\ PlanServices(want, k) = <<>> /\ PlanQoS(want, k) = <<>>
    BY <2>1, <2>2, PlanRestNone
  <2>4. (\A r \in Range(want.routes) : HasRoute(k.routes, r)) /\ NoStale
    BY <2>1, <2>3, PlanRoutesNone
  <2>5. k.nft = want.nft
    BY <2>3, PlanFirewallNone
  <2>6. k.conf = want.conf /\ k.unit = Unit /\ Range(want.wg) \subseteq k.wg
    BY <2>1, <2>3, PlanServicesNone
  <2>7. \A q \in Range(want.tc) : HasLink(want.links, q.dev) => q \in k.tc
    BY <2>1, <2>3, PlanQoSNone
  <2>8. /\ Range(want.addrs) \subseteq k.addrs
        /\ \A p \in k.addrs : p[1] \in want.drop => p \in Range(want.addrs)
    BY <2>1, <2>2, PlanAddrsNone
  <2>9. faults = 0 => k.service = want.conf
    BY <1>1, <2>6, NothingLeft DEF Serving
  <2>10. ASSUME CheckInterfaces(want, k) PROVE Means(want)
    <3>1. /\ \A l \in Range(want.links) : LinkIs(l, k.links)
          /\ \A x \in Range(k.links) :
               x.type \in managedKinds => \E l \in Range(want.links) : l.name = x.name
      BY <2>1, <2>2, <2>10, PlanLinksNone
    <3>2. \A l \in Range(want.links) : \E x \in Range(k.links) :
            /\ x.name = l.name /\ x.master = l.master /\ x.up
            /\ l.type # "ether" => x.type \in {l.type, "ether"}
      BY <3>1, Zenon DEF LinkIs
    <3> QED
      BY <2>4, <2>5, <2>6, <2>7, <2>8, <2>9, <3>1, <3>2, Zenon DEF Means
  <2> QED
    BY <2>4, <2>10
<1>2. ASSUME IInv, Serving, [Next]_vars, pc = "rest", pc' = "save"
      PROVE  (CheckInterfaces(want, k) => Means(want)) /\ NoStale
  <2>1. Verified(want) /\ ops = <<>>
    <3>1. ~UNCHANGED vars /\ pc' # pc
      BY <1>2 DEF vars
    <3>2. Verify
      <4>1. ~Start /\ ~LinksDone /\ ~AddrsDone /\ ~Run /\ ~SaveProvenance /\ ~Retarget /\ ~Drift
        BY <1>2 DEF Start, LinksDone, AddrsDone, Run, SaveProvenance, Retarget, Drift
      <4>2. ~RunRefused /\ ~RunFails /\ ~ObserveFails
        BY <1>2 DEF RunRefused, RunFails, ObserveFails, Returns
      <4> QED
        BY <1>2, <3>1, <4>1, <4>2 DEF Next, Step
    <3> QED
      BY <1>2, <3>2 DEF Verify, Returns
  <2> QED
    BY <1>1, <1>2, <2>1
<1>3. IInv /\ Serving /\ [Next]_vars =>
        [pc = "rest" /\ pc' = "save" =>
           /\ CheckInterfaces(want, k) => Means(want)
           /\ \A r \in Range(prov) : HasRoute(k.routes, r) => desiredHasRoute(want, r)]_vars
  BY <1>2
<1> QED
  BY <1>3, Invariant, ServingInvariant, PTL DEF Spec, VerifiedMeans

-----------------------------------------------------------------------------
(* What BuildWith makes *)

\* One element or two.
LEMMA OneOrTwo ==
  ASSUME NEW a, NEW b
  PROVE  /\ IsList(<<a>>) /\ Range(<<a>>) = {a}
         /\ IsList(<<a, b>>) /\ Range(<<a, b>>) = {a, b}
         /\ IsList(<<>>) /\ Range(<<>>) = {}
<1>1. /\ <<a>> \in Seq({a, b}) /\ Len(<<a>>) = 1 /\ <<a>>[1] = a
      /\ <<a, b>> \in Seq({a, b}) /\ Len(<<a, b>>) = 2 /\ <<a, b>>[1] = a /\ <<a, b>>[2] = b
      /\ <<>> \in Seq({a, b})
  OBVIOUS
<1>2. IsList(<<a>>) /\ IsList(<<a, b>>) /\ IsList(<<>>)
  BY <1>1, SeqIsList
<1>3. Range(<<a>>) = {<<a>>[i] : i \in 1..1} /\ Range(<<a, b>>) = {<<a, b>>[i] : i \in 1..2}
  BY <1>1 DEF Range
<1>4. Range(<<>>) = {}
  BY DEF Range
<1> QED
  BY <1>1, <1>2, <1>3, <1>4

\* One list after the other.
LEMMA BothLists ==
  ASSUME NEW s, IsList(s), NEW t, IsList(t)
  PROVE  IsList(s \o t) /\ Range(s \o t) = Range(s) \cup Range(t)
<1> DEFINE C == Range(s) \cup Range(t)
<1>1. s \in Seq(C) /\ t \in Seq(C)
  <2>1. s \in Seq(Range(s)) /\ t \in Seq(Range(t)) /\ Range(s) \subseteq C /\ Range(t) \subseteq C
    BY ListFacts
  <2> QED
    BY <2>1
<1>2. s \o t \in Seq(C)
  BY <1>1, ConcatProperties
<1>3. IsList(s \o t)
  BY <1>2, SeqIsList
<1>4. Range(s \o t) = Range(s) \cup Range(t)
  <2> HIDE DEF C
  <2> QED
    BY <1>1, RangeConcatenation
<1> QED
  BY <1>3, <1>4

\* One value for each element.
LEMMA MapList ==
  ASSUME NEW s, IsList(s), NEW t, t = [i \in DOMAIN s |-> t[i]]
  PROVE  /\ IsList(t)
         /\ \A i \in DOMAIN s : t[i] \in Range(t)
         /\ \A e \in Range(t) : \E i \in DOMAIN s : e = t[i]
<1>1. DOMAIN s = 1..Len(s) /\ Len(s) \in Nat
  BY ListFacts
<1>2. IsList(t)
  BY <1>1, ListIs
<1> QED
  BY <1>2 DEF Range

\* What is flattened has the elements of its lists.
LEMMA FlattenedRange ==
  ASSUME NEW C, NEW ss \in Seq(Seq(C))
  PROVE  Range(FlattenSeq(ss)) = UNION {Range(ss[i]) : i \in 1..Len(ss)}
<1> DEFINE n == Len(ss)
           U(m) == UNION {Range(ss[i]) : i \in 1..m}
<1>1. n \in Nat /\ \A m \in 1..n : ss[m] \in Seq(C)
  BY LenProperties
<1>2. CASE ss = <<>>
  <2>1. FlattenSeq(ss) = ss /\ Len(ss) = 0
    BY <1>2 DEF FlattenSeq
  <2> QED
    BY <1>2, <2>1 DEF Range
<1>3. CASE ss # <<>>
  <2>1. n \in 1..n
    BY <1>1, <1>3, EmptySeq
  <2>2. PICK f : Flattens(f, ss, C)
    BY <1>3, Flattening
  <2>3. /\ FlattenSeq(ss) = f[n]
        /\ \A m \in 1..n : f[m] \in Seq(C) /\ f[m] = IF m = 1 THEN ss[m] ELSE f[m - 1] \o ss[m]
    BY <2>2 DEF Flattens
  <2> DEFINE G == {m \in 0..n : m # 0 => Range(f[m]) = U(m)}
  <2>4. 0 \in G
    BY <1>1
  <2>5. ASSUME NEW m \in 0..(n - 1), m \in G PROVE m + 1 \in G
    <3>1. m + 1 \in 1..n /\ (m + 1) - 1 = m /\ m + 1 \in 0..n /\ m \in Nat
      BY <1>1
    <3>2. CASE m = 0
      <4>1. f[m + 1] = ss[m + 1]
        BY <2>3, <3>1, <3>2
      <4>2. U(m + 1) = Range(ss[m + 1])
        <5>1. 1..(m + 1) = {m + 1}
          BY <3>2
        <5> QED
          BY <5>1
      <4> QED
        BY <3>1, <4>1, <4>2
    <3>3. CASE m # 0
      <4>1. m \in 1..n /\ m + 1 # 1
        BY <3>1, <3>3
      <4>2. f[m + 1] = f[m] \o ss[m + 1] /\ f[m] \in Seq(C) /\ ss[m + 1] \in Seq(C)
        BY <1>1, <2>3, <3>1, <4>1
      <4>3. Range(f[m + 1]) = Range(f[m]) \cup Range(ss[m + 1])
        BY <4>2, RangeConcatenation
      <4>4. 1..(m + 1) = (1..m) \cup {m + 1}
        BY <3>1
      <4>5. U(m + 1) = U(m) \cup Range(ss[m + 1])
        BY <4>4
      <4>6. Range(f[m]) = U(m)
        BY <2>5, <3>3
      <4> QED
        BY <3>1, <4>3, <4>5, <4>6
    <3> QED
      BY <3>2, <3>3
  <2>6. \A m \in 0..n : m \in G
    <3> HIDE DEF G, n
    <3> QED
      BY <1>1, <2>4, <2>5, Climb
  <2>7. n \in G /\ n # 0
    <3> HIDE DEF G, n
    <3> QED
      BY <1>1, <2>1, <2>6
  <2> QED
    BY <2>3, <2>7
<1> QED
  BY <1>2, <1>3

\* A list for each element, and all of them as one.
LEMMA FlatMapList ==
  ASSUME NEW s, IsList(s), NEW ss, ss = [i \in DOMAIN s |-> ss[i]],
         \A i \in DOMAIN s : IsList(ss[i])
  PROVE  /\ IsList(FlattenSeq(ss))
         /\ \A i \in DOMAIN s : Range(ss[i]) \subseteq Range(FlattenSeq(ss))
         /\ \A e \in Range(FlattenSeq(ss)) : \E i \in DOMAIN s : e \in Range(ss[i])
<1> DEFINE C == UNION {Range(ss[i]) : i \in DOMAIN s}
<1>1. DOMAIN s = 1..Len(s) /\ Len(s) \in Nat
  BY ListFacts
<1>2. ASSUME NEW i \in DOMAIN s PROVE ss[i] \in Seq(C)
  <2> DEFINE e == ss[i]
  <2>1. IsList(e) /\ Range(e) \subseteq C
    OBVIOUS
  <2> HIDE DEF e, C
  <2>2. e \in Seq(Range(e))
    BY <2>1, ListFacts
  <2>3. e \in Seq(C)
    BY <2>1, <2>2
  <2> QED
    BY <2>3 DEF e
<1>3. ss \in [1..Len(s) -> Seq(C)]
  BY <1>1, <1>2
<1>4. ss \in Seq(Seq(C)) /\ Len(ss) = Len(s)
  <2> HIDE DEF C
  <2> QED
    BY <1>1, <1>3
<1>5. FlattenSeq(ss) \in Seq(C) /\ Range(FlattenSeq(ss)) = UNION {Range(ss[i]) : i \in 1..Len(ss)}
  BY <1>4, Flattened, FlattenedRange
<1>6. IsList(FlattenSeq(ss))
  BY <1>5, SeqIsList
<1> QED
  BY <1>1, <1>4, <1>5, <1>6

\* A link as a desired state has them.
Proper(l) == IsLink(l) /\ l.up

LEMMA LinkProper ==
  ASSUME NEW name, NEW type, NEW parent, NEW master, type = "vlan" \/ parent = None
  PROVE  Proper(Link(name, type, parent, master)) /\ Link(name, type, parent, master).name = name
  BY DEF Proper, IsLink, Link

\* add drops links, but no name.
LEMMA DistinctNames ==
  ASSUME NEW links, IsList(links)
  PROVE  /\ IsList(Distinct(links)) /\ Range(Distinct(links)) \subseteq Range(links)
         /\ \A name : HasLink(links, name) => HasLink(Distinct(links), name)
<1> DEFINE n == Len(links)
           First(i) == \A j \in 1..(i - 1) : links[j].name # links[i].name
           ss == [i \in DOMAIN links |-> IF First(i) THEN <<links[i]>> ELSE <<>>]
<1>1. n \in Nat /\ DOMAIN links = 1..n /\ \A i \in 1..n : links[i] \in Range(links)
  BY ListFacts
<1>2. Distinct(links) = FlattenSeq(ss)
  BY DEF Distinct, FlatMap, Map
<1>3. ASSUME NEW i \in DOMAIN links
      PROVE  /\ IsList(ss[i]) /\ Range(ss[i]) \subseteq {links[i]}
             /\ First(i) => Range(ss[i]) = {links[i]}
  <2>1. ss[i] = IF First(i) THEN <<links[i]>> ELSE <<>>
    OBVIOUS
  <2> HIDE DEF First, ss
  <2> QED
    BY <2>1, OneOrTwo
<1>4. ss = [i \in DOMAIN links |-> ss[i]]
  OBVIOUS
<1>5. /\ IsList(FlattenSeq(ss))
      /\ \A i \in DOMAIN links : Range(ss[i]) \subseteq Range(FlattenSeq(ss))
      /\ \A e \in Range(FlattenSeq(ss)) : \E i \in DOMAIN links : e \in Range(ss[i])
  <2> HIDE DEF ss, First
  <2> QED
    BY <1>3, <1>4, FlatMapList
<1>6. ASSUME NEW name, HasLink(links, name) PROVE HasLink(Distinct(links), name)
  <2> DEFINE G == {m \in 0..n : \A i \in 1..m : links[i].name # name}
  <2>1. PICK i \in 1..n : First(i) /\ links[i].name = name
    <3> SUFFICES ASSUME \A i \in 1..n : ~(First(i) /\ links[i].name = name) PROVE FALSE
      OBVIOUS
    <3>1. 0 \in G
      BY <1>1
    <3>2. ASSUME NEW m \in 0..(n - 1), m \in G PROVE m + 1 \in G
      <4>1. m + 1 \in 1..n /\ (m + 1) - 1 = m /\ m + 1 \in 0..n /\ 1..(m + 1) = (1..m) \cup {m + 1}
        BY <1>1
      <4>2. \A j \in 1..m : links[j].name # name
        BY <3>2
      <4>3. links[m + 1].name # name
        BY <4>1, <4>2
      <4> QED
        BY <4>1, <4>2, <4>3
    <3>3. \A m \in 0..n : m \in G
      <4> HIDE DEF G, n
      <4> QED
        BY <1>1, <3>1, <3>2, Climb
    <3>4. n \in G
      BY <1>1, <3>3
    <3> QED
      BY <1>1, <1>6, <3>4 DEF HasLink
  <2>2. i \in DOMAIN links
    BY <1>1
  <2>3. links[i] \in Range(FlattenSeq(ss))
    <3> HIDE DEF ss, First
    <3> QED
      BY <1>3, <1>5, <2>1, <2>2
  <2> QED
    BY <1>2, <2>1, <2>3, HasLinkRange
<1>7. Range(FlattenSeq(ss)) \subseteq Range(links)
  <2> SUFFICES ASSUME NEW e \in Range(FlattenSeq(ss)) PROVE e \in Range(links)
    OBVIOUS
  <2>1. PICK i \in DOMAIN links : e \in Range(ss[i])
    BY <1>5
  <2>2. e \in {links[i]}
    BY <1>3, <2>1
  <2> QED
    BY <1>1, <2>2
<1> QED
  BY <1>2, <1>5, <1>6, <1>7

\* s is a list of proper links.
ProperList(s) == IsList(s) /\ \A l \in Range(s) : Proper(l)

LEMMA BothProper ==
  ASSUME NEW s, ProperList(s), NEW t, ProperList(t)
  PROVE  /\ ProperList(s \o t)
         /\ \A name : HasLink(s \o t, name) <=> HasLink(s, name) \/ HasLink(t, name)
<1>1. IsList(s \o t) /\ Range(s \o t) = Range(s) \cup Range(t)
  BY BothLists DEF ProperList
<1> QED
  BY <1>1, HasLinkRange DEF ProperList

\* The links of several parts of the configuration.
LEMMA AllProper ==
  ASSUME NEW s, IsList(s), NEW ss, ss = [i \in DOMAIN s |-> ss[i]],
         \A i \in DOMAIN s : ProperList(ss[i])
  PROVE  /\ ProperList(FlattenSeq(ss))
         /\ \A i \in DOMAIN s : \A name : HasLink(ss[i], name) => HasLink(FlattenSeq(ss), name)
<1>1. /\ IsList(FlattenSeq(ss))
      /\ \A i \in DOMAIN s : Range(ss[i]) \subseteq Range(FlattenSeq(ss))
      /\ \A e \in Range(FlattenSeq(ss)) : \E i \in DOMAIN s : e \in Range(ss[i])
  BY FlatMapList DEF ProperList
<1>2. ProperList(FlattenSeq(ss))
  BY <1>1 DEF ProperList
<1>3. ASSUME NEW i \in DOMAIN s, NEW name, HasLink(ss[i], name) PROVE HasLink(FlattenSeq(ss), name)
  BY <1>1, <1>3, HasLinkRange
<1> QED
  BY <1>2, <1>3

\* One link, or two.
LEMMA FewProper ==
  ASSUME NEW a, Proper(a), NEW b, Proper(b)
  PROVE  /\ ProperList(<<a>>) /\ HasLink(<<a>>, a.name)
         /\ ProperList(<<a, b>>) /\ HasLink(<<a, b>>, a.name)
         /\ ProperList(<<>>)
<1>1. /\ IsList(<<a>>) /\ Range(<<a>>) = {a}
      /\ IsList(<<a, b>>) /\ Range(<<a, b>>) = {a, b}
      /\ IsList(<<>>) /\ Range(<<>>) = {}
  BY OneOrTwo
<1>2. HasLink(<<a>>, a.name) /\ HasLink(<<a, b>>, a.name)
  BY <1>1, HasLinkRange
<1> QED
  BY <1>1, <1>2 DEF ProperList

\* A network without a link of its own is on the interface of a WAN.
LEMMA NetworkProper ==
  ASSUME NEW c, NEW n, IsList(n.members)
  PROVE  /\ ProperList(NetworkLinks(c, n))
         /\ HasLink(NetworkLinks(c, n), n.dev) \/ (n.vlan = None /\ physical(c, n.dev))
<1> DEFINE own == CASE n.vlan # None /\ n.vlan.routed -> <<Link(n.dev, "vlan", n.vlan.parent, None)>>
                    [] n.vlan # None /\ ~n.vlan.routed ->
                         <<Link(n.dev, "bridge", None, None),
                           Link(n.vlan.name, "vlan", n.vlan.parent, n.dev)>>
                    [] n.vlan = None /\ ~physical(c, n.dev) -> <<Link(n.dev, "bridge", None, None)>>
                    [] OTHER -> <<>>
           members == [i \in DOMAIN n.members |-> Link(n.members[i], "ether", None, n.dev)]
<1>1. NetworkLinks(c, n) = own \o members
  BY DEF NetworkLinks
<1>2. ProperList(members)
  <2>1. \A i \in DOMAIN n.members : Proper(members[i])
    BY LinkProper
  <2>2. members = [i \in DOMAIN n.members |-> members[i]]
    OBVIOUS
  <2> HIDE DEF members
  <2>3. IsList(members) /\ \A e \in Range(members) : \E i \in DOMAIN n.members : e = members[i]
    BY <2>2, MapList
  <2> QED
    BY <2>1, <2>3 DEF ProperList
<1> DEFINE bridge == Link(n.dev, "bridge", None, None)
           routed == Link(n.dev, "vlan", n.vlan.parent, None)
           port == Link(n.vlan.name, "vlan", n.vlan.parent, n.dev)
<1>3. /\ Proper(bridge) /\ Proper(routed) /\ Proper(port)
      /\ bridge.name = n.dev /\ routed.name = n.dev
  BY LinkProper
<1>4. /\ n.vlan # None /\ n.vlan.routed => own = <<routed>>
      /\ n.vlan # None /\ ~n.vlan.routed => own = <<bridge, port>>
      /\ n.vlan = None /\ ~physical(c, n.dev) => own = <<bridge>>
      /\ n.vlan = None /\ physical(c, n.dev) => own = <<>>
  OBVIOUS
<1> HIDE DEF own, members, bridge, routed, port
<1>5. ProperList(own) /\ (HasLink(own, n.dev) \/ (n.vlan = None /\ physical(c, n.dev)))
  <2>1. \/ n.vlan # None /\ n.vlan.routed
        \/ n.vlan # None /\ ~n.vlan.routed
        \/ n.vlan = None /\ ~physical(c, n.dev)
        \/ n.vlan = None /\ physical(c, n.dev)
    OBVIOUS
  <2>2. /\ ProperList(<<routed>>) /\ HasLink(<<routed>>, n.dev)
        /\ ProperList(<<bridge>>) /\ HasLink(<<bridge>>, n.dev)
        /\ ProperList(<<bridge, port>>) /\ HasLink(<<bridge, port>>, n.dev)
        /\ ProperList(<<>>)
    BY <1>3, FewProper
  <2> QED
    BY <1>4, <2>1, <2>2
<1> QED
  BY <1>1, <1>2, <1>5, BothProper

\* Links are proper, and every interface with an address has one.
LEMMA LinksProper ==
  ASSUME NEW c, IsConfig(c)
  PROVE  /\ ProperList(DesiredLinks(c))
         /\ \A i \in DOMAIN c.wans : HasLink(DesiredLinks(c), c.wans[i].dev)
         /\ \A i \in DOMAIN c.networks : HasLink(DesiredLinks(c), c.networks[i].dev)
         /\ \A i \in DOMAIN c.tunnels : HasLink(DesiredLinks(c), c.tunnels[i].dev)
<1> DEFINE wans == [i \in DOMAIN c.wans |-> <<Link(c.wans[i].dev, "ether", None, None)>>]
           nets == [i \in DOMAIN c.networks |-> NetworkLinks(c, c.networks[i])]
           tunnels == [i \in DOMAIN c.tunnels |-> <<Link(c.tunnels[i].dev, "wireguard", None, None)>>]
           s == FlattenSeq(wans)
           t == FlattenSeq(nets)
           u == FlattenSeq(tunnels)
<1>1. DesiredLinks(c) = Distinct(s \o t \o u)
  BY DEF DesiredLinks, FlatMap, Map
<1>2. IsList(c.wans) /\ IsList(c.networks) /\ IsList(c.tunnels)
  BY DEF IsConfig
<1>3. /\ wans = [i \in DOMAIN c.wans |-> wans[i]]
      /\ nets = [i \in DOMAIN c.networks |-> nets[i]]
      /\ tunnels = [i \in DOMAIN c.tunnels |-> tunnels[i]]
  OBVIOUS
<1>4. ASSUME NEW i \in DOMAIN c.wans
      PROVE  ProperList(wans[i]) /\ HasLink(wans[i], c.wans[i].dev)
  <2> DEFINE l == Link(c.wans[i].dev, "ether", None, None)
  <2>1. Proper(l) /\ l.name = c.wans[i].dev
    BY LinkProper
  <2>2. wans[i] = <<l>>
    OBVIOUS
  <2> HIDE DEF l, wans
  <2> QED
    BY <2>1, <2>2, FewProper
<1>5. ASSUME NEW i \in DOMAIN c.tunnels
      PROVE  ProperList(tunnels[i]) /\ HasLink(tunnels[i], c.tunnels[i].dev)
  <2> DEFINE l == Link(c.tunnels[i].dev, "wireguard", None, None)
  <2>1. Proper(l) /\ l.name = c.tunnels[i].dev
    BY LinkProper
  <2>2. tunnels[i] = <<l>>
    OBVIOUS
  <2> HIDE DEF l, tunnels
  <2> QED
    BY <2>1, <2>2, FewProper
<1>6. ASSUME NEW i \in DOMAIN c.networks
      PROVE  /\ ProperList(nets[i])
             /\ HasLink(nets[i], c.networks[i].dev) \/ physical(c, c.networks[i].dev)
  <2>1. c.networks[i] \in Range(c.networks)
    BY DEF Range
  <2>2. IsList(c.networks[i].members)
    BY <2>1 DEF IsConfig
  <2>3. nets[i] = NetworkLinks(c, c.networks[i])
    OBVIOUS
  <2> HIDE DEF nets
  <2> QED
    BY <2>2, <2>3, NetworkProper
<1> HIDE DEF wans, nets, tunnels
<1>7. /\ ProperList(s)
      /\ \A i \in DOMAIN c.wans : \A name : HasLink(wans[i], name) => HasLink(s, name)
  BY <1>2, <1>3, <1>4, AllProper
<1>8. /\ ProperList(t)
      /\ \A i \in DOMAIN c.networks : \A name : HasLink(nets[i], name) => HasLink(t, name)
  BY <1>2, <1>3, <1>6, AllProper
<1>9. /\ ProperList(u)
      /\ \A i \in DOMAIN c.tunnels : \A name : HasLink(tunnels[i], name) => HasLink(u, name)
  BY <1>2, <1>3, <1>5, AllProper
<1> HIDE DEF s, t, u
<1>10. /\ ProperList(s \o t)
       /\ \A name : HasLink(s \o t, name) <=> HasLink(s, name) \/ HasLink(t, name)
  BY <1>7, <1>8, BothProper
<1> DEFINE all == s \o t \o u
<1>11. /\ ProperList(all)
       /\ \A name : HasLink(s, name) \/ HasLink(t, name) \/ HasLink(u, name) => HasLink(all, name)
  BY <1>9, <1>10, BothProper
<1> HIDE DEF all
<1>12. /\ ProperList(DesiredLinks(c))
       /\ \A name : HasLink(all, name) => HasLink(DesiredLinks(c), name)
  BY <1>1, <1>11, DistinctNames DEF all, ProperList
<1>13. ASSUME NEW i \in DOMAIN c.wans PROVE HasLink(DesiredLinks(c), c.wans[i].dev)
  BY <1>4, <1>7, <1>11, <1>12
<1>14. ASSUME NEW i \in DOMAIN c.tunnels PROVE HasLink(DesiredLinks(c), c.tunnels[i].dev)
  BY <1>5, <1>9, <1>11, <1>12
<1>15. ASSUME NEW i \in DOMAIN c.networks PROVE HasLink(DesiredLinks(c), c.networks[i].dev)
  <2>1. CASE HasLink(nets[i], c.networks[i].dev)
    BY <1>8, <1>11, <1>12, <2>1
  <2>2. CASE physical(c, c.networks[i].dev)
    BY <1>13, <2>2 DEF physical
  <2> QED
    BY <1>6, <2>1, <2>2
<1> QED
  BY <1>12, <1>13, <1>14, <1>15

\* t is a list of addresses: each is on an interface of s, and each of these has one.
Placed(t, s) ==
    /\ IsList(t)
    /\ \A p \in Range(t) : \E i \in DOMAIN s : p[1] = s[i].dev
    /\ \A i \in DOMAIN s : \E p \in Range(t) : p[1] = s[i].dev

LEMMA MapPlaced ==
  ASSUME NEW s, IsList(s), NEW t, t = [i \in DOMAIN s |-> t[i]],
         \A i \in DOMAIN s : t[i][1] = s[i].dev
  PROVE  Placed(t, s)
  BY MapList DEF Placed

LEMMA FlatPlaced ==
  ASSUME NEW s, IsList(s), NEW ss, ss = [i \in DOMAIN s |-> ss[i]],
         \A i \in DOMAIN s : /\ IsList(ss[i]) /\ Range(ss[i]) # {}
                              /\ \A p \in Range(ss[i]) : p[1] = s[i].dev
  PROVE  Placed(FlattenSeq(ss), s)
<1>1. /\ IsList(FlattenSeq(ss))
      /\ \A i \in DOMAIN s : Range(ss[i]) \subseteq Range(FlattenSeq(ss))
      /\ \A e \in Range(FlattenSeq(ss)) : \E i \in DOMAIN s : e \in Range(ss[i])
  BY FlatMapList
<1>2. ASSUME NEW i \in DOMAIN s PROVE \E p \in Range(FlattenSeq(ss)) : p[1] = s[i].dev
  <2>1. PICK p \in Range(ss[i]) : p[1] = s[i].dev
    OBVIOUS
  <2> QED
    BY <1>1, <2>1
<1>3. ASSUME NEW p \in Range(FlattenSeq(ss)) PROVE \E i \in DOMAIN s : p[1] = s[i].dev
  BY <1>1
<1> QED
  BY <1>1, <1>2, <1>3 DEF Placed

\* The addresses of one network.
LEMMA SubnetsPlaced ==
  ASSUME NEW dev, NEW sub, IsList(sub), sub # <<>>,
         NEW t, t = [j \in DOMAIN sub |-> t[j]], \A j \in DOMAIN sub : t[j][1] = dev
  PROVE  IsList(t) /\ Range(t) # {} /\ \A p \in Range(t) : p[1] = dev
<1>1. /\ IsList(t) /\ \A j \in DOMAIN sub : t[j] \in Range(t)
      /\ \A p \in Range(t) : \E j \in DOMAIN sub : p = t[j]
  BY MapList
<1>2. 1 \in DOMAIN sub
  <2>1. sub \in Seq(Range(sub)) /\ Len(sub) \in Nat /\ DOMAIN sub = 1..Len(sub)
    BY ListFacts
  <2>2. Len(sub) # 0
    BY <2>1, EmptySeq
  <2> QED
    BY <2>1, <2>2
<1>3. Range(t) # {}
  BY <1>1, <1>2
<1>4. ASSUME NEW p \in Range(t) PROVE p[1] = dev
  <2>1. PICK j \in DOMAIN sub : p = t[j]
    BY <1>1
  <2> QED
    BY <2>1
<1> QED
  BY <1>1, <1>3, <1>4

\* Every address is on one of the links, and every device that loses its other
\* addresses has one.
LEMMA AddrsPlaced ==
  ASSUME NEW c, IsConfig(c), NEW leases
  PROVE  /\ IsList(DesiredAddrs(c, leases))
         /\ \A p \in Range(DesiredAddrs(c, leases)) : HasLink(DesiredLinks(c), p[1])
         /\ \A dev \in DropAddrs(c, leases) : \E p \in Range(DesiredAddrs(c, leases)) : p[1] = dev
<1> DEFINE static == StaticWans(c)
           leased == Leased(c, leases)
           nets == c.networks
           tunnels == c.tunnels
           w == [i \in DOMAIN static |-> <<static[i].dev, static[i].addr>>]
           ss == [i \in DOMAIN nets |->
                    [j \in DOMAIN nets[i].subnets |-> <<nets[i].dev, nets[i].subnets[j]>>]]
           n == FlattenSeq(ss)
           t == [i \in DOMAIN tunnels |-> <<tunnels[i].dev, tunnels[i].addr>>]
           r == [i \in DOMAIN leased |-> <<leased[i].dev, leases[leased[i].dev].addr>>]
           has(dev) == HasLink(DesiredLinks(c), dev)
<1>1. DesiredAddrs(c, leases) = w \o n \o t \o r
  BY DEF DesiredAddrs, RuntimeAddrs, FlatMap, Map
<1>2. DropAddrs(c, leases) \subseteq
        {static[i].dev : i \in DOMAIN static} \cup {nets[i].dev : i \in DOMAIN nets}
          \cup {tunnels[i].dev : i \in DOMAIN tunnels} \cup {leased[i].dev : i \in DOMAIN leased}
  BY DEF DropAddrs
<1>3. IsList(c.wans) /\ IsList(nets) /\ IsList(tunnels)
  BY DEF IsConfig
<1>4. /\ IsList(static) /\ Range(static) \subseteq Range(c.wans)
      /\ IsList(leased) /\ Range(leased) \subseteq Range(c.wans)
  BY <1>3, SelectedList DEF StaticWans, Leased
<1>5. \A x \in Range(c.wans) : has(x.dev)
  BY LinksProper DEF Range
<1>6. /\ \A i \in DOMAIN static : has(static[i].dev)
      /\ \A i \in DOMAIN leased : has(leased[i].dev)
      /\ \A i \in DOMAIN nets : has(nets[i].dev)
      /\ \A i \in DOMAIN tunnels : has(tunnels[i].dev)
  BY <1>4, <1>5, LinksProper DEF Range
<1>7. \A i \in DOMAIN nets : IsList(nets[i].subnets) /\ nets[i].subnets # <<>>
  BY DEF IsConfig, Range
<1> HIDE DEF static, leased, nets, tunnels
<1>8. Placed(w, static)
  <2>1. w = [i \in DOMAIN static |-> w[i]] /\ \A i \in DOMAIN static : w[i][1] = static[i].dev
    OBVIOUS
  <2> HIDE DEF w
  <2> QED
    BY <1>4, <2>1, MapPlaced
<1>9. Placed(t, tunnels)
  <2>1. t = [i \in DOMAIN tunnels |-> t[i]] /\ \A i \in DOMAIN tunnels : t[i][1] = tunnels[i].dev
    OBVIOUS
  <2> HIDE DEF t
  <2> QED
    BY <1>3, <2>1, MapPlaced
<1>10. Placed(r, leased)
  <2>1. r = [i \in DOMAIN leased |-> r[i]] /\ \A i \in DOMAIN leased : r[i][1] = leased[i].dev
    OBVIOUS
  <2> HIDE DEF r
  <2> QED
    BY <1>4, <2>1, MapPlaced
<1>11. Placed(n, nets)
  <2>1. /\ ss = [i \in DOMAIN nets |-> ss[i]]
        /\ \A i \in DOMAIN nets :
             ss[i] = [j \in DOMAIN nets[i].subnets |-> <<nets[i].dev, nets[i].subnets[j]>>]
    OBVIOUS
  <2> HIDE DEF ss
  <2>2. ASSUME NEW i \in DOMAIN nets
        PROVE  /\ IsList(ss[i]) /\ Range(ss[i]) # {}
               /\ \A p \in Range(ss[i]) : p[1] = nets[i].dev
    <3> DEFINE sub == nets[i].subnets
               e == ss[i]
               dev == nets[i].dev
    <3>1. IsList(sub) /\ sub # <<>>
      BY <1>7
    <3>2. e = [j \in DOMAIN sub |-> e[j]] /\ \A j \in DOMAIN sub : e[j][1] = dev
      BY <2>1
    <3> HIDE DEF e, sub, dev
    <3>3. IsList(e) /\ Range(e) # {} /\ \A p \in Range(e) : p[1] = dev
      BY <3>1, <3>2, SubnetsPlaced
    <3> QED
      BY <3>3 DEF e, dev
  <2> QED
    BY <1>3, <2>1, <2>2, FlatPlaced
<1> HIDE DEF w, n, t, r
<1>12. IsList(w \o n) /\ Range(w \o n) = Range(w) \cup Range(n)
  BY <1>8, <1>11, BothLists DEF Placed
<1>13. IsList((w \o n) \o t) /\ Range((w \o n) \o t) = Range(w) \cup Range(n) \cup Range(t)
  BY <1>9, <1>12, BothLists DEF Placed
<1>14. /\ IsList(((w \o n) \o t) \o r)
       /\ Range(((w \o n) \o t) \o r) = Range(w) \cup Range(n) \cup Range(t) \cup Range(r)
  BY <1>10, <1>13, BothLists DEF Placed
<1> DEFINE A == Range(DesiredAddrs(c, leases))
<1>15. IsList(DesiredAddrs(c, leases)) /\ A = Range(w) \cup Range(n) \cup Range(t) \cup Range(r)
  BY <1>1, <1>14
<1> HIDE DEF A, has
<1>16. ASSUME NEW p \in A PROVE has(p[1])
  BY <1>6, <1>8, <1>9, <1>10, <1>11, <1>15 DEF Placed
<1>17. ASSUME NEW dev \in DropAddrs(c, leases) PROVE \E p \in A : p[1] = dev
  <2>1. \/ \E i \in DOMAIN static : dev = static[i].dev
        \/ \E i \in DOMAIN nets : dev = nets[i].dev
        \/ \E i \in DOMAIN tunnels : dev = tunnels[i].dev
        \/ \E i \in DOMAIN leased : dev = leased[i].dev
    BY <1>2
  <2> QED
    BY <1>8, <1>9, <1>10, <1>11, <1>15, <2>1 DEF Placed
<1> QED
  BY <1>15, <1>16, <1>17 DEF A, has

\* Routes are a list.
LEMMA RoutesListed ==
  ASSUME NEW c, IsConfig(c), NEW leases
  PROVE  IsList(DesiredRoutes(c, leases))
<1> DEFINE static == StaticWans(c)
           leased == Leased(c, leases)
           nets(t) == Among(t.allowed, Range(t.allowed) \ {Default})
           w == [i \in DOMAIN static |-> Route(Default, static[i].gw, static[i].dev, Metric(static[i].metric))]
           peers == [i \in DOMAIN c.tunnels |->
                       [j \in DOMAIN nets(c.tunnels[i]) |->
                          Route(nets(c.tunnels[i])[j], None, c.tunnels[i].dev, c.tunnels[i].table)]]
           routes == [i \in DOMAIN c.routes |->
                        Route(c.routes[i].dst, c.routes[i].via, c.routes[i].dev, Metric(c.routes[i].metric))]
           gws == [i \in DOMAIN leased |->
                     IF leases[leased[i].dev].gw = None THEN <<>>
                     ELSE <<Route(Default, leases[leased[i].dev].gw, leased[i].dev, Metric(leased[i].metric))>>]
<1>1. DesiredRoutes(c, leases) = w \o FlattenSeq(peers) \o routes \o FlattenSeq(gws)
  BY DEF DesiredRoutes, RuntimeRoutes, FlatMap, Map
<1>2. IsList(c.wans) /\ IsList(c.tunnels) /\ IsList(c.routes)
  BY DEF IsConfig
<1>3. IsList(static) /\ IsList(leased)
  BY <1>2, SelectedList DEF StaticWans, Leased
<1> HIDE DEF static, leased
<1>4. IsList(w)
  <2>1. w = [i \in DOMAIN static |-> w[i]]
    OBVIOUS
  <2> HIDE DEF w
  <2> QED
    BY <1>3, <2>1, MapList
<1>5. IsList(routes)
  <2>1. routes = [i \in DOMAIN c.routes |-> routes[i]]
    OBVIOUS
  <2> HIDE DEF routes
  <2> QED
    BY <1>2, <2>1, MapList
<1>6. IsList(FlattenSeq(peers))
  <2>1. peers = [i \in DOMAIN c.tunnels |-> peers[i]]
    OBVIOUS
  <2>2. ASSUME NEW i \in DOMAIN c.tunnels PROVE IsList(peers[i])
    <3> DEFINE s == nets(c.tunnels[i])
               p == peers[i]
    <3>1. c.tunnels[i] \in Range(c.tunnels)
      BY DEF Range
    <3>2. IsList(s)
      BY <3>1, SelectedList DEF IsConfig
    <3>3. p = [j \in DOMAIN s |-> p[j]]
      OBVIOUS
    <3> HIDE DEF p, s
    <3>4. IsList(p)
      BY <3>2, <3>3, MapList
    <3> QED
      BY <3>4 DEF p
  <2> HIDE DEF peers
  <2> QED
    BY <1>2, <2>1, <2>2, FlatMapList
<1>7. IsList(FlattenSeq(gws))
  <2>1. gws = [i \in DOMAIN leased |-> gws[i]]
    OBVIOUS
  <2>2. ASSUME NEW i \in DOMAIN leased PROVE IsList(gws[i])
    <3> DEFINE x == Route(Default, leases[leased[i].dev].gw, leased[i].dev, Metric(leased[i].metric))
    <3>1. gws[i] = <<>> \/ gws[i] = <<x>>
      OBVIOUS
    <3> HIDE DEF x, gws
    <3> QED
      BY <3>1, OneOrTwo
  <2> HIDE DEF gws
  <2> QED
    BY <1>3, <2>1, <2>2, FlatMapList
<1> HIDE DEF w, peers, routes, gws
<1>8. IsList(w \o FlattenSeq(peers))
  BY <1>4, <1>6, BothLists
<1>9. IsList((w \o FlattenSeq(peers)) \o routes)
  BY <1>5, <1>8, BothLists
<1> QED
  BY <1>1, <1>7, <1>9, BothLists

\* BuildWith makes a desired state of every valid configuration and any leases:
\* what Engine assumes of its targets holds of what it is given.
THEOREM BuildIsDesired ==
  ASSUME NEW c, IsConfig(c), NEW leases
  PROVE  IsDesired(BuildWith(c, leases))
<1> DEFINE wg == [i \in DOMAIN c.tunnels |-> [dev |-> c.tunnels[i].dev, conf |-> c.tunnels[i].conf]]
<1>1. PICK d : d = BuildWith(c, leases)
  OBVIOUS
<1>2. /\ d.links = DesiredLinks(c) /\ d.addrs = DesiredAddrs(c, leases)
      /\ d.drop = DropAddrs(c, leases) /\ d.routes = DesiredRoutes(c, leases)
      /\ d.wg = wg /\ d.tc = c.policies
  BY <1>1 DEF BuildWith
<1>3. IsList(wg)
  <2>1. wg = [i \in DOMAIN c.tunnels |-> wg[i]] /\ IsList(c.tunnels)
    BY DEF IsConfig
  <2> HIDE DEF wg
  <2> QED
    BY <2>1, MapList
<1> HIDE DEF wg
<1>4. IsList(d.links) /\ \A l \in Range(d.links) : IsLink(l) /\ l.up
  BY <1>2, LinksProper DEF ProperList, Proper
<1>5. /\ IsList(d.addrs) /\ \A a \in Range(d.addrs) : HasLink(d.links, a[1])
      /\ \A dev \in d.drop : \E a \in Range(d.addrs) : a[1] = dev
  BY <1>2, AddrsPlaced
<1>6. IsList(d.routes) /\ IsList(d.wg) /\ IsList(d.tc)
  BY <1>2, <1>3, RoutesListed DEF IsConfig
<1> QED
  BY <1>1, <1>4, <1>5, <1>6 DEF IsDesired

=============================================================================
