-------------------------- MODULE ConfigEdit_proofs --------------------------
(***************************************************************************)
(* What is proved of ConfigEdit for any number of requests, identifiers,   *)
(* edits and windows.                                                      *)
(***************************************************************************)
EXTENDS ConfigEdit, SequenceTheorems, FiniteSetTheorems, WellFoundedInduction, TLAPS

-----------------------------------------------------------------------------
(* The inductive invariant *)

Working == {"edit", "validate", "check", "apply"}
RequestState == [pc : {"idle", "edit", "validate", "check", "apply", "clear"},
                 s : Slices \cup {Nil}, copy : BOOLEAN]
Cells(k) == Items(k) \cup {Room}

\* A slice of an array of a heap, within its length and filled with items.
InHeap(h, s) ==
    /\ s \in Slices /\ s.len <= Len(h[s.a])
    /\ \A i \in 1..s.len : h[s.a][i] \in Items(kind)

Typed ==
    /\ kind \in Kinds
    /\ active \in Slices /\ commit \in Slices \cup {Nil}
    /\ pend \in [open : BOOLEAN, txn : BOOLEAN, s : Slices \cup {Nil}]
    /\ req \in [Requests -> RequestState]
    /\ overtaken \subseteq Requests /\ shared \in BOOLEAN
    /\ edits \in 0..MaxEdits /\ windows \in 0..MaxWindows

HeapOK ==
    /\ heap \in [Arrays -> Seq(Cells(kind))]
    /\ \A s \in Held \ {Nil} : InHeap(heap, s)

DiskOK == disk \in Seq(Items(kind)) /\ Len(disk) <= MaxLen

\* Whoever works on a configuration has one.
Present ==
    /\ pend.open => pend.s # Nil
    /\ \A r \in Requests : req[r].pc \in Working => req[r].s # Nil

\* Content and Valid, of a heap and a kind.
ListIn(h, s) == IF s = Nil THEN <<>> ELSE SubSeq(h[s.a], 1, s.len)
ValidFor(k, list) ==
    /\ \A i \in 1..Len(list) : list[i].v # Bad
    /\ k \in {"rule", "route"} => Unique(list, "id")
    /\ k \in {"network", "tunnel"} => Unique(list, "name")

\* SoundUnlessShared, and that a request has passed Validate when it has come
\* further.
Sound ==
    ~shared =>
        /\ ValidFor(kind, ListIn(heap, active)) /\ ValidFor(kind, ListIn(heap, pend.s))
        /\ ValidFor(kind, ListIn(heap, commit)) /\ ValidFor(kind, disk)
        /\ disk = ListIn(heap, active)
        /\ \A r \in Requests :
              req[r].pc \in {"check", "apply"} => ValidFor(kind, ListIn(heap, req[r].s))

\* A request that nobody overtook holds the committed configuration, with at
\* most one item changed.
OneEdit ==
    ~shared =>
        \A r \in Requests : req[r].copy /\ r \notin overtaken =>
            /\ req[r].pc = "edit" => ListIn(heap, req[r].s) = ListIn(heap, active)
            /\ req[r].pc \in {"validate", "check", "apply"} =>
                  OneItem(ListIn(heap, active), ListIn(heap, req[r].s))

IInv == Typed /\ HeapOK /\ DiskOK /\ Present /\ EditsOwnCopy /\ Sound /\ OneEdit

-----------------------------------------------------------------------------
(* Free arrays *)

\* The least element of a set of natural numbers is its Min.
LEMMA MinIsLeast ==
  ASSUME NEW T, T \subseteq Nat, T # {}
  PROVE  Min(T) \in T /\ \A i \in T : Min(T) <= i
<1>1. \E m \in T : \A i \in T : ~(<<i, m>> \in OpToRel(<, Nat))
  BY NatLessThanWellFounded, WFMin, Zenon
<1>2. PICK m \in T : \A i \in T : ~(<<i, m>> \in OpToRel(<, Nat))
  BY <1>1
<1>3. \A i \in T : ~(i < m)
  BY <1>2 DEF OpToRel
<1>4. \A i \in T : m <= i
  BY <1>3
<1> QED
  BY <1>4 DEF Min

LEMMA AtMostOneMore ==
  ASSUME NEW S, NEW x, NEW n \in Nat, IsFiniteSet(S), Cardinality(S) <= n
  PROVE  IsFiniteSet(S \cup {x}) /\ Cardinality(S \cup {x}) <= n + 1
<1>1. Cardinality(S) \in Nat
  BY FS_CardinalityType
<1>2. IsFiniteSet(S \cup {x})
      /\ Cardinality(S \cup {x}) = IF x \in S THEN Cardinality(S) ELSE Cardinality(S) + 1
  BY FS_AddElement
<1> QED
  BY <1>1, <1>2

\* There is an array that nothing refers to: one for each request, for the
\* three configurations of the server, and one more.
LEMMA FreshFree ==
  ASSUME Typed
  PROVE  Fresh \in Arrays /\ Fresh \notin Refs /\ Fresh \in Nat \ {0}
<1> DEFINE f == [r \in Requests |-> req[r].s.a]
           Of == {req[r].s.a : r \in Requests}
           N == Cardinality(Requests)
<1>1. IsFiniteSet(Requests)
  BY ConfigEditAssumption
<1>2. N \in Nat
  BY <1>1, FS_CardinalityType
<1>3. f \in Surjection(Requests, Of)
  BY DEF Surjection
<1>4. IsFiniteSet(Of) /\ Cardinality(Of) <= N
  BY <1>1, <1>3, FS_Surjection
<1> HIDE DEF Of, N, f
<1>5. /\ IsFiniteSet(Of \cup {active.a}) /\ Cardinality(Of \cup {active.a}) <= N + 1
  BY <1>2, <1>4, AtMostOneMore
<1>6. N + 1 \in Nat /\ N + 2 \in Nat /\ N + 1 + 1 = N + 2 /\ N + 2 + 1 = N + 3
  BY <1>2
<1>7. /\ IsFiniteSet(Of \cup {active.a} \cup {pend.s.a})
      /\ Cardinality(Of \cup {active.a} \cup {pend.s.a}) <= N + 2
  <2>1. Cardinality(Of \cup {active.a} \cup {pend.s.a}) <= N + 1 + 1
        /\ IsFiniteSet(Of \cup {active.a} \cup {pend.s.a})
    BY <1>5, <1>6, AtMostOneMore
  <2> QED
    BY <2>1, <1>6
<1>8. /\ IsFiniteSet(Of \cup {active.a} \cup {pend.s.a} \cup {commit.a})
      /\ Cardinality(Of \cup {active.a} \cup {pend.s.a} \cup {commit.a}) <= N + 3
  <2>1. Cardinality(Of \cup {active.a} \cup {pend.s.a} \cup {commit.a}) <= N + 2 + 1
        /\ IsFiniteSet(Of \cup {active.a} \cup {pend.s.a} \cup {commit.a})
    BY <1>6, <1>7, AtMostOneMore
  <2> QED
    BY <2>1, <1>6
<1>9. Refs = Of \cup {active.a} \cup {pend.s.a} \cup {commit.a}
  BY DEF Refs, Held, Of
<1>10. Cardinality(Refs) <= N + 3 /\ IsFiniteSet(Refs)
  BY <1>8, <1>9
<1>11. Cardinality(Refs) \in Nat
  BY <1>10, FS_CardinalityType
<1>12. Arrays = 1..(N + 4)
  BY DEF Arrays, N
<1>13. Cardinality(Arrays) = N + 4
  <2>1. 1 \in Int /\ N + 4 \in Int /\ ~(1 > N + 4) /\ N + 4 - 1 + 1 = N + 4
    BY <1>2
  <2>2. Cardinality(1..(N + 4)) = IF 1 > N + 4 THEN 0 ELSE N + 4 - 1 + 1
    BY <2>1, FS_Interval
  <2> QED
    BY <2>1, <2>2, <1>12
<1>14. Arrays \ Refs # {}
  <2>1. SUFFICES ASSUME Arrays \subseteq Refs PROVE FALSE
    OBVIOUS
  <2>2. Cardinality(Arrays) <= Cardinality(Refs)
    BY <2>1, <1>10, FS_Subset
  <2> QED
    BY <2>2, <1>2, <1>10, <1>11, <1>13
<1>15. Arrays \ Refs \subseteq Nat
  BY <1>2, <1>12
<1>16. Min(Arrays \ Refs) \in Arrays \ Refs
  BY <1>14, <1>15, MinIsLeast
<1> QED
  BY <1>2, <1>12, <1>16 DEF Fresh

-----------------------------------------------------------------------------
(* What a step does to the content of slices *)

LEMMA SliceFacts ==
  /\ \A s \in Slices : s # Nil /\ s.a \in Arrays /\ s.len \in 0..MaxLen
  /\ Arrays \subseteq Nat \ {0} /\ 1 \in Arrays
  /\ Nil.a = 0 /\ \A s \in Slices \cup {Nil} : s = [a |-> s.a, len |-> s.len]
<1>1. Cardinality(Requests) \in Nat
  BY ConfigEditAssumption, FS_CardinalityType
<1>2. Arrays \subseteq Nat \ {0} /\ 1 \in Arrays
  BY <1>1 DEF Arrays
<1> QED
  BY <1>2 DEF Slices, Nil

\* The content of a slice is a list of as many items.
LEMMA ContentOfSlice ==
  ASSUME NEW h, NEW s, InHeap(h, s)
  PROVE  /\ ListIn(h, s) \in Seq(Items(kind)) /\ Len(ListIn(h, s)) = s.len
         /\ \A i \in 1..s.len : ListIn(h, s)[i] = h[s.a][i]
         /\ ListIn(h, s) = SubSeq(h[s.a], 1, s.len)
<1> DEFINE array == h[s.a]
           n == s.len
<1>1. n \in Nat /\ s # Nil /\ \A i \in 1..n : array[i] \in Items(kind)
  BY SliceFacts, ConfigEditAssumption DEF InHeap
<1>2. ListIn(h, s) = SubSeq(array, 1, n)
  BY <1>1 DEF ListIn
<1> HIDE DEF array, n
<1>3. /\ SubSeq(array, 1, n) \in Seq(Items(kind))
      /\ Len(SubSeq(array, 1, n)) = IF 1 <= n THEN n - 1 + 1 ELSE 0
      /\ \A i \in 1..(n - 1 + 1) : SubSeq(array, 1, n)[i] = array[1 + i - 1]
  BY <1>1, SubSeqProperties
<1>4. Len(SubSeq(array, 1, n)) = n /\ \A i \in 1..n : SubSeq(array, 1, n)[i] = array[i]
  BY <1>1, <1>3
<1> QED
  BY <1>2, <1>3, <1>4 DEF array, n

\* The garbage collector keeps what is referred to.
LEMMA Collected ==
  ASSUME NEW h \in [Arrays -> Seq(Cells(kind))], Becomes(h), kind' = kind,
         \A s \in Held' : s # Nil => InHeap(h, s)
  PROVE  /\ HeapOK'
         /\ \A s \in Held' : ListIn(heap', s) = ListIn(h, s)
<1>1. heap' = [a \in Arrays |-> IF a \in Refs' THEN h[a] ELSE <<>>]
  BY DEF Becomes
<1>2. <<>> \in Seq(Cells(kind))
  OBVIOUS
<1>3. heap' \in [Arrays -> Seq(Cells(kind))]
  BY <1>1, <1>2
<1>4. ASSUME NEW s \in Held', s # Nil PROVE heap'[s.a] = h[s.a] /\ s.a \in Arrays
  <2>1. s.a \in Refs'
    BY DEF Refs
  <2>2. s.a \in Arrays
    BY <1>4, SliceFacts DEF InHeap
  <2> QED
    BY <1>1, <2>1, <2>2
<1>5. \A s \in Held' : ListIn(heap', s) = ListIn(h, s)
  BY <1>4 DEF ListIn
<1>6. \A s \in Held' : s # Nil => InHeap(heap', s)
  BY <1>4 DEF InHeap
<1>7. HeapOK'
  BY <1>3, <1>6 DEF HeapOK, InHeap, Cells, Items
<1> QED
  BY <1>5, <1>7

\* A step that moves references and writes to no array.
LEMMA Moved ==
  ASSUME HeapOK, Becomes(heap), kind' = kind,
         \A s \in Held' : s = Nil \/ s \in Held
  PROVE  /\ HeapOK'
         /\ \A s \in Held' : ListIn(heap', s) = ListIn(heap, s)
<1>1. heap \in [Arrays -> Seq(Cells(kind))] /\ \A s \in Held' : s # Nil => InHeap(heap, s)
  BY DEF HeapOK
<1> QED
  BY <1>1, Collected

\* A step that fills an array to which nothing else will refer.
LEMMA Allocated ==
  ASSUME HeapOK, NEW a \in Arrays, NEW list \in Seq(Items(kind)), NEW array \in Grown(list),
         Len(list) <= MaxLen, Becomes([heap EXCEPT ![a] = array]), kind' = kind,
         \A s \in Held' :
            s = Nil \/ s = [a |-> a, len |-> Len(list)] \/ (s \in Held /\ s.a # a)
  PROVE  /\ HeapOK'
         /\ \A s \in Held' : s.a # a => ListIn(heap', s) = ListIn(heap, s)
         /\ [a |-> a, len |-> Len(list)] \in Held' =>
               ListIn(heap', [a |-> a, len |-> Len(list)]) = list
<1> DEFINE h == [heap EXCEPT ![a] = array]
           new == [a |-> a, len |-> Len(list)]
<1>1. Len(list) \in Nat /\ list \in Seq(Cells(kind)) /\ Room \in Cells(kind)
      /\ \A i \in 1..Len(list) : list[i] \in Items(kind)
  BY ElementOfSeq, LenProperties DEF Cells
<1>2. /\ array \in Seq(Cells(kind)) /\ Len(list) <= Len(array)
      /\ \A i \in 1..Len(list) : array[i] = list[i]
  <2>1. CASE array = list
    BY <1>1, <2>1
  <2>2. CASE array = Append(list, Room)
    BY <1>1, <2>2, AppendProperties
  <2> QED
    BY <2>1, <2>2 DEF Grown
<1>3. h \in [Arrays -> Seq(Cells(kind))] /\ h[a] = array /\ \A b \in Arrays \ {a} : h[b] = heap[b]
  BY <1>2 DEF HeapOK
<1>4. new \in Slices /\ new.a = a /\ new.len = Len(list)
  BY <1>1, ConfigEditAssumption DEF Slices
<1> HIDE DEF h, new
<1>5. InHeap(h, new)
  BY <1>1, <1>2, <1>3, <1>4 DEF InHeap
<1>6. \A s \in Held : s # Nil /\ s.a # a => InHeap(h, s) /\ ListIn(h, s) = ListIn(heap, s)
  BY <1>3, SliceFacts DEF HeapOK, InHeap, ListIn
<1>7. HeapOK' /\ \A s \in Held' : ListIn(heap', s) = ListIn(h, s)
  <2>1. \A s \in Held' : s # Nil => InHeap(h, s)
    BY <1>5, <1>6 DEF new
  <2>2. Becomes(h)
    BY DEF h
  <2> QED
    BY <1>3, <2>1, <2>2, Collected
<1>8. ListIn(h, new) = list
  <2>1. /\ ListIn(h, new) \in Seq(Items(kind)) /\ Len(ListIn(h, new)) = Len(list)
        /\ \A i \in 1..Len(list) : ListIn(h, new)[i] = array[i]
    BY <1>3, <1>4, <1>5, ContentOfSlice
  <2> HIDE DEF new
  <2> QED
    BY <1>2, <2>1, SeqEqual
<1>9. \A s \in Held' : s.a # a => ListIn(h, s) = ListIn(heap, s)
  BY <1>4, <1>6 DEF new, ListIn
<1> QED
  BY <1>7, <1>8, <1>9 DEF new

\* A step that writes items into an array, in place, for a slice of it.
LEMMA Rewritten ==
  ASSUME HeapOK, NEW a \in Arrays, NEW array \in Seq(Cells(kind)), Len(array) = Len(heap[a]),
         \A i \in 1..Len(array) : array[i] = heap[a][i] \/ array[i] \in Items(kind),
         NEW y \in Slices, y.a = a, y.len <= Len(array),
         \A i \in 1..y.len : array[i] \in Items(kind),
         Becomes([heap EXCEPT ![a] = array]), kind' = kind,
         \A s \in Held' : s = Nil \/ s = y \/ s \in Held
  PROVE  /\ HeapOK'
         /\ \A s \in Held' : s.a # a => ListIn(heap', s) = ListIn(heap, s)
         /\ y \in Held' => ListIn(heap', y) = SubSeq(array, 1, y.len)
<1> DEFINE h == [heap EXCEPT ![a] = array]
<1>1. h \in [Arrays -> Seq(Cells(kind))] /\ h[a] = array /\ \A b \in Arrays \ {a} : h[b] = heap[b]
  BY DEF HeapOK
<1>2. Becomes(h)
  OBVIOUS
<1> HIDE DEF h
<1>3. InHeap(h, y)
  BY <1>1 DEF InHeap
<1>4. ASSUME NEW s \in Held, s # Nil PROVE InHeap(h, s)
  <2>1. InHeap(heap, s) /\ s.a \in Arrays /\ s.len \in Nat
    BY <1>4, SliceFacts, ConfigEditAssumption DEF HeapOK, InHeap
  <2>2. CASE s.a # a
    BY <1>1, <2>1, <2>2 DEF InHeap
  <2>3. CASE s.a = a
    <3>1. Len(array) \in Nat /\ s.len <= Len(array)
      BY <2>1, <2>3, LenProperties DEF InHeap
    <3>2. \A i \in 1..s.len : i \in 1..Len(array) /\ heap[a][i] \in Items(kind)
      BY <2>1, <2>3, <3>1 DEF InHeap
    <3> QED
      BY <1>1, <2>1, <2>3, <3>1, <3>2 DEF InHeap
  <2> QED
    BY <2>2, <2>3
<1>5. HeapOK' /\ \A s \in Held' : ListIn(heap', s) = ListIn(h, s)
  <2>1. \A s \in Held' : s # Nil => InHeap(h, s)
    BY <1>3, <1>4
  <2> QED
    BY <1>1, <1>2, <2>1, Collected
<1>6. \A s \in Held' : s.a # a => ListIn(h, s) = ListIn(heap, s)
  BY <1>1, <1>4, SliceFacts DEF ListIn, InHeap
<1>7. ListIn(h, y) = SubSeq(array, 1, y.len)
  BY <1>1, SliceFacts DEF ListIn
<1> QED
  BY <1>5, <1>6, <1>7

-----------------------------------------------------------------------------
(* What a step does to requests and references *)

LEMMA GoesOnEffect ==
  ASSUME Typed, NEW r \in Requests, NEW p \in Working \cup {"clear"},
         NEW y \in Slices \cup {Nil}, GoesOn(r, p, y)
  PROVE  /\ req' \in [Requests -> RequestState]
         /\ req'[r].pc = p /\ req'[r].s = y /\ req'[r].copy = req[r].copy
         /\ \A q \in Requests \ {r} : req'[q] = req[q]
<1>1. req[r] \in RequestState /\ [req[r] EXCEPT !.pc = p, !.s = y] \in RequestState
  BY DEF Typed, RequestState, Working
<1> QED
  BY <1>1 DEF GoesOn, Typed, RequestState

LEMMA AnswerEffect ==
  ASSUME Typed, NEW r \in Requests, Answer(r)
  PROVE  /\ req' \in [Requests -> RequestState] /\ req'[r] = Idle
         /\ \A q \in Requests \ {r} : req'[q] = req[q]
<1>1. Idle \in RequestState
  BY DEF Idle, RequestState
<1> QED
  BY <1>1 DEF Answer, Typed

LEMMA IdleFacts == Idle.pc = "idle" /\ Idle.s = Nil
BY DEF Idle

LEMMA HeldParts ==
  /\ \A s : s \in Held <=> \/ s = active \/ s = pend.s \/ s = commit
                           \/ \E r \in Requests : s = req[r].s
  /\ \A s : s \in Held' <=> \/ s = active' \/ s = pend'.s \/ s = commit'
                            \/ \E r \in Requests : s = req'[r].s
BY DEF Held

LEMMA AliasParts ==
  /\ \A r : Aliased(r) <=> \/ req[r].s.a = active.a \/ req[r].s.a = pend.s.a
                           \/ req[r].s.a = commit.a
                           \/ \E q \in Requests \ {r} : req[q].s.a = req[r].s.a
  /\ EditsOwnCopy' <=>
        \A r \in Requests : req'[r].copy /\ req'[r].s # Nil =>
            /\ req'[r].s.a # active'.a /\ req'[r].s.a # pend'.s.a /\ req'[r].s.a # commit'.a
            /\ \A q \in Requests \ {r} : req'[q].s.a # req'[r].s.a
BY DEF Aliased, EditsOwnCopy

LEMMA ValidContent ==
  /\ \A list : Valid(list) <=> ValidFor(kind, list)
  /\ \A s : Content(s) = ListIn(heap, s)
  /\ \A k, h : ListIn(h, Nil) = <<>> /\ ValidFor(k, <<>>)
  /\ NoWindow.s = Nil /\ NoWindow.open = FALSE
  /\ NoWindow \in [open : BOOLEAN, txn : BOOLEAN, s : Slices \cup {Nil}]
<1>1. \A k : ValidFor(k, <<>>)
  BY DEF ValidFor, Unique
<1> QED
  BY <1>1 DEF Valid, ValidFor, Content, ListIn, NoWindow

\* The content of whatever the server and the requests refer to afterwards is
\* enough for Sound.
LEMMA SoundAfter ==
  ASSUME kind' = kind, shared' \in BOOLEAN,
         shared' = FALSE =>
            /\ ValidFor(kind, ListIn(heap', active')) /\ ValidFor(kind, ListIn(heap', pend'.s))
            /\ ValidFor(kind, ListIn(heap', commit')) /\ ValidFor(kind, disk')
            /\ disk' = ListIn(heap', active')
            /\ \A q \in Requests :
                  req'[q].pc \in {"check", "apply"} => ValidFor(kind, ListIn(heap', req'[q].s))
  PROVE  Sound'
BY DEF Sound

\* ... and for OneEdit, if the committed configuration stays as it is but for
\* requests that are overtaken.
LEMMA EditAfter ==
  ASSUME OneEdit, shared' \in BOOLEAN, shared' = FALSE => shared = FALSE,
         \A q \in Requests :
            shared' = FALSE /\ req'[q].copy /\ q \notin overtaken' /\ req'[q].pc \in Working =>
               /\ req[q].copy /\ q \notin overtaken
               /\ ListIn(heap', active') = ListIn(heap, active)
               /\ ListIn(heap', req'[q].s) = ListIn(heap, req[q].s)
               /\ \/ req'[q].pc = req[q].pc
                  \/ {req'[q].pc, req[q].pc} \subseteq {"validate", "check", "apply"}
  PROVE  OneEdit'
BY DEF OneEdit, Working

-----------------------------------------------------------------------------
(* Steps that move references *)

\* A handler answers, or goes on with the configuration it has, which has
\* passed Validate when it goes further than that.
LEMMA HandlerMoves ==
  ASSUME IInv, NEW r \in Requests, Becomes(heap),
         UNCHANGED <<kind, overtaken, active, pend, commit, disk, shared, edits, windows>>,
         \/ Answer(r)
         \/ /\ req[r].pc \in {"validate", "check"}
            /\ \E p \in {"check", "apply"} : GoesOn(r, p, req[r].s)
            /\ shared \/ ValidFor(kind, ListIn(heap, req[r].s))
  PROVE  IInv'
<1> USE DEF IInv
<1>1. /\ req' \in [Requests -> RequestState]
      /\ \A q \in Requests \ {r} : req'[q] = req[q]
      /\ \/ req'[r] = Idle
         \/ /\ req[r].pc \in {"validate", "check"} /\ req'[r].pc \in {"check", "apply"}
            /\ req'[r].s = req[r].s /\ req'[r].copy = req[r].copy
            /\ shared \/ ValidFor(kind, ListIn(heap, req[r].s))
  <2>1. CASE Answer(r)
    BY <2>1, AnswerEffect
  <2>2. CASE ~Answer(r)
    <3>1. PICK p \in {"check", "apply"} : GoesOn(r, p, req[r].s)
      BY <2>2
    <3>2. p \in Working \cup {"clear"} /\ req[r].s \in Slices \cup {Nil}
      BY DEF Typed, Working, RequestState
    <3> QED
      BY <2>2, <3>1, <3>2, GoesOnEffect
  <2> QED
    BY <2>1, <2>2
<1>2. Typed'
  BY <1>1 DEF Typed, RequestState
<1>3. \A s \in Held' : s = Nil \/ s \in Held
  BY <1>1, HeldParts, IdleFacts
<1>4. HeapOK' /\ \A s \in Held' : ListIn(heap', s) = ListIn(heap, s)
  BY <1>3, Moved
<1>5. DiskOK' /\ Present'
  BY <1>1, IdleFacts DEF DiskOK, Present, Working
<1>6. EditsOwnCopy'
  <2>1. ASSUME NEW q \in Requests, req'[q].copy, req'[q].s # Nil
        PROVE  /\ q # r \/ req'[r] # Idle
               /\ req'[q].s = req[q].s /\ req[q].copy /\ req'[q].s.a # 0
    BY <2>1, <1>1, <1>2, IdleFacts, SliceFacts DEF Typed, RequestState
  <2>2. \A q \in Requests : req'[q].s.a = req[q].s.a \/ req'[q].s.a = 0
    BY <1>1, IdleFacts, SliceFacts
  <2> QED
    BY <2>1, <2>2, AliasParts DEF EditsOwnCopy, Aliased
<1>7. Sound'
  <2>1. SUFFICES ASSUME ~shared
                 PROVE  /\ ValidFor(kind, ListIn(heap', active))
                        /\ ValidFor(kind, ListIn(heap', pend.s))
                        /\ ValidFor(kind, ListIn(heap', commit)) /\ ValidFor(kind, disk)
                        /\ disk = ListIn(heap', active)
                        /\ \A q \in Requests :
                              req'[q].pc \in {"check", "apply"} =>
                                  ValidFor(kind, ListIn(heap', req'[q].s))
    BY DEF Sound
  <2>2. active \in Held' /\ pend.s \in Held' /\ commit \in Held'
        /\ \A q \in Requests : req'[q].s \in Held'
    BY HeldParts
  <2>3. \A q \in Requests : req'[q].pc \in {"check", "apply"} =>
            ValidFor(kind, ListIn(heap, req'[q].s))
    BY <2>1, <1>1, IdleFacts DEF Sound
  <2> QED
    BY <2>1, <2>2, <2>3, <1>4 DEF Sound
<1>8. OneEdit'
  <2>1. active \in Held' /\ \A q \in Requests : req'[q].s \in Held'
    BY HeldParts
  <2>2. \A q \in Requests : req'[q].pc \in Working =>
            /\ req'[q].s = req[q].s /\ req'[q].copy = req[q].copy
            /\ \/ req'[q].pc = req[q].pc
               \/ {req'[q].pc, req[q].pc} \subseteq {"validate", "check", "apply"}
    BY <1>1, IdleFacts DEF Working
  <2> QED
    BY <2>1, <2>2, <1>2, <1>4, EditAfter DEF Typed
<1> QED
  BY <1>2, <1>4, <1>5, <1>6, <1>7, <1>8

LEMMA EditRefusedKeeps ==
  ASSUME IInv, NEW r \in Requests, EditRefused(r)
  PROVE  IInv'
BY HandlerMoves DEF EditRefused

LEMMA ValidateKeeps ==
  ASSUME IInv, NEW r \in Requests, Validate(r)
  PROVE  IInv'
<1>1. CASE Answer(r)
  BY <1>1, HandlerMoves DEF Validate
<1>2. CASE ~Answer(r)
  <2>1. GoesOn(r, "check", req[r].s) /\ ValidFor(kind, ListIn(heap, req[r].s))
    BY <1>2, ValidContent DEF Validate
  <2> QED
    BY <2>1, HandlerMoves DEF Validate
<1> QED
  BY <1>1, <1>2

LEMMA CheckPendingKeeps ==
  ASSUME IInv, NEW r \in Requests, CheckPending(r)
  PROVE  IInv'
<1>1. CASE Answer(r)
  BY <1>1, HandlerMoves DEF CheckPending
<1>2. CASE ~Answer(r)
  <2>1. GoesOn(r, "apply", req[r].s) /\ req[r].pc = "check"
    BY <1>2 DEF CheckPending
  <2>2. shared \/ ValidFor(kind, ListIn(heap, req[r].s))
    BY <2>1 DEF IInv, Sound
  <2> QED
    BY <2>1, <2>2, HandlerMoves DEF CheckPending
<1> QED
  BY <1>1, <1>2

LEMMA ApplyFailsKeeps ==
  ASSUME IInv, NEW r \in Requests, ApplyFails(r)
  PROVE  IInv'
BY HandlerMoves DEF ApplyFails

LEMMA OpensWindowKeeps ==
  ASSUME IInv, NEW r \in Requests, OpensWindow(r)
  PROVE  IInv'
<1> USE DEF IInv
<1> DEFINE s == req[r].s
<1>1. /\ req' \in [Requests -> RequestState] /\ req'[r] = Idle
      /\ \A q \in Requests \ {r} : req'[q] = req[q]
  BY AnswerEffect DEF OpensWindow
<1>2. /\ req[r].pc = "apply" /\ s # Nil /\ s \in Slices /\ s.a # 0
      /\ pend'.open = TRUE /\ pend'.s = s
      /\ pend' \in [open : BOOLEAN, txn : BOOLEAN, s : Slices \cup {Nil}]
      /\ UNCHANGED <<kind, overtaken, active, commit, disk, shared, edits, windows>>
      /\ Becomes(heap)
  BY SliceFacts DEF OpensWindow, Present, Working, Typed, RequestState
<1> HIDE DEF s
<1>3. Typed'
  BY <1>1, <1>2 DEF Typed
<1>4. \A t \in Held' : t = Nil \/ t \in Held
  BY <1>1, <1>2, HeldParts, IdleFacts DEF s
<1>5. HeapOK' /\ \A t \in Held' : ListIn(heap', t) = ListIn(heap, t)
  BY <1>2, <1>4, Moved
<1>6. DiskOK' /\ Present'
  BY <1>1, <1>2, IdleFacts DEF DiskOK, Present, Working
<1>7. EditsOwnCopy'
  <2>1. ASSUME NEW q \in Requests, req'[q].copy, req'[q].s # Nil
        PROVE  /\ q # r /\ req'[q] = req[q] /\ req'[q].s.a # 0 /\ req'[q].s.a # req[r].s.a
               /\ req'[q].s.a # active.a /\ req'[q].s.a # commit.a
               /\ \A o \in Requests \ {q} : req[o].s.a # req'[q].s.a
    BY <2>1, <1>1, <1>3, IdleFacts, SliceFacts DEF Typed, RequestState, EditsOwnCopy, Aliased
  <2>2. \A q \in Requests : req'[q].s.a = req[q].s.a \/ req'[q].s.a = 0
    BY <1>1, IdleFacts, SliceFacts
  <2> QED
    BY <2>1, <2>2, <1>2, AliasParts DEF s
<1>8. Sound'
  <2>1. active \in Held' /\ pend'.s \in Held' /\ commit \in Held'
        /\ \A q \in Requests : req'[q].s \in Held'
    BY <1>2, HeldParts
  <2>2. ASSUME ~shared
        PROVE  /\ ValidFor(kind, ListIn(heap, active)) /\ ValidFor(kind, ListIn(heap, pend'.s))
               /\ ValidFor(kind, ListIn(heap, commit)) /\ ValidFor(kind, disk)
               /\ disk = ListIn(heap, active)
               /\ \A q \in Requests : req'[q].pc \in {"check", "apply"} =>
                      ValidFor(kind, ListIn(heap, req'[q].s))
    BY <2>2, <1>1, <1>2, IdleFacts DEF Sound, s
  <2> QED
    BY <2>1, <2>2, <1>2, <1>3, <1>5, SoundAfter DEF Typed
<1>9. OneEdit'
  <2>1. active \in Held' /\ \A q \in Requests : req'[q].s \in Held'
    BY <1>2, HeldParts
  <2>2. \A q \in Requests : req'[q].pc \in Working => req'[q] = req[q]
    BY <1>1, IdleFacts DEF Working
  <2> QED
    BY <2>1, <2>2, <1>2, <1>3, <1>5, EditAfter DEF Typed
<1> QED
  BY <1>3, <1>5, <1>6, <1>7, <1>8, <1>9

\* Store.Save of a slice that something refers to.
LEMMA SaveEffect ==
  ASSUME IInv, NEW s \in Held, s # Nil, Save(s)
  PROVE  /\ active' \in Slices /\ (active' = active \/ active' = s)
         /\ disk' \in Seq(Items(kind)) /\ Len(disk') <= MaxLen
         /\ overtaken' \subseteq Requests
         /\ ~shared /\ ValidFor(kind, ListIn(heap, s)) =>
               disk' = ListIn(heap, active') /\ ValidFor(kind, disk')
         /\ UNCHANGED <<active, overtaken>> \/ overtaken' = Requests
<1> USE DEF IInv
<1>1. InHeap(heap, s) /\ s \in Slices
  BY DEF HeapOK, InHeap
<1>2. ListIn(heap, s) \in Seq(Items(kind)) /\ Len(ListIn(heap, s)) <= MaxLen
  BY <1>1, ContentOfSlice, SliceFacts, ConfigEditAssumption
<1>3. Content(s) = ListIn(heap, s)
  BY ValidContent
<1>4. CASE UNCHANGED <<active, disk, overtaken>>
  BY <1>4 DEF Sound, Typed, DiskOK
<1>5. CASE active' = s /\ disk' = Content(s) /\ overtaken' = Requests
  BY <1>1, <1>2, <1>3, <1>5
<1> QED
  BY <1>4, <1>5 DEF Save

LEMMA SaveEditKeeps ==
  ASSUME IInv, NEW r \in Requests, SaveEdit(r)
  PROVE  IInv'
<1> USE DEF IInv
<1> DEFINE s == req[r].s
<1>1. /\ req[r].pc = "apply" /\ s # Nil /\ s \in Held /\ s \in Slices /\ s.a # 0
      /\ Save(s) /\ GoesOn(r, "clear", Nil)
      /\ UNCHANGED <<kind, pend, commit, shared, edits, windows>> /\ Becomes(heap)
  BY SliceFacts, HeldParts DEF SaveEdit, Present, Working, Typed, RequestState
<1>2. /\ req' \in [Requests -> RequestState] /\ req'[r].pc = "clear" /\ req'[r].s = Nil
      /\ \A q \in Requests \ {r} : req'[q] = req[q]
  BY <1>1, GoesOnEffect
<1>3. /\ active' \in Slices /\ (active' = active \/ active' = s)
      /\ disk' \in Seq(Items(kind)) /\ Len(disk') <= MaxLen
      /\ overtaken' \subseteq Requests
      /\ ~shared /\ ValidFor(kind, ListIn(heap, s)) =>
            disk' = ListIn(heap, active') /\ ValidFor(kind, disk')
      /\ UNCHANGED <<active, overtaken>> \/ overtaken' = Requests
  BY <1>1, SaveEffect
<1> HIDE DEF s
<1>4. Typed'
  BY <1>1, <1>2, <1>3 DEF Typed
<1>5. \A t \in Held' : t = Nil \/ t \in Held
  BY <1>1, <1>2, <1>3, HeldParts
<1>6. HeapOK' /\ \A t \in Held' : ListIn(heap', t) = ListIn(heap, t)
  BY <1>1, <1>5, Moved
<1>7. DiskOK' /\ Present'
  BY <1>1, <1>2, <1>3 DEF DiskOK, Present, Working
<1>8. EditsOwnCopy'
  <2>1. ASSUME NEW q \in Requests, req'[q].copy, req'[q].s # Nil
        PROVE  /\ q # r /\ req'[q] = req[q] /\ req'[q].s.a # 0 /\ req'[q].s.a # req[r].s.a
               /\ req'[q].s.a # active.a /\ req'[q].s.a # pend.s.a /\ req'[q].s.a # commit.a
               /\ \A o \in Requests \ {q} : req[o].s.a # req'[q].s.a
    BY <2>1, <1>2, <1>4, SliceFacts DEF Typed, RequestState, EditsOwnCopy, Aliased
  <2>2. \A q \in Requests : req'[q].s.a = req[q].s.a \/ req'[q].s.a = 0
    BY <1>2, SliceFacts
  <2> QED
    BY <2>1, <2>2, <1>1, <1>3, AliasParts DEF s
<1>9. Sound'
  <2>1. active' \in Held' /\ pend.s \in Held' /\ commit \in Held'
        /\ \A q \in Requests : req'[q].s \in Held'
    BY <1>1, HeldParts
  <2>2. ASSUME ~shared
        PROVE  /\ ValidFor(kind, ListIn(heap, active')) /\ ValidFor(kind, ListIn(heap, pend.s))
               /\ ValidFor(kind, ListIn(heap, commit)) /\ ValidFor(kind, disk')
               /\ disk' = ListIn(heap, active')
               /\ \A q \in Requests : req'[q].pc \in {"check", "apply"} =>
                      ValidFor(kind, ListIn(heap, req'[q].s))
    BY <2>2, <1>1, <1>2, <1>3 DEF Sound, s
  <2> QED
    BY <2>1, <2>2, <1>1, <1>4, <1>6, SoundAfter DEF Typed
<1>10. OneEdit'
  <2>1. active' \in Held' /\ \A q \in Requests : req'[q].s \in Held'
    BY HeldParts
  <2>2. \A q \in Requests : req'[q].pc \in Working => req'[q] = req[q]
    BY <1>2 DEF Working
  <2> QED
    BY <2>1, <2>2, <1>1, <1>3, <1>4, <1>6, EditAfter DEF Typed
<1> QED
  BY <1>4, <1>6, <1>7, <1>8, <1>9, <1>10

\* The server moves its configurations between Store.active, Server.pend and
\* commitPending, or drops them; requests keep what they have, or end.
LEMMA ServerMoves ==
  ASSUME IInv, Typed', DiskOK', Present', Becomes(heap), UNCHANGED <<kind, shared>>,
         {active', pend'.s, commit'} \subseteq {active, pend.s, commit, Nil},
         \A q \in Requests : req'[q] = req[q] \/ req'[q] = Idle,
         ~shared => disk' = ListIn(heap, active') /\ ValidFor(kind, disk'),
         UNCHANGED <<active, overtaken>> \/ overtaken' = Requests
  PROVE  IInv'
<1> USE DEF IInv
<1>1. \A t \in Held' : t = Nil \/ t \in Held
  BY HeldParts, IdleFacts
<1>2. HeapOK' /\ \A t \in Held' : ListIn(heap', t) = ListIn(heap, t)
  BY <1>1, Moved
<1>3. EditsOwnCopy'
  <2>1. ASSUME NEW q \in Requests, req'[q].copy, req'[q].s # Nil
        PROVE  /\ req'[q] = req[q] /\ req'[q].s.a # 0
               /\ req'[q].s.a # active.a /\ req'[q].s.a # pend.s.a /\ req'[q].s.a # commit.a
               /\ \A o \in Requests \ {q} : req[o].s.a # req'[q].s.a
    BY <2>1, IdleFacts, SliceFacts DEF Typed, RequestState, EditsOwnCopy, Aliased
  <2>2. \A q \in Requests : req'[q].s.a = req[q].s.a \/ req'[q].s.a = 0
    BY IdleFacts, SliceFacts
  <2>3. {active'.a, pend'.s.a, commit'.a} \subseteq {active.a, pend.s.a, commit.a, 0}
    BY SliceFacts
  <2> QED
    BY <2>1, <2>2, <2>3, AliasParts
<1>4. Sound'
  <2>1. active' \in Held' /\ pend'.s \in Held' /\ commit' \in Held'
        /\ \A q \in Requests : req'[q].s \in Held'
    BY HeldParts
  <2>2. ASSUME ~shared
        PROVE  /\ ValidFor(kind, ListIn(heap, active')) /\ ValidFor(kind, ListIn(heap, pend'.s))
               /\ ValidFor(kind, ListIn(heap, commit')) /\ ValidFor(kind, disk')
               /\ disk' = ListIn(heap, active')
               /\ \A q \in Requests : req'[q].pc \in {"check", "apply"} =>
                      ValidFor(kind, ListIn(heap, req'[q].s))
    <3>1. \A t \in {active, pend.s, commit, Nil} : ValidFor(kind, ListIn(heap, t))
      BY <2>2, ValidContent DEF Sound
    <3>2. \A q \in Requests : req'[q].pc \in {"check", "apply"} =>
              ValidFor(kind, ListIn(heap, req'[q].s))
      BY <2>2, IdleFacts DEF Sound
    <3> QED
      BY <2>2, <3>1, <3>2
  <2> QED
    BY <2>1, <2>2, <1>2, SoundAfter DEF Typed
<1>5. OneEdit'
  <2>1. active' \in Held' /\ \A q \in Requests : req'[q].s \in Held'
    BY HeldParts
  <2>2. \A q \in Requests : req'[q].pc \in Working => req'[q] = req[q]
    BY IdleFacts DEF Working
  <2> QED
    BY <2>1, <2>2, <1>2, EditAfter DEF Typed
<1> QED
  BY <1>2, <1>3, <1>4, <1>5

LEMMA ClearPendingKeeps ==
  ASSUME IInv, NEW r \in Requests, ClearPending(r)
  PROVE  IInv'
<1> USE DEF IInv
<1>1. /\ req' \in [Requests -> RequestState] /\ req'[r] = Idle
      /\ \A q \in Requests \ {r} : req'[q] = req[q]
  BY AnswerEffect DEF ClearPending
<1>2. /\ pend' = NoWindow /\ Becomes(heap)
      /\ UNCHANGED <<kind, overtaken, active, commit, disk, shared, edits, windows>>
  BY DEF ClearPending
<1>3. Typed' /\ DiskOK' /\ Present'
  BY <1>1, <1>2, IdleFacts, ValidContent DEF Typed, DiskOK, Present, Working
<1>4. ~shared => disk' = ListIn(heap, active') /\ ValidFor(kind, disk')
  BY <1>2 DEF Sound
<1> QED
  BY <1>1, <1>2, <1>3, <1>4, ServerMoves, ValidContent

LEMMA WindowEndsKeeps ==
  ASSUME IInv, WindowEnds
  PROVE  IInv'
<1> USE DEF IInv
<1>1. /\ pend' = NoWindow /\ Becomes(heap)
      /\ UNCHANGED <<kind, overtaken, active, commit, disk, req, shared, edits, windows>>
  BY DEF WindowEnds
<1>2. Typed' /\ DiskOK' /\ Present'
  BY <1>1, ValidContent DEF Typed, DiskOK, Present, Working
<1>3. ~shared => disk' = ListIn(heap, active') /\ ValidFor(kind, disk')
  BY <1>1 DEF Sound
<1> QED
  BY <1>1, <1>2, <1>3, ServerMoves, ValidContent

LEMMA CommitTakeKeeps ==
  ASSUME IInv, CommitTake
  PROVE  IInv'
<1> USE DEF IInv
<1>1. /\ commit' = pend.s /\ pend' = NoWindow /\ Becomes(heap)
      /\ UNCHANGED <<kind, overtaken, active, disk, req, shared, edits, windows>>
  BY DEF CommitTake
<1>2. Typed' /\ DiskOK' /\ Present'
  BY <1>1, ValidContent DEF Typed, DiskOK, Present, Working
<1>3. ~shared => disk' = ListIn(heap, active') /\ ValidFor(kind, disk')
  BY <1>1 DEF Sound
<1> QED
  BY <1>1, <1>2, <1>3, ServerMoves, ValidContent

LEMMA CommitSaveKeeps ==
  ASSUME IInv, CommitSave
  PROVE  IInv'
<1> USE DEF IInv
<1>1. /\ commit # Nil /\ Save(commit) /\ commit' = Nil /\ Becomes(heap)
      /\ UNCHANGED <<kind, pend, req, shared, edits, windows>>
  BY DEF CommitSave
<1>2. commit \in Held
  BY HeldParts
<1>3. /\ active' \in Slices /\ (active' = active \/ active' = commit)
      /\ disk' \in Seq(Items(kind)) /\ Len(disk') <= MaxLen
      /\ overtaken' \subseteq Requests
      /\ ~shared /\ ValidFor(kind, ListIn(heap, commit)) =>
            disk' = ListIn(heap, active') /\ ValidFor(kind, disk')
      /\ UNCHANGED <<active, overtaken>> \/ overtaken' = Requests
  BY <1>1, <1>2, SaveEffect
<1>4. Typed' /\ DiskOK' /\ Present'
  BY <1>1, <1>3 DEF Typed, DiskOK, Present
<1>5. ~shared => disk' = ListIn(heap, active') /\ ValidFor(kind, disk')
  BY <1>3 DEF Sound
<1> QED
  BY <1>1, <1>3, <1>4, <1>5, ServerMoves

-----------------------------------------------------------------------------
(* Steps that allocate *)

LEMMA BeginKeeps ==
  ASSUME IInv, NEW r \in Requests, Begin(r)
  PROVE  IInv'
<1> USE DEF IInv
<1>1. /\ req[r] = Idle /\ edits' = edits + 1 /\ edits < MaxEdits
      /\ overtaken' = overtaken \ {r}
      /\ UNCHANGED <<kind, active, pend, commit, disk, shared, windows>>
  BY DEF Begin
<1>2. /\ overtaken' \subseteq Requests /\ edits' \in 0..MaxEdits
  BY <1>1, ConfigEditAssumption DEF Typed
<1>3. CASE pend.open
  <2> DEFINE q0 == [pc |-> "edit", s |-> pend.s, copy |-> FALSE]
  <2>1. req' = [req EXCEPT ![r] = q0] /\ Becomes(heap) /\ pend.s # Nil
    BY <1>3 DEF Begin, Present
  <2>2. q0 \in RequestState /\ q0.pc = "edit" /\ q0.s = pend.s /\ q0.copy = FALSE
    BY DEF Typed, RequestState
  <2> HIDE DEF q0
  <2>3. /\ req' \in [Requests -> RequestState] /\ req'[r] = q0
        /\ \A q \in Requests \ {r} : req'[q] = req[q]
    BY <2>1, <2>2 DEF Typed
  <2>4. Typed'
    BY <1>1, <1>2, <2>3 DEF Typed
  <2>5. \A t \in Held' : t = Nil \/ t \in Held
    BY <1>1, <2>2, <2>3, HeldParts
  <2>6. HeapOK' /\ \A t \in Held' : ListIn(heap', t) = ListIn(heap, t)
    BY <1>1, <2>1, <2>5, Moved
  <2>7. DiskOK' /\ Present'
    BY <1>1, <2>1, <2>2, <2>3 DEF DiskOK, Present, Working
  <2>8. EditsOwnCopy'
    <3>1. ASSUME NEW q \in Requests, req'[q].copy, req'[q].s # Nil
          PROVE  /\ q # r /\ req'[q] = req[q]
                 /\ req'[q].s.a # active.a /\ req'[q].s.a # pend.s.a /\ req'[q].s.a # commit.a
                 /\ \A o \in Requests \ {q} : req[o].s.a # req'[q].s.a
      BY <3>1, <2>2, <2>3 DEF EditsOwnCopy, Aliased
    <3>2. \A q \in Requests : req'[q].s.a = req[q].s.a \/ req'[q].s.a = pend.s.a
      BY <2>2, <2>3
    <3> QED
      BY <3>1, <3>2, <1>1, AliasParts
  <2>9. Sound'
    <3>1. active \in Held' /\ pend.s \in Held' /\ commit \in Held'
          /\ \A q \in Requests : req'[q].s \in Held'
      BY <1>1, HeldParts
    <3>2. ASSUME ~shared
          PROVE  \A q \in Requests : req'[q].pc \in {"check", "apply"} =>
                     ValidFor(kind, ListIn(heap, req'[q].s))
      BY <3>2, <2>2, <2>3 DEF Sound
    <3> QED
      BY <3>1, <3>2, <1>1, <2>4, <2>6, SoundAfter DEF Typed, Sound
  <2>10. OneEdit'
    <3>1. active \in Held' /\ \A q \in Requests : req'[q].s \in Held'
      BY <1>1, HeldParts
    <3>2. \A q \in Requests : req'[q].copy /\ q \notin overtaken' =>
              req'[q] = req[q] /\ q \notin overtaken
      BY <1>1, <2>2, <2>3
    <3> QED
      BY <3>1, <3>2, <1>1, <2>4, <2>6, EditAfter DEF Typed
  <2> QED
    BY <2>4, <2>6, <2>7, <2>8, <2>9, <2>10
<1>4. CASE ~pend.open
  <2> DEFINE new == [a |-> Fresh, len |-> active.len]
             q0 == [pc |-> "edit", s |-> new, copy |-> TRUE]
  <2>1. Current(r)
    BY <1>4 DEF Begin
  <2>2. /\ InHeap(heap, active) /\ Content(active) = ListIn(heap, active)
        /\ Fresh \in Arrays /\ Fresh \notin Refs /\ Fresh # 0
    BY HeldParts, SliceFacts, FreshFree, ValidContent DEF HeapOK, Typed
  <2>3. /\ ListIn(heap, active) \in Seq(Items(kind))
        /\ Len(ListIn(heap, active)) = active.len /\ active.len <= MaxLen
    BY <2>2, ContentOfSlice, SliceFacts, ConfigEditAssumption DEF InHeap
  <2>4. /\ new \in Slices /\ new.a = Fresh /\ new # Nil
        /\ q0 \in RequestState /\ q0.pc = "edit" /\ q0.s = new /\ q0.copy = TRUE
    BY <2>2, SliceFacts DEF Slices, Typed, RequestState
  <2>5. req' = [req EXCEPT ![r] = q0]
    BY <2>1 DEF Current
  <2>6. PICK array \in Grown(ListIn(heap, active)) : Becomes([heap EXCEPT ![Fresh] = array])
    BY <2>1, <2>2 DEF Current
  <2>7. [a |-> Fresh, len |-> Len(ListIn(heap, active))] = new
    BY <2>3
  <2> HIDE DEF q0, new
  <2>8. /\ req' \in [Requests -> RequestState] /\ req'[r] = q0
        /\ \A q \in Requests \ {r} : req'[q] = req[q]
    BY <2>4, <2>5 DEF Typed
  <2>9. Typed'
    BY <1>1, <1>2, <2>8 DEF Typed
  <2>10. \A t \in Held' : t = new \/ (t \in Held /\ t.a # Fresh)
    <3>1. \A t \in Held : t.a # Fresh
      BY <2>2 DEF Refs
    <3> QED
      BY <1>1, <2>4, <2>8, <3>1, HeldParts
  <2>11. /\ HeapOK' /\ \A t \in Held' : t.a # Fresh => ListIn(heap', t) = ListIn(heap, t)
         /\ ListIn(heap', new) = ListIn(heap, active)
    <3>1. new \in Held'
      BY <2>4, <2>8, HeldParts
    <3> QED
      BY <3>1, <1>1, <2>2, <2>3, <2>6, <2>7, <2>10, Allocated
  <2>12. DiskOK' /\ Present'
    BY <1>1, <2>4, <2>8 DEF DiskOK, Present, Working
  <2>13. EditsOwnCopy'
    <3>1. /\ active.a # Fresh /\ pend.s.a # Fresh /\ commit.a # Fresh
          /\ \A q \in Requests : req[q].s.a # Fresh
      BY <2>2, HeldParts DEF Refs
    <3>2. ASSUME NEW q \in Requests \ {r}, req'[q].copy, req'[q].s # Nil
          PROVE  /\ req'[q] = req[q]
                 /\ req'[q].s.a # active.a /\ req'[q].s.a # pend.s.a /\ req'[q].s.a # commit.a
                 /\ \A o \in Requests \ {q} : req[o].s.a # req'[q].s.a
      BY <3>2, <2>8 DEF EditsOwnCopy, Aliased
    <3> QED
      BY <3>1, <3>2, <1>1, <2>4, <2>8, AliasParts
  <2>14. Sound'
    <3>1. /\ active \in Held' /\ pend.s \in Held' /\ commit \in Held'
          /\ \A q \in Requests : req'[q].s \in Held'
          /\ active.a # Fresh /\ pend.s.a # Fresh /\ commit.a # Fresh
          /\ \A q \in Requests : req[q].s.a # Fresh
      BY <1>1, <2>2, HeldParts DEF Refs
    <3>2. ASSUME ~shared, NEW q \in Requests, req'[q].pc \in {"check", "apply"}
          PROVE  ValidFor(kind, ListIn(heap', req'[q].s))
      <4>1. req'[q] = req[q] /\ req[q].s \in Held' /\ req[q].s.a # Fresh
        BY <3>1, <3>2, <2>4, <2>8
      <4> QED
        BY <3>2, <4>1, <2>11 DEF Sound
    <3> QED
      BY <3>1, <3>2, <1>1, <2>9, <2>11, SoundAfter DEF Typed, Sound
  <2>15. OneEdit'
    <3>1. /\ active \in Held' /\ \A q \in Requests : req'[q].s \in Held'
          /\ active.a # Fresh /\ \A q \in Requests : req[q].s.a # Fresh
      BY <1>1, <2>2, HeldParts DEF Refs
    <3>2. ListIn(heap', active) = ListIn(heap, active)
      BY <3>1, <2>11
    <3>3. \A q \in Requests \ {r} :
              /\ req'[q] = req[q] /\ ListIn(heap', req'[q].s) = ListIn(heap, req[q].s)
              /\ q \notin overtaken' => q \notin overtaken
      BY <3>1, <1>1, <2>8, <2>11
    <3>4. req'[r].pc = "edit" /\ ListIn(heap', req'[r].s) = ListIn(heap, active)
      BY <2>4, <2>8, <2>11
    <3> QED
      BY <3>2, <3>3, <3>4, <1>1 DEF OneEdit
  <2> QED
    BY <2>9, <2>11, <2>12, <2>13, <2>14, <2>15
<1> QED
  BY <1>3, <1>4

LEMMA OtherWindowKeeps ==
  ASSUME IInv, NEW i \in Plain(kind), NEW j \in Plain(kind), NEW txn \in BOOLEAN,
         OtherWindow(<<i, j>>, txn)
  PROVE  IInv'
<1> USE DEF IInv
<1> DEFINE list == <<i, j>>
           new == [a |-> Fresh, len |-> Len(list)]
<1>1. /\ i \in Items(kind) /\ j \in Items(kind)
      /\ Fresh \in Arrays /\ Fresh \notin Refs /\ Fresh # 0
  BY FreshFree, SliceFacts DEF Plain
<1>2. list \in Seq(Items(kind)) /\ Len(list) = 2 /\ Len(list) <= MaxLen
  BY <1>1, ConfigEditAssumption
<1>3. /\ ~pend.open /\ windows < MaxWindows /\ windows' = windows + 1
      /\ ValidFor(kind, list)
      /\ pend' = [open |-> TRUE, txn |-> txn, s |-> new]
      /\ UNCHANGED <<kind, overtaken, active, commit, disk, req, shared, edits>>
      /\ \E array \in Grown(list) : Becomes([heap EXCEPT ![Fresh] = array])
  BY ValidContent DEF OtherWindow
<1> HIDE DEF list
<1>4. PICK array \in Grown(list) : Becomes([heap EXCEPT ![Fresh] = array])
  BY <1>3
<1>5. new \in Slices /\ new.a = Fresh /\ new # Nil
  BY <1>1, <1>2, SliceFacts, ConfigEditAssumption DEF Slices
<1>6. /\ pend' \in [open : BOOLEAN, txn : BOOLEAN, s : Slices \cup {Nil}] /\ pend'.s = new
  BY <1>3, <1>5
<1> HIDE DEF new
<1>7. Typed'
  BY <1>3, <1>6, ConfigEditAssumption DEF Typed
<1>8. \A t \in Held' : t = new \/ (t \in Held /\ t.a # Fresh)
  <2>1. \A t \in Held : t.a # Fresh
    BY <1>1 DEF Refs
  <2> QED
    BY <1>3, <1>6, <2>1, HeldParts
<1>9. /\ HeapOK' /\ \A t \in Held' : t.a # Fresh => ListIn(heap', t) = ListIn(heap, t)
      /\ ListIn(heap', new) = list
  <2>1. new \in Held'
    BY <1>6, HeldParts
  <2> QED
    BY <2>1, <1>1, <1>2, <1>3, <1>4, <1>8, Allocated DEF new
<1>10. DiskOK' /\ Present'
  BY <1>3, <1>5, <1>6 DEF DiskOK, Present
<1>11. /\ active.a # Fresh /\ commit.a # Fresh /\ active \in Held' /\ commit \in Held'
       /\ \A q \in Requests : req[q].s.a # Fresh /\ req[q].s \in Held'
  BY <1>1, <1>3, HeldParts DEF Refs
<1>12. EditsOwnCopy'
  BY <1>3, <1>5, <1>6, <1>11, AliasParts DEF EditsOwnCopy, Aliased
<1>13. Sound'
  BY <1>3, <1>6, <1>7, <1>9, <1>11, SoundAfter DEF Sound, Typed
<1>14. OneEdit'
  BY <1>3, <1>7, <1>9, <1>11, EditAfter DEF Typed
<1> QED
  BY <1>7, <1>9, <1>10, <1>12, <1>13, <1>14

LEMMA RestartKeeps ==
  ASSUME IInv, Restart
  PROVE  IInv'
<1> USE DEF IInv
<1> DEFINE new == [a |-> 1, len |-> Len(disk)]
<1>1. /\ active' = new /\ pend' = NoWindow /\ commit' = Nil
      /\ req' = [r \in Requests |-> Idle]
      /\ UNCHANGED <<kind, overtaken, disk, shared, edits, windows>>
      /\ \E array \in Grown(disk) : Becomes([heap EXCEPT ![1] = array])
  BY DEF Restart
<1>2. PICK array \in Grown(disk) : Becomes([heap EXCEPT ![1] = array])
  BY <1>1
<1>3. new \in Slices /\ new.a = 1
  BY SliceFacts, LenProperties, ConfigEditAssumption DEF Slices, DiskOK
<1>4. \A q \in Requests : req'[q] = Idle
  BY <1>1
<1>5. Idle \in RequestState
  BY DEF Idle, RequestState
<1> HIDE DEF new
<1>6. Typed'
  BY <1>1, <1>3, <1>5, ValidContent DEF Typed
<1>7. \A t \in Held' : t = Nil \/ t = new
  BY <1>1, <1>4, HeldParts, IdleFacts, ValidContent
<1>8. HeapOK' /\ ListIn(heap', new) = disk
  <2>1. new \in Held'
    BY <1>1, HeldParts
  <2> QED
    BY <2>1, <1>1, <1>2, <1>7, SliceFacts, Allocated DEF new, DiskOK
<1>9. DiskOK' /\ Present'
  BY <1>1, <1>4, IdleFacts, ValidContent DEF DiskOK, Present, Working
<1>10. EditsOwnCopy'
  BY <1>4, IdleFacts, AliasParts
<1>11. Sound'
  <2>1. \A h : ValidFor(kind, ListIn(h, Nil))
    BY ValidContent
  <2>2. ~shared => ValidFor(kind, disk)
    BY DEF Sound
  <2>3. \A q \in Requests : req'[q].pc \notin {"check", "apply"}
    BY <1>4, IdleFacts
  <2> QED
    BY <2>1, <2>2, <2>3, <1>1, <1>6, <1>8, ValidContent, SoundAfter DEF Typed
<1>12. OneEdit'
  BY <1>4, IdleFacts DEF OneEdit
<1> QED
  BY <1>6, <1>8, <1>9, <1>10, <1>11, <1>12

-----------------------------------------------------------------------------
(* Steps that edit *)

\* A handler writes items into the array of its slice, in place.
LEMMA WriteKeeps ==
  ASSUME IInv, NEW r \in Requests, NEW array, NEW y, req[r].pc = "edit",
         array \in Seq(Cells(kind)), Len(array) = Len(heap[req[r].s.a]),
         \A i \in 1..Len(array) : array[i] = heap[req[r].s.a][i] \/ array[i] \in Items(kind),
         y \in Slices, y.a = req[r].s.a, y.len <= Len(array),
         \A i \in 1..y.len : array[i] \in Items(kind),
         OneItem(ListIn(heap, req[r].s), SubSeq(array, 1, y.len)),
         GoesOn(r, "validate", y), shared' = (shared \/ Aliased(r)),
         UNCHANGED <<kind, overtaken, active, pend, commit, disk, edits, windows>>,
         Becomes([heap EXCEPT ![req[r].s.a] = array])
  PROVE  IInv'
<1> USE DEF IInv
<1> DEFINE a == req[r].s.a
<1>1. /\ req' \in [Requests -> RequestState] /\ req'[r].pc = "validate" /\ req'[r].s = y
      /\ req'[r].copy = req[r].copy /\ \A q \in Requests \ {r} : req'[q] = req[q]
  BY GoesOnEffect DEF Working
<1>2. req[r].s # Nil /\ req[r].s \in Slices /\ a \in Arrays /\ a # 0
  BY SliceFacts DEF Present, Working, Typed, RequestState
<1>3. shared' = TRUE \/ (shared' = FALSE /\ ~shared /\ ~Aliased(r))
  OBVIOUS
<1>4. Typed'
  BY <1>1, <1>3 DEF Typed
<1>5. \A t \in Held' : t = Nil \/ t = y \/ t \in Held
  BY <1>1, HeldParts
<1>6. /\ HeapOK' /\ \A t \in Held' : t.a # a => ListIn(heap', t) = ListIn(heap, t)
      /\ ListIn(heap', y) = SubSeq(array, 1, y.len)
  <2>1. y \in Held'
    BY <1>1, HeldParts
  <2> QED
    BY <2>1, <1>2, <1>5, Rewritten
<1>7. DiskOK' /\ Present'
  BY <1>1, SliceFacts DEF DiskOK, Present, Working
<1>8. EditsOwnCopy'
  <2>1. \A q \in Requests : req'[q].s.a = req[q].s.a /\ req'[q].copy = req[q].copy
                            /\ (req'[q].s # Nil => req[q].s # Nil)
    BY <1>1, <1>2
  <2>2. ASSUME NEW q \in Requests, req'[q].copy, req'[q].s # Nil
        PROVE  /\ req[q].s.a # active.a /\ req[q].s.a # pend.s.a /\ req[q].s.a # commit.a
               /\ \A o \in Requests \ {q} : req[o].s.a # req[q].s.a
    BY <2>1, <2>2 DEF EditsOwnCopy, Aliased
  <2> QED
    BY <2>1, <2>2, AliasParts
<1>9. Sound'
  <2>1. ASSUME shared' = FALSE
        PROVE  /\ active.a # a /\ pend.s.a # a /\ commit.a # a
               /\ \A q \in Requests \ {r} : req[q].s.a # a
               /\ active \in Held' /\ pend.s \in Held' /\ commit \in Held'
               /\ \A q \in Requests : req'[q].s \in Held'
    BY <2>1, <1>3, HeldParts, AliasParts
  <2>2. ASSUME shared' = FALSE, NEW q \in Requests, req'[q].pc \in {"check", "apply"}
        PROVE  ValidFor(kind, ListIn(heap', req'[q].s))
    <3>1. q # r /\ req'[q] = req[q]
      BY <2>2, <1>1
    <3> QED
      BY <2>1, <2>2, <3>1, <1>3, <1>6 DEF Sound
  <2> QED
    BY <2>1, <2>2, <1>3, <1>4, <1>6, SoundAfter DEF Sound, Typed
<1>10. OneEdit'
  <2> SUFFICES ASSUME shared' = FALSE, NEW q \in Requests, req'[q].copy, q \notin overtaken
               PROVE  /\ req'[q].pc = "edit" =>
                            ListIn(heap', req'[q].s) = ListIn(heap', active)
                      /\ req'[q].pc \in {"validate", "check", "apply"} =>
                            OneItem(ListIn(heap', active), ListIn(heap', req'[q].s))
    BY <1>3 DEF OneEdit
  <2>1. /\ active.a # a /\ active \in Held' /\ req'[q].s \in Held'
        /\ q # r => req[q].s.a # a
    BY <1>3, HeldParts, AliasParts
  <2>2. ListIn(heap', active) = ListIn(heap, active) /\ ~shared
    BY <2>1, <1>3, <1>6
  <2>3. CASE q = r
    <3>1. ListIn(heap, req[r].s) = ListIn(heap, active)
      BY <2>2, <2>3, <1>1 DEF OneEdit
    <3> QED
      BY <3>1, <2>2, <2>3, <1>1, <1>6
  <2>4. CASE q # r
    <3>1. req'[q] = req[q] /\ ListIn(heap', req'[q].s) = ListIn(heap, req[q].s)
      BY <2>1, <2>4, <1>1, <1>6
    <3> QED
      BY <3>1, <2>2 DEF OneEdit
  <2> QED
    BY <2>3, <2>4
<1> QED
  BY <1>4, <1>6, <1>7, <1>8, <1>9, <1>10

\* The configuration that a handler edits.
LEMMA Edited ==
  ASSUME IInv, NEW r \in Requests, req[r].pc = "edit"
  PROVE  /\ req[r].s \in Held /\ req[r].s # Nil /\ InHeap(heap, req[r].s)
         /\ req[r].s \in Slices /\ req[r].s.a \in Arrays
         /\ req[r].s.len \in Nat /\ req[r].s.len <= MaxLen /\ MaxLen \in Nat
         /\ heap[req[r].s.a] \in Seq(Cells(kind)) /\ Len(heap[req[r].s.a]) \in Nat
         /\ req[r].s.len <= Len(heap[req[r].s.a])
         /\ Content(req[r].s) = ListIn(heap, req[r].s)
<1>1. req[r].s \in Held /\ req[r].s # Nil
  BY HeldParts DEF IInv, Present, Working
<1>2. InHeap(heap, req[r].s) /\ req[r].s \in Slices
  BY <1>1 DEF IInv, HeapOK, InHeap
<1>3. /\ req[r].s.a \in Arrays /\ req[r].s.len \in 0..MaxLen /\ MaxLen \in Nat
      /\ req[r].s.len <= Len(heap[req[r].s.a])
  BY <1>2, SliceFacts, ConfigEditAssumption DEF InHeap
<1>4. heap[req[r].s.a] \in Seq(Cells(kind))
  BY <1>3 DEF IInv, HeapOK
<1> QED
  BY <1>1, <1>2, <1>3, <1>4, ValidContent, LenProperties

\* The first item that an identifier names.
LEMMA FirstFound ==
  ASSUME NEW h, NEW s, InHeap(h, s), NEW id, Found(ListIn(h, s), id) # {}
  PROVE  /\ Min(Found(ListIn(h, s), id)) \in 1..s.len
         /\ ListIn(h, s)[Min(Found(ListIn(h, s), id))] \in Items(kind)
         /\ h[s.a][Min(Found(ListIn(h, s), id))] \in Items(kind)
<1> DEFINE at == Found(ListIn(h, s), id)
<1>1. /\ Len(ListIn(h, s)) = s.len /\ s.len \in Nat
      /\ \A i \in 1..s.len : ListIn(h, s)[i] = h[s.a][i] /\ h[s.a][i] \in Items(kind)
  BY ContentOfSlice, SliceFacts, ConfigEditAssumption DEF InHeap
<1>2. at \subseteq 1..s.len
  BY <1>1 DEF Found
<1>3. at \subseteq Nat /\ at # {}
  BY <1>1, <1>2
<1> HIDE DEF at
<1>4. Min(at) \in at
  BY <1>3, MinIsLeast
<1> QED
  BY <1>1, <1>2, <1>4 DEF at

LEMMA MergedItem ==
  ASSUME NEW old \in Items(kind), NEW new \in Items(kind)
  PROVE  Merged(old, new) \in Items(kind)
<1> DEFINE V == Values \cup {Bad} \cup (IF kind = "tunnel" THEN {Masked} ELSE {})
           name == IF kind = "network" THEN new.name ELSE old.name
           v == IF kind = "tunnel" /\ new.v = Masked THEN old.v ELSE new.v
<1>1. /\ old \in [id : Ids, name : Ids, v : V] /\ new \in [id : Ids, name : Ids, v : V]
      /\ kind # "network" => old.name = old.id
  BY DEF Items
<1>2. name \in Ids /\ v \in V /\ (kind # "network" => name = old.id)
  <2> HIDE DEF V
  <2> QED
    BY <1>1
<1>3. Merged(old, new) = [new EXCEPT !.id = old.id, !.name = name, !.v = v]
  BY DEF Merged
<1> HIDE DEF name, v, V
<1>4. Merged(old, new) \in [id : Ids, name : Ids, v : V]
      /\ (kind # "network" => Merged(old, new).name = Merged(old, new).id)
  BY <1>1, <1>2, <1>3
<1> QED
  BY <1>4 DEF Items, V

LEMMA OneChanged ==
  ASSUME NEW old, NEW new, Len(new) = Len(old) \/ Len(new) = Len(old) + 1,
         \E k : \A i \in 1..Len(new) : i = k \/ (~(i > Len(old)) /\ new[i] = old[i])
  PROVE  OneItem(old, new)
<1> PICK k : \A i \in 1..Len(new) : i = k \/ (~(i > Len(old)) /\ new[i] = old[i])
  OBVIOUS
<1> DEFINE T == {i \in 1..Len(new) : i > Len(old) \/ new[i] # old[i]}
<1>1. T \subseteq {k}
  OBVIOUS
<1> HIDE DEF T
<1>2. IsFiniteSet({k}) /\ Cardinality({k}) = 1
  BY FS_Singleton
<1>3. Cardinality(T) <= 1
  BY <1>1, <1>2, FS_Subset
<1> QED
  BY <1>3 DEF OneItem, T

\* The beginning of an array, as a list.
LEMMA Beginning ==
  ASSUME NEW array \in Seq(Cells(kind)), NEW n \in Nat, n <= Len(array)
  PROVE  /\ SubSeq(array, 1, n) \in Seq(Cells(kind)) /\ Len(SubSeq(array, 1, n)) = n
         /\ \A i \in 1..n : SubSeq(array, 1, n)[i] = array[i]
<1>1. /\ 1 \in Int /\ n \in Int /\ (IF 1 <= n THEN n - 1 + 1 ELSE 0) = n
      /\ Len(array) \in Nat /\ n - 1 + 1 = n /\ \A i \in 1..n : 1 + i - 1 = i
  BY LenProperties
<1>2. \A i \in 1..n : array[i] \in Cells(kind)
  BY <1>1, ElementOfSeq
<1>3. /\ SubSeq(array, 1, n) \in Seq(Cells(kind))
      /\ Len(SubSeq(array, 1, n)) = IF 1 <= n THEN n - 1 + 1 ELSE 0
      /\ \A i \in 1..(n - 1 + 1) : SubSeq(array, 1, n)[i] = array[1 + i - 1]
  BY <1>1, <1>2, SubSeqProperties
<1> QED
  BY <1>1, <1>3

LEMMA ReplaceKeeps ==
  ASSUME IInv, NEW r \in Requests, NEW id \in Ids, NEW item \in Items(kind),
         Replace(r, id, item)
  PROVE  IInv'
<1> DEFINE s == req[r].s
           array0 == heap[s.a]
           k == Min(Found(Content(s), id))
           x == Merged(array0[k], item)
           array == [array0 EXCEPT ![k] = x]
<1>1. /\ req[r].pc = "edit" /\ Found(Content(s), id) # {}
      /\ GoesOn(r, "validate", s) /\ shared' = (shared \/ Aliased(r))
      /\ UNCHANGED <<kind, overtaken, active, pend, commit, disk, edits, windows>>
      /\ Becomes([heap EXCEPT ![s.a] = array])
  BY DEF Replace
<1>2. /\ InHeap(heap, s) /\ s \in Slices /\ s.len \in Nat
      /\ array0 \in Seq(Cells(kind)) /\ Len(array0) \in Nat /\ s.len <= Len(array0)
      /\ Content(s) = ListIn(heap, s)
  BY <1>1, Edited
<1>3. k \in 1..s.len /\ array0[k] \in Items(kind)
  BY <1>1, <1>2, FirstFound
<1>4. \A i \in 1..s.len : array0[i] \in Items(kind)
  BY <1>2 DEF InHeap
<1> HIDE DEF k, array0
<1>5. x \in Items(kind) /\ x \in Cells(kind)
  BY <1>3, MergedItem DEF Cells
<1> HIDE DEF x
<1>6. /\ array \in Seq(Cells(kind)) /\ Len(array) = Len(array0)
      /\ \A i \in 1..Len(array0) : array[i] = IF i = k THEN x ELSE array0[i]
  <2>1. k \in 1..Len(array0)
    BY <1>2, <1>3
  <2> QED
    BY <1>2, <1>5, <2>1, ExceptSeq
<1> HIDE DEF array, s
<1>7. \A i \in 1..Len(array) : array[i] = array0[i] \/ array[i] \in Items(kind)
  BY <1>5, <1>6
<1>8. s.len <= Len(array) /\ \A i \in 1..s.len : array[i] \in Items(kind)
  BY <1>2, <1>4, <1>5, <1>6
<1>9. OneItem(ListIn(heap, s), SubSeq(array, 1, s.len))
  <2> DEFINE new == SubSeq(array, 1, s.len)
             old == ListIn(heap, s)
  <2>1. Len(old) = s.len /\ \A i \in 1..s.len : old[i] = array0[i]
    BY <1>2, ContentOfSlice DEF array0
  <2>2. Len(new) = s.len /\ \A i \in 1..s.len : new[i] = array[i]
    BY <1>2, <1>6, <1>8, Beginning
  <2>3. \A i \in 1..s.len : i # k => array[i] = array0[i]
    BY <1>2, <1>6
  <2> HIDE DEF new, old
  <2>4. Len(new) = Len(old)
        /\ \A i \in 1..Len(new) : i = k \/ (~(i > Len(old)) /\ new[i] = old[i])
    BY <2>1, <2>2, <2>3, <1>2
  <2>5. OneItem(old, new)
    <3>1. \E m : \A i \in 1..Len(new) : i = m \/ (~(i > Len(old)) /\ new[i] = old[i])
      BY <2>4
    <3> QED
      BY <2>4, <3>1, OneChanged
  <2> QED
    BY <2>5 DEF new, old
<1> QED
  BY <1>1, <1>2, <1>6, <1>7, <1>8, <1>9, WriteKeeps DEF s, array0

LEMMA DeleteKeeps ==
  ASSUME IInv, NEW r \in Requests, NEW id \in Ids, Delete(r, id)
  PROVE  IInv'
<1> DEFINE s == req[r].s
           n == s.len
           old == heap[s.a]
           L == Len(old)
           list == ListIn(heap, s)
           k == Min(Found(list, id))
           below == SubSeq(list, 1, k - 1)
           above == SubSeq(list, k + 1, n)
           rest == SubSeq(old, n, L)
           front == below \o above
           array == front \o rest
           y == [s EXCEPT !.len = @ - 1]
<1>1. /\ req[r].pc = "edit" /\ Found(Content(s), id) # {}
      /\ GoesOn(r, "validate", y) /\ shared' = (shared \/ Aliased(r))
      /\ UNCHANGED <<kind, overtaken, active, pend, commit, disk, edits, windows>>
      /\ Becomes([heap EXCEPT ![s.a] = Without(Content(s), Min(Found(Content(s), id)))
                                          \o SubSeq(old, n, L)])
  BY DEF Delete
<1>2. /\ InHeap(heap, s) /\ s \in Slices /\ n \in Nat /\ n <= MaxLen /\ MaxLen \in Nat
      /\ old \in Seq(Cells(kind)) /\ L \in Nat /\ n <= L /\ s.a \in Arrays
      /\ Content(s) = list
  BY <1>1, Edited
<1>3. /\ list \in Seq(Items(kind)) /\ Len(list) = n
      /\ \A i \in 1..n : list[i] \in Items(kind)
  BY <1>2, ContentOfSlice DEF InHeap
<1>4. k \in 1..n
  BY <1>1, <1>2, FirstFound
<1>5. Becomes([heap EXCEPT ![s.a] = array])
  BY <1>1, <1>2, <1>3 DEF Without
<1>6. y \in Slices /\ y.a = s.a /\ y.len = n - 1 /\ n - 1 \in 0..MaxLen
  <2>1. n - 1 \in 0..MaxLen
    BY <1>2, <1>4
  <2>2. y = [a |-> s.a, len |-> n - 1]
    BY <1>2 DEF Slices
  <2> HIDE DEF y
  <2> QED
    BY <2>1, <2>2, <1>2 DEF Slices
<1>7. \A i \in 1..L : old[i] \in Cells(kind)
  BY <1>2, ElementOfSeq
<1> HIDE DEF s, n, old, L, list, k, y
<1>8. /\ below \in Seq(Items(kind)) /\ Len(below) = k - 1
  <2>1. /\ k - 1 \in Int /\ 1 \in Int /\ \A i \in 1..(k - 1) : list[i] \in Items(kind)
        /\ (IF 1 <= k - 1 THEN k - 1 - 1 + 1 ELSE 0) = k - 1
    BY <1>2, <1>3, <1>4
  <2> QED
    BY <2>1, SubSeqProperties
<1>9. /\ above \in Seq(Items(kind)) /\ Len(above) = n - k
  <2>1. /\ k + 1 \in Int /\ n \in Int /\ \A i \in (k + 1)..n : list[i] \in Items(kind)
        /\ (IF k + 1 <= n THEN n - (k + 1) + 1 ELSE 0) = n - k
    BY <1>2, <1>3, <1>4
  <2> QED
    BY <2>1, SubSeqProperties
<1>10. /\ rest \in Seq(Cells(kind)) /\ Len(rest) = L - n + 1
       /\ \A i \in 1..(L - n + 1) : rest[i] = old[n + i - 1]
  <2>1. /\ n \in Int /\ L \in Int /\ \A i \in n..L : old[i] \in Cells(kind)
        /\ (IF n <= L THEN L - n + 1 ELSE 0) = L - n + 1
    BY <1>2, <1>4, <1>7
  <2> QED
    BY <2>1, SubSeqProperties
<1> HIDE DEF below, above, rest
<1>11. /\ front \in Seq(Items(kind)) /\ Len(front) = n - 1
       /\ \A i \in 1..(n - 1) : front[i] \in Items(kind)
  <2>1. front \in Seq(Items(kind)) /\ Len(front) = Len(below) + Len(above)
    BY <1>8, <1>9, ConcatProperties
  <2> HIDE DEF front
  <2>2. Len(front) = n - 1
    BY <2>1, <1>2, <1>4, <1>8, <1>9
  <2> QED
    BY <2>1, <2>2, ElementOfSeq
<1> HIDE DEF front
<1>12. /\ array \in Seq(Cells(kind)) /\ Len(array) = Len(front) + Len(rest)
       /\ \A i \in 1..(Len(front) + Len(rest)) :
             array[i] = IF i <= Len(front) THEN front[i]
                        ELSE rest[i - Len(front)]
  <2>1. front \in Seq(Cells(kind))
    BY <1>11, SeqMonotonic DEF Cells
  <2> QED
    BY <2>1, <1>10, ConcatProperties
<1> HIDE DEF array
<1>13. Len(array) = L
  BY <1>2, <1>4, <1>10, <1>11, <1>12
<1>14. \A i \in 1..L : IF i <= n - 1 THEN array[i] \in Items(kind) ELSE array[i] = old[i]
  <2> SUFFICES ASSUME NEW i \in 1..L
               PROVE  IF i <= n - 1 THEN array[i] \in Items(kind) ELSE array[i] = old[i]
    OBVIOUS
  <2>1. array[i] = IF i <= n - 1 THEN front[i] ELSE rest[i - (n - 1)]
    BY <1>2, <1>10, <1>11, <1>12, <1>13
  <2>2. CASE i <= n - 1
    <3>1. i \in 1..(n - 1)
      BY <1>2, <2>2
    <3> QED
      BY <2>1, <2>2, <3>1, <1>11
  <2>3. CASE ~(i <= n - 1)
    <3>1. i - (n - 1) \in 1..(L - n + 1) /\ n + (i - (n - 1)) - 1 = i
      BY <1>2, <1>4, <2>3
    <3> QED
      BY <2>1, <2>3, <3>1, <1>10
  <2> QED
    BY <2>2, <2>3
<1>15. /\ y.len <= Len(array) /\ \A i \in 1..y.len : array[i] \in Items(kind)
       /\ \A i \in 1..Len(array) : array[i] = old[i] \/ array[i] \in Items(kind)
  BY <1>2, <1>4, <1>6, <1>13, <1>14
<1>16. OneItem(list, SubSeq(array, 1, y.len))
  <2> DEFINE new == SubSeq(array, 1, n - 1)
  <2>1. n - 1 \in Nat /\ n - 1 <= Len(array)
    BY <1>2, <1>4, <1>13
  <2>2. new \in Seq(Cells(kind)) /\ Len(new) = n - 1 /\ \A i \in 1..(n - 1) : new[i] = array[i]
    BY <2>1, <1>12, Beginning
  <2>3. \A i \in 1..(n - 1) : array[i] = front[i]
    BY <2>1, <1>2, <1>10, <1>11, <1>12, <1>13
  <2>4. front \in Seq(Cells(kind))
    BY <1>11, SeqMonotonic DEF Cells
  <2> HIDE DEF new
  <2>5. new = front
    BY <2>2, <2>3, <2>4, <1>11, SeqEqual
  <2>6. new = Without(list, k)
    BY <2>5, <1>3 DEF Without, front, below, above
  <2> QED
    BY <2>6, <1>3, <1>4, <1>6 DEF OneItem, new
<1> QED
  BY <1>1, <1>5, <1>6, <1>12, <1>13, <1>15, <1>16, WriteKeeps DEF s, old, L, list

LEMMA AddInPlaceKeeps ==
  ASSUME IInv, NEW r \in Requests, NEW item \in Items(kind), Add(r, item),
         Len(heap[req[r].s.a]) > req[r].s.len
  PROVE  IInv'
<1> DEFINE s == req[r].s
           n == s.len
           array0 == heap[s.a]
           array == [array0 EXCEPT ![n + 1] = item]
           y == [s EXCEPT !.len = @ + 1]
<1>1. /\ req[r].pc = "edit" /\ n < MaxLen
      /\ GoesOn(r, "validate", y) /\ shared' = (shared \/ Aliased(r))
      /\ UNCHANGED <<kind, overtaken, active, pend, commit, disk, edits, windows>>
      /\ Becomes([heap EXCEPT ![s.a] = array])
  BY DEF Add
<1>2. /\ InHeap(heap, s) /\ s \in Slices /\ n \in Nat /\ MaxLen \in Nat
      /\ array0 \in Seq(Cells(kind)) /\ Len(array0) \in Nat /\ n < Len(array0)
  BY <1>1, Edited
<1>3. \A i \in 1..n : array0[i] \in Items(kind)
  BY <1>2 DEF InHeap
<1>4. y \in Slices /\ y.a = s.a /\ y.len = n + 1
  <2>1. y = [a |-> s.a, len |-> n + 1] /\ n + 1 \in 0..MaxLen
    BY <1>1, <1>2 DEF Slices
  <2> HIDE DEF y
  <2> QED
    BY <2>1, <1>2 DEF Slices
<1> HIDE DEF y
<1>5. /\ array \in Seq(Cells(kind)) /\ Len(array) = Len(array0)
      /\ \A i \in 1..Len(array0) : array[i] = IF i = n + 1 THEN item ELSE array0[i]
  <2>1. n + 1 \in 1..Len(array0) /\ item \in Cells(kind)
    BY <1>2 DEF Cells
  <2> HIDE DEF n, array0
  <2> QED
    BY <1>2, <2>1, ExceptSeq
<1>6. ListIn(heap, s) = SubSeq(array0, 1, n) /\ Len(ListIn(heap, s)) = n
      /\ \A i \in 1..n : ListIn(heap, s)[i] = array0[i]
  BY <1>2, ContentOfSlice
<1> HIDE DEF array, array0, n, s
<1>7. \A i \in 1..Len(array) : array[i] = array0[i] \/ array[i] \in Items(kind)
  BY <1>5
<1>8. n + 1 <= Len(array) /\ \A i \in 1..(n + 1) : array[i] \in Items(kind)
  BY <1>2, <1>3, <1>5
<1>9. OneItem(ListIn(heap, s), SubSeq(array, 1, n + 1))
  <2> DEFINE new == SubSeq(array, 1, n + 1)
             old == ListIn(heap, s)
  <2>1. n + 1 \in Nat
    BY <1>2
  <2>2. Len(new) = n + 1 /\ \A i \in 1..(n + 1) : new[i] = array[i]
    BY <2>1, <1>5, <1>8, Beginning
  <2> HIDE DEF new, old
  <2>3. Len(new) = Len(old) + 1
        /\ \A i \in 1..Len(new) : i = n + 1 \/ (~(i > Len(old)) /\ new[i] = old[i])
    BY <2>2, <1>2, <1>5, <1>6 DEF old
  <2>4. OneItem(old, new)
    <3>1. \E m : \A i \in 1..Len(new) : i = m \/ (~(i > Len(old)) /\ new[i] = old[i])
      BY <2>3
    <3> QED
      BY <2>3, <3>1, OneChanged
  <2> QED
    BY <2>4 DEF new, old
<1> QED
  BY <1>1, <1>4, <1>5, <1>7, <1>8, <1>9, WriteKeeps DEF s, array0

LEMMA AddGrownKeeps ==
  ASSUME IInv, NEW r \in Requests, NEW item \in Items(kind), Add(r, item),
         ~(Len(heap[req[r].s.a]) > req[r].s.len)
  PROVE  IInv'
<1> USE DEF IInv
<1> DEFINE s == req[r].s
           old == ListIn(heap, s)
           list == Append(old, item)
           new == [a |-> Fresh, len |-> s.len + 1]
<1>1. /\ req[r].pc = "edit" /\ s.len < MaxLen
      /\ GoesOn(r, "validate", new)
      /\ UNCHANGED <<kind, overtaken, active, pend, commit, disk, shared, edits, windows>>
      /\ \E array \in Grown(Append(Content(s), item)) : Becomes([heap EXCEPT ![Fresh] = array])
  BY DEF Add
<1>2. /\ InHeap(heap, s) /\ s \in Slices /\ s.len \in Nat /\ MaxLen \in Nat
      /\ Content(s) = old /\ s # Nil
      /\ Fresh \in Arrays /\ Fresh \notin Refs /\ Fresh # 0
  BY <1>1, Edited, FreshFree, SliceFacts
<1>3. old \in Seq(Items(kind)) /\ Len(old) = s.len
  BY <1>2, ContentOfSlice
<1>4. PICK array \in Grown(list) : Becomes([heap EXCEPT ![Fresh] = array])
  BY <1>1, <1>2
<1>5. /\ new \in Slices /\ new.a = Fresh /\ new # Nil
  BY <1>1, <1>2, SliceFacts DEF Slices
<1>6. /\ list \in Seq(Items(kind)) /\ Len(list) = s.len + 1 /\ Len(list) <= MaxLen
      /\ \A i \in 1..s.len : list[i] = old[i]
  <2> HIDE DEF old, s
  <2>1. /\ list \in Seq(Items(kind)) /\ Len(list) = Len(old) + 1
        /\ \A i \in 1..Len(old) : list[i] = old[i]
    BY <1>3, AppendProperties
  <2> QED
    BY <2>1, <1>1, <1>2, <1>3
<1>7. [a |-> Fresh, len |-> Len(list)] = new
  BY <1>6
<1>8. OneItem(old, list)
  <2> HIDE DEF old, list, s
  <2>1. Len(list) = Len(old) + 1
        /\ \A i \in 1..Len(list) : i = Len(list) \/ (~(i > Len(old)) /\ list[i] = old[i])
    BY <1>2, <1>3, <1>6
  <2> QED
    BY <2>1, OneChanged
<1> HIDE DEF new, list
<1>9. /\ req' \in [Requests -> RequestState] /\ req'[r].pc = "validate" /\ req'[r].s = new
      /\ req'[r].copy = req[r].copy /\ \A q \in Requests \ {r} : req'[q] = req[q]
  BY <1>1, <1>5, GoesOnEffect DEF Working
<1>10. Typed'
  BY <1>1, <1>9 DEF Typed
<1>11. /\ \A t \in Held' : t = new \/ (t \in Held /\ t.a # Fresh)
       /\ new \in Held' /\ active \in Held' /\ pend.s \in Held' /\ commit \in Held'
       /\ \A q \in Requests : req'[q].s \in Held'
       /\ active.a # Fresh /\ pend.s.a # Fresh /\ commit.a # Fresh
       /\ \A q \in Requests : req[q].s.a # Fresh
  <2>1. \A t \in Held : t.a # Fresh
    BY <1>2 DEF Refs
  <2> QED
    BY <1>1, <1>9, <2>1, HeldParts
<1>12. /\ HeapOK' /\ \A t \in Held' : t.a # Fresh => ListIn(heap', t) = ListIn(heap, t)
       /\ ListIn(heap', new) = list
  BY <1>1, <1>2, <1>4, <1>6, <1>7, <1>11, Allocated
<1>13. DiskOK' /\ Present'
  BY <1>1, <1>5, <1>9 DEF DiskOK, Present, Working
<1>14. EditsOwnCopy'
  <2>1. ASSUME NEW q \in Requests \ {r}, req'[q].copy, req'[q].s # Nil
        PROVE  /\ req'[q] = req[q]
               /\ req'[q].s.a # active.a /\ req'[q].s.a # pend.s.a /\ req'[q].s.a # commit.a
               /\ \A o \in Requests \ {q} : req[o].s.a # req'[q].s.a
    BY <2>1, <1>9 DEF EditsOwnCopy, Aliased
  <2> QED
    BY <2>1, <1>1, <1>5, <1>9, <1>11, AliasParts
<1>15. Sound'
  <2>1. ASSUME ~shared, NEW q \in Requests, req'[q].pc \in {"check", "apply"}
        PROVE  ValidFor(kind, ListIn(heap', req'[q].s))
    <3>1. req'[q] = req[q] /\ req[q].s \in Held' /\ req[q].s.a # Fresh
      BY <2>1, <1>9, <1>11
    <3> QED
      BY <2>1, <3>1, <1>12 DEF Sound
  <2> QED
    BY <2>1, <1>1, <1>10, <1>11, <1>12, SoundAfter DEF Typed, Sound
<1>16. OneEdit'
  <2>1. ListIn(heap', active) = ListIn(heap, active)
    BY <1>11, <1>12
  <2>2. \A q \in Requests \ {r} :
            req'[q] = req[q] /\ ListIn(heap', req'[q].s) = ListIn(heap, req[q].s)
    BY <1>9, <1>11, <1>12
  <2>3. ASSUME ~shared, req[r].copy, r \notin overtaken
        PROVE  OneItem(ListIn(heap, active), ListIn(heap', req'[r].s))
    <3>1. old = ListIn(heap, active)
      BY <2>3, <1>1 DEF OneEdit
    <3> QED
      BY <3>1, <1>8, <1>9, <1>12
  <2> QED
    BY <2>1, <2>2, <2>3, <1>1, <1>9 DEF OneEdit
<1> QED
  BY <1>10, <1>12, <1>13, <1>14, <1>15, <1>16

LEMMA EditKeeps ==
  ASSUME IInv, NEW r \in Requests, Edit(r)
  PROVE  IInv'
<1>1. ASSUME NEW item \in Items(kind), Add(r, item) PROVE IInv'
  BY <1>1, AddInPlaceKeeps, AddGrownKeeps
<1>2. ASSUME NEW id \in Ids, NEW item \in Items(kind), Replace(r, id, item) PROVE IInv'
  BY <1>2, ReplaceKeeps
<1>3. ASSUME NEW id \in Ids, Delete(r, id) PROVE IInv'
  BY <1>3, DeleteKeeps
<1>4. \A item \in Items(kind) : item.id \in Ids
  BY DEF Items
<1>5. CASE hNetworkAdd(r) \/ hRouteAdd(r) \/ hRuleAdd(r) \/ hPFAdd(r) \/ hWGAdd(r)
  BY <1>1, <1>2, <1>4, <1>5 DEF hNetworkAdd, hRouteAdd, hRuleAdd, hPFAdd, hWGAdd
<1>6. CASE hNetworkPatch(r) \/ hRulePatch(r) \/ hPFPatch(r)
  BY <1>2, <1>6 DEF hNetworkPatch, hRulePatch, hPFPatch
<1>7. CASE hNetworkDelete(r) \/ hRouteDelete(r) \/ hRuleDelete(r) \/ hPFDelete(r) \/ hWGDelete(r)
  BY <1>3, <1>7 DEF hNetworkDelete, hRouteDelete, hRuleDelete, hPFDelete, hWGDelete
<1> QED
  BY <1>5, <1>6, <1>7 DEF Edit

-----------------------------------------------------------------------------
(* The theorems *)

LEMMA Initially ==
  ASSUME Init
  PROVE  IInv
<1>1. PICK i \in Plain(kind) : disk = <<i>> /\ heap = [a \in Arrays |-> IF a = 1 THEN <<i>> ELSE <<>>]
  BY DEF Init
<1>2. /\ kind \in Kinds /\ active = [a |-> 1, len |-> 1] /\ pend = NoWindow /\ commit = Nil
      /\ req = [r \in Requests |-> Idle]
      /\ overtaken = {} /\ shared = FALSE /\ edits = 0 /\ windows = 0
  BY DEF Init
<1>3. i \in Items(kind) /\ i.v # Bad /\ 1 \in Arrays
  BY SliceFacts, ConfigEditAssumption DEF Plain
<1>4. active \in Slices /\ active.a = 1 /\ active.len = 1 /\ active # Nil
  BY <1>2, SliceFacts, ConfigEditAssumption DEF Slices
<1>5. Typed
  <2>1. Idle \in RequestState
    BY DEF Idle, RequestState
  <2>2. req \in [Requests -> RequestState]
    BY <2>1, <1>2
  <2>3. pend \in [open : BOOLEAN, txn : BOOLEAN, s : Slices \cup {Nil}]
    BY <1>2, ValidContent
  <2>4. edits \in 0..MaxEdits /\ windows \in 0..MaxWindows
    BY <1>2, ConfigEditAssumption
  <2> QED
    BY <2>2, <2>3, <2>4, <1>2, <1>4 DEF Typed
<1>6. \A r \in Requests : req[r] = Idle
  BY <1>2
<1>7. Held \ {Nil} = {active}
  BY <1>2, <1>4, <1>6, IdleFacts, ValidContent DEF Held
<1>8. heap[1] = <<i>> /\ Len(heap[1]) = 1 /\ heap[1][1] = i
  BY <1>1, <1>3
<1>9. HeapOK
  <2>1. <<i>> \in Seq(Cells(kind)) /\ <<>> \in Seq(Cells(kind))
    BY <1>3 DEF Cells
  <2>2. heap \in [Arrays -> Seq(Cells(kind))]
    BY <1>1, <2>1
  <2>3. InHeap(heap, active)
    BY <1>3, <1>4, <1>8 DEF InHeap
  <2> QED
    BY <1>7, <2>2, <2>3 DEF HeapOK
<1>10. DiskOK
  BY <1>1, <1>3, ConfigEditAssumption DEF DiskOK
<1>11. Present /\ EditsOwnCopy /\ OneEdit
  BY <1>2, <1>6, IdleFacts, ValidContent DEF Present, EditsOwnCopy, OneEdit, Working
<1>12. disk = ListIn(heap, active)
  <2>1. /\ ListIn(heap, active) \in Seq(Items(kind)) /\ Len(ListIn(heap, active)) = 1
        /\ ListIn(heap, active)[1] = i
    <3>1. InHeap(heap, active)
      BY <1>7, <1>9 DEF HeapOK
    <3>2. /\ ListIn(heap, active) \in Seq(Items(kind)) /\ Len(ListIn(heap, active)) = active.len
          /\ \A j \in 1..active.len : ListIn(heap, active)[j] = heap[active.a][j]
      BY <3>1, ContentOfSlice
    <3> QED
      BY <3>2, <1>4, <1>8
  <2>2. disk \in Seq(Items(kind)) /\ Len(disk) = 1 /\ disk[1] = i
    BY <1>1, <1>3
  <2> QED
    BY <2>1, <2>2, SeqEqual
<1>13. ValidFor(kind, disk)
  BY <1>1, <1>3 DEF ValidFor, Unique
<1>14. Sound
  BY <1>2, <1>6, <1>12, <1>13, IdleFacts, ValidContent DEF Sound
<1> QED
  BY <1>5, <1>9, <1>10, <1>11, <1>14 DEF IInv

LEMMA StepKeeps ==
  ASSUME IInv, [Next]_vars
  PROVE  IInv'
<1>1. ASSUME NEW r \in Requests,
             \/ Begin(r) \/ Edit(r) \/ EditRefused(r) \/ Validate(r) \/ CheckPending(r)
             \/ ApplyFails(r) \/ OpensWindow(r) \/ SaveEdit(r) \/ ClearPending(r)
      PROVE  IInv'
  BY <1>1, BeginKeeps, EditKeeps, EditRefusedKeeps, ValidateKeeps, CheckPendingKeeps,
     ApplyFailsKeeps, OpensWindowKeeps, SaveEditKeeps, ClearPendingKeeps
<1>2. CASE Others
  BY <1>2, OtherWindowKeeps, CommitTakeKeeps, CommitSaveKeeps, WindowEndsKeeps, RestartKeeps
     DEF Others
<1>3. CASE UNCHANGED vars
  <2>1. UNCHANGED <<kind, heap, active, pend, commit, disk, req, overtaken, shared, edits, windows>>
    BY <1>3 DEF vars
  <2>2. \A s : s \in Held' <=> s \in Held
    BY <2>1, HeldParts
  <2>3. Typed' /\ DiskOK' /\ Present'
    BY <2>1 DEF IInv, Typed, DiskOK, Present
  <2>4. HeapOK'
    BY <2>1, <2>2 DEF IInv, HeapOK, InHeap
  <2>5. EditsOwnCopy'
    BY <2>1, AliasParts DEF IInv, EditsOwnCopy, Aliased
  <2>6. Sound' /\ OneEdit'
    BY <2>1 DEF IInv, Sound, OneEdit
  <2> QED
    BY <2>3, <2>4, <2>5, <2>6 DEF IInv
<1> QED
  BY <1>1, <1>2, <1>3 DEF Next

LEMMA Always == Spec => []IInv
<1>1. Init => IInv
  BY Initially
<1>2. IInv /\ [Next]_vars => IInv'
  BY StepKeeps
<1> QED
  BY <1>1, <1>2, PTL DEF Spec

\* The variables keep their types, and no slice that anything refers to reaches
\* beyond its array or into the room that append has left in it.
THEOREM SlicesTyped == Spec => []TypeOK
<1>1. IInv => TypeOK
  BY DEF IInv, Typed, HeapOK, InHeap, DiskOK, TypeOK, RequestState, Cells
<1> QED
  BY <1>1, Always, PTL

\* An edit that found no window open works on an array that nothing else
\* refers to (cloneConfig in Store.Current), however many requests edit, save,
\* confirm and restart beside it.
THEOREM WorksOnOwnCopy == Spec => []EditsOwnCopy
<1>1. IInv => EditsOwnCopy
  BY DEF IInv
<1> QED
  BY <1>1, Always, PTL

\* Nothing that did not pass Validate is pending, being confirmed, committed or
\* on disk, and config.json holds what Store.active does, unless an edit has
\* written to the slices of a pending configuration.
THEOREM OnlyValidated == Spec => []SoundUnlessShared
<1>1. IInv => SoundUnlessShared
  BY ValidContent DEF IInv, Sound, SoundUnlessShared
<1> QED
  BY <1>1, Always, PTL

\* Saving an edit that nobody overtook changes one item of the committed
\* configuration, unless an edit has written to the slices of a pending one.
THEOREM ChangesOneItem == Spec => EditsOneItem
<1> DEFINE Saves(r) == SaveEdit(r) /\ req[r].copy /\ r \notin overtaken /\ ~shared
<1>1. ASSUME IInv, [Next]_vars
      PROVE  [\A r \in Requests : Saves(r) => OneItem(Content(active), Content(active)')]_vars
  <2>1. SUFFICES ASSUME NEW r \in Requests, Saves(r)
                 PROVE  OneItem(Content(active), Content(active)')
    OBVIOUS
  <2> DEFINE s == req[r].s
  <2>2. /\ req[r].pc = "apply" /\ s # Nil /\ s \in Held /\ Save(s) /\ GoesOn(r, "clear", Nil)
        /\ UNCHANGED <<kind, pend, commit>> /\ Becomes(heap)
    BY <2>1, <1>1, HeldParts DEF SaveEdit, IInv, Present, Working
  <2>3. OneItem(ListIn(heap, active), ListIn(heap, s))
    BY <2>1, <2>2, <1>1 DEF IInv, OneEdit
  <2>4. active' = s \/ (active' = active /\ ListIn(heap, s) = ListIn(heap, active))
    BY <2>2, ValidContent DEF Save
  <2>5. \A t \in Held' : t = Nil \/ t \in Held
    <3>1. \A q \in Requests : req'[q].s = req[q].s \/ req'[q].s = Nil
      BY <2>2, <1>1, GoesOnEffect DEF IInv
    <3> QED
      BY <3>1, <2>2, <2>4, HeldParts
  <2>6. ListIn(heap', active') = ListIn(heap, active') /\ active' \in Held'
    BY <2>2, <2>5, <1>1, Moved, HeldParts DEF IInv
  <2>7. Content(active) = ListIn(heap, active) /\ Content(active)' = ListIn(heap', active')
    BY DEF Content, ListIn
  <2> QED
    BY <2>3, <2>4, <2>6, <2>7
<1> QED
  BY <1>1, Always, PTL DEF Spec, EditsOneItem

=============================================================================
