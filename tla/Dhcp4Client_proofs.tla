-------------------------- MODULE Dhcp4Client_proofs --------------------------
(***************************************************************************)
(* What is proved of Dhcp4Client for any times that a server may choose,   *)
(* any timeout, any delays between attempts, and any number of errors and  *)
(* of packets that cannot be parsed.                                       *)
(* At the end, what is proved of Dhcp4Manager, which the client            *)
(* implements, for any interfaces and any number of clients.               *)
(***************************************************************************)
EXTENDS Dhcp4Client, Dhcp4Manager, TLAPS

-----------------------------------------------------------------------------
(* The inductive invariant *)

\* A transport is open exactly while packets are exchanged, and readers are
\* left behind only on an open one.
SocketOK ==
    pc # "panic" =>
        /\ pc \in {"offer", "request", "ack", "rsend", "rack"} <=> tr = TRUE
        /\ tr = FALSE => stale = 0

\* The registry has the lease exactly while the client is bound; what ends was
\* cancelled.
RegOK ==
    /\ pc \in AcquirePCs \cup {"none", "done"} => reg = FALSE
    /\ pc \in BoundPCs => reg = TRUE
    /\ pc \in {"release", "return", "done"} => cancelled = TRUE
    /\ pc = "none" => cancelled = FALSE /\ owes = FALSE

\* Every wait of bound ends at a moment of the lease, and each attempt to renew
\* begins where the schedule wants it.
ScheduleOK ==
    /\ pc = "bound" => age + wait = Wake(lease)
    /\ pc = "wait2" => age + wait = lease.t2
    /\ pc = "due2" => age >= lease.t2
    /\ pc = "renew" => age < lease.len
    /\ pc = "renew" /\ mode = "renew" => Wake(lease) <= age /\ age < lease.t2
    /\ pc \in {"renew", "rsend", "rack"} /\ mode = "rebind" => age >= lease.t2

\* The end of a lease, or its T2 if the server put that behind it.
End(l) == IF l.t2 > l.len THEN l.t2 ELSE l.len

\* When n attempts to renew are over that began before that.
Spent(l, n) == End(l) + (IF n = 1 THEN Timeout ELSE IF n = 2 THEN 2 * Timeout ELSE 3 * Timeout)

ExpiryOK ==
    /\ pc \in {"rsend", "rack"} => attempt \in 1..3
    /\ pc = "rsend" => age + Timeout <= Spent(lease, attempt)
    /\ pc = "rack" => age + wait <= Spent(lease, attempt)
    /\ reg = TRUE => age <= Spent(lease, 3)

\* TypeOK in two parts: the numbers, and everything else.
TypedValues ==
    /\ pc \in AcquirePCs \cup BoundPCs \cup {"none", "release", "return", "done", "panic"}
    /\ {link, mac, cancelled, tr, reg, owes} \subseteq BOOLEAN
    /\ lease \in {LeaseFromAck(a) : a \in Acks} \cup {NoLease}
    /\ mode \in {"renew", "rebind"}

TypedNumbers ==
    /\ {stale, wait, age} \subseteq Nat
    /\ backoff \in FirstBackoff..MaxBackoff
    /\ attempt \in 0..3 /\ errors \in 0..MaxErrors /\ garbage \in 0..MaxGarbage

IInv == TypeOK /\ SocketOK /\ RegOK /\ ScheduleOK /\ ExpiryOK

-----------------------------------------------------------------------------
(* Leases *)

LeaseTimes(l) == l.len \in Nat /\ l.t1 \in Nat /\ l.t2 \in Nat

LEMMA AckTimes ==
  ASSUME NEW a \in Acks
  PROVE  LeaseTimes(LeaseFromAck(a))
<1> DEFINE len == IF a.lease = Absent THEN Fallback ELSE a.lease
<1>1. len \in Nat
  BY ClientAssumption
<1>2. len \div 2 \in Nat /\ ((len * 7) % Wrap) \in Nat
  <2> HIDE DEF len
  <2> QED
    BY <1>1, ClientAssumption
<1>3. ((len * 7) % Wrap) \div 8 \in Nat
  <2> DEFINE m == (len * 7) % Wrap
  <2> HIDE DEF m
  <2>1. m \in Nat
    BY <1>2 DEF m
  <2>2. m \div 8 \in Nat
    BY <2>1
  <2> QED
    BY <2>2 DEF m
<1>4. /\ a.t1 = Absent \/ a.t1 \in Nat
      /\ a.t2 = Absent \/ a.t2 \in Nat
  BY ClientAssumption
<1>5. /\ LeaseFromAck(a).len = len
      /\ LeaseFromAck(a).t1 = IF a.t1 = Absent THEN len \div 2 ELSE a.t1
      /\ LeaseFromAck(a).t2 = IF a.t2 = Absent THEN ((len * 7) % Wrap) \div 8 ELSE a.t2
  BY DEF LeaseFromAck
<1> HIDE DEF len
<1> QED
  BY <1>1, <1>2, <1>3, <1>4, <1>5 DEF LeaseTimes

LEMMA TypedLease == TypeOK => LeaseTimes(lease)
<1>1. LeaseTimes(NoLease)
  BY ClientAssumption DEF LeaseTimes, NoLease
<1> QED
  BY <1>1, AckTimes DEF TypeOK

LEMMA WakeBounds ==
  ASSUME NEW l, LeaseTimes(l)
  PROVE  Wake(l) \in Nat /\ Wake(l) <= l.t1 /\ Wake(l) <= l.t2 /\ Wake(l) <= l.len
  BY DEF LeaseTimes, Wake, Least

LEMMA EndBounds ==
  ASSUME NEW l, LeaseTimes(l)
  PROVE  End(l) \in Nat /\ l.t2 <= End(l) /\ l.len <= End(l)
  BY DEF LeaseTimes, End

LEMMA SpentBounds ==
  ASSUME NEW l, LeaseTimes(l), NEW n \in 1..3
  PROVE  /\ Spent(l, n) \in Nat /\ Spent(l, n) <= Spent(l, 3) /\ End(l) <= Spent(l, n)
         /\ Spent(l, 1) = End(l) + Timeout
         /\ n < 3 => Spent(l, n + 1) = Spent(l, n) + Timeout
  BY EndBounds, ClientAssumption DEF Spent

\* What the steps need of the lease they find.
LEMMA LeaseFacts ==
  ASSUME IInv
  PROVE  /\ lease.len \in Nat /\ lease.t1 \in Nat /\ lease.t2 \in Nat
         /\ Wake(lease) \in Nat /\ Wake(lease) <= lease.t2 /\ Wake(lease) <= lease.len
         /\ End(lease) \in Nat /\ lease.t2 <= End(lease) /\ lease.len <= End(lease)
         /\ Spent(lease, 1) = End(lease) + Timeout
         /\ Spent(lease, 2) = End(lease) + 2 * Timeout
         /\ Spent(lease, 3) = End(lease) + 3 * Timeout
<1>1. LeaseTimes(lease)
  BY TypedLease DEF IInv
<1>2. lease.len \in Nat /\ lease.t1 \in Nat /\ lease.t2 \in Nat
  BY <1>1 DEF LeaseTimes
<1>3. Wake(lease) \in Nat /\ Wake(lease) <= lease.t2 /\ Wake(lease) <= lease.len
  BY <1>1, WakeBounds
<1>4. End(lease) \in Nat /\ lease.t2 <= End(lease) /\ lease.len <= End(lease)
  BY <1>1, EndBounds
<1> QED
  BY <1>2, <1>3, <1>4 DEF Spent

-----------------------------------------------------------------------------
(* The invariant is inductive *)

LEMMA InitIInv == Init => IInv
<1> SUFFICES ASSUME Init PROVE IInv
  OBVIOUS
<1>1. TypedValues
  BY ClientAssumption DEF Init, TypedValues
<1>2. TypedNumbers
  BY ClientAssumption DEF Init, TypedNumbers
<1>3. SocketOK /\ RegOK /\ ScheduleOK /\ ExpiryOK
  BY DEF Init, SocketOK, RegOK, ScheduleOK, ExpiryOK, AcquirePCs, BoundPCs
<1> QED
  BY <1>1, <1>2, <1>3 DEF IInv, TypeOK, TypedValues, TypedNumbers

\* Steps that leave the lease and its age alone.
LEMMA QuietKeeps ==
  ASSUME IInv,
         \/ Start \/ Cancel \/ LinkUp \/ Stolen \/ Garbage \/ Loop \/ NoLink \/ ReceiveOffer
         \/ Failed \/ Backoff \/ StopBound \/ WaitT2 \/ SendRelease
  PROVE  IInv'
<1> USE LeaseFacts, ClientAssumption
    DEF IInv, TypeOK, SocketOK, RegOK, ScheduleOK, ExpiryOK, GoTo, WaitAt, Works, Fails, Receives,
        socket, env, AcquirePCs, BoundPCs, Listening
<1>1. CASE Start
  BY <1>1 DEF Start
<1>2. CASE Cancel
  BY <1>2 DEF Cancel
<1>3. CASE LinkUp
  BY <1>3 DEF LinkUp
<1>4. CASE Stolen
  BY <1>4 DEF Stolen
<1>5. CASE Garbage
  BY <1>5 DEF Garbage
<1>6. CASE Loop
  BY <1>6 DEF Loop
<1>7. CASE NoLink
  BY <1>7 DEF NoLink
<1>8. CASE ReceiveOffer
  BY <1>8 DEF ReceiveOffer
<1>9. CASE Failed
  BY <1>9 DEF Failed
<1>10. CASE Backoff
  BY <1>10 DEF Backoff, Least
<1>11. CASE StopBound
  BY <1>11 DEF StopBound
<1>12. CASE WaitT2
  BY <1>12 DEF WaitT2
<1>13. CASE SendRelease
  BY <1>13 DEF SendRelease
<1> QED
  BY <1>1, <1>2, <1>3, <1>4, <1>5, <1>6, <1>7, <1>8, <1>9, <1>10, <1>11, <1>12, <1>13

\* Time passes.
LEMMA TickKeeps == ASSUME IInv, Tick PROVE IInv'
<1>1. /\ wait \in Nat /\ age \in Nat /\ wait > 0 /\ wait' = wait - 1
      /\ pc \in BoundPCs => age' = age + 1
      /\ pc \notin BoundPCs => age' = age
      /\ pc \in Waiting
      /\ UNCHANGED <<pc, link, mac, cancelled, tr, stale, backoff, lease, mode, attempt, reg, owes,
                     errors, garbage>>
  BY DEF Tick, IInv, TypeOK, env, socket
<1>2. TypeOK'
  BY <1>1 DEF IInv, TypeOK
<1>3. SocketOK' /\ RegOK'
  BY <1>1 DEF IInv, SocketOK, RegOK
<1>4. ScheduleOK'
  BY <1>1, LeaseFacts DEF IInv, ScheduleOK, BoundPCs, Waiting, Listening
<1>5. pc = "rack" =>
         /\ attempt \in 1..3 /\ age + wait <= Spent(lease, attempt)
         /\ Spent(lease, attempt) \in Nat /\ Spent(lease, attempt) <= Spent(lease, 3)
         /\ Spent(lease, 3) \in Nat
  <2>1. pc = "rack" => attempt \in 1..3 /\ age + wait <= Spent(lease, attempt)
    BY DEF IInv, ExpiryOK
  <2>2. \A n \in 1..3 : /\ Spent(lease, n) \in Nat /\ Spent(lease, n) <= Spent(lease, 3)
                       /\ Spent(lease, 3) \in Nat
    BY TypedLease, SpentBounds DEF IInv
  <2> QED
    BY <2>1, <2>2
<1>6. reg = TRUE => age' <= Spent(lease, 3)
  <2>1. CASE pc = "rack"
    BY <1>1, <1>5, <2>1
  <2>2. CASE pc \in {"bound", "wait2"}
    BY <1>1, <2>2, LeaseFacts, ClientAssumption DEF IInv, ScheduleOK
  <2>3. CASE pc \in AcquirePCs
    BY <2>3 DEF IInv, RegOK
  <2> QED
    BY <1>1, <2>1, <2>2, <2>3 DEF Waiting, Listening, AcquirePCs
<1>7. ExpiryOK'
  BY <1>1, <1>5, <1>6 DEF ExpiryOK, Waiting, Listening, BoundPCs
<1> QED
  BY <1>2, <1>3, <1>4, <1>7 DEF IInv

\* The packets with which a lease is acquired; what fails closes the socket.
LEMMA ExchangeKeeps ==
  ASSUME IInv, Discover \/ SendRequest \/ AcquireFails
  PROVE  IInv'
<1> USE DEF IInv, TypeOK, GoTo, WaitAt, Works, Fails, Close, Receives, socket, env
<1>1. CASE Discover
  <2> USE <1>1 DEF Discover
  <2>1. TypedValues'
    BY DEF TypedValues, AcquirePCs, BoundPCs
  <2>2. TypedNumbers'
    BY LeaseFacts, ClientAssumption DEF TypedNumbers
  <2>3. SocketOK' /\ RegOK'
    BY DEF SocketOK, RegOK, AcquirePCs, BoundPCs
  <2>4. ScheduleOK'
    BY LeaseFacts DEF ScheduleOK
  <2>5. ExpiryOK'
    BY LeaseFacts, ClientAssumption DEF ExpiryOK, ScheduleOK, RegOK, AcquirePCs, BoundPCs
  <2> QED
    BY <2>1, <2>2, <2>3, <2>4, <2>5 DEF TypedValues, TypedNumbers
<1>2. CASE SendRequest
  <2> USE <1>2 DEF SendRequest
  <2>1. TypedValues'
    BY DEF TypedValues, AcquirePCs, BoundPCs
  <2>2. TypedNumbers'
    BY LeaseFacts, ClientAssumption DEF TypedNumbers
  <2>3. SocketOK' /\ RegOK'
    BY DEF SocketOK, RegOK, AcquirePCs, BoundPCs
  <2>4. ScheduleOK'
    BY LeaseFacts DEF ScheduleOK
  <2>5. ExpiryOK'
    BY LeaseFacts, ClientAssumption DEF ExpiryOK, ScheduleOK, RegOK, AcquirePCs, BoundPCs
  <2> QED
    BY <2>1, <2>2, <2>3, <2>4, <2>5 DEF TypedValues, TypedNumbers
<1>3. CASE AcquireFails
  <2> USE <1>3 DEF AcquireFails
  <2>1. TypedValues'
    BY DEF TypedValues, AcquirePCs, BoundPCs
  <2>2. TypedNumbers'
    BY LeaseFacts, ClientAssumption DEF TypedNumbers
  <2>3. SocketOK' /\ RegOK'
    BY DEF SocketOK, RegOK, AcquirePCs, BoundPCs
  <2>4. ScheduleOK'
    BY LeaseFacts DEF ScheduleOK
  <2>5. ExpiryOK'
    BY LeaseFacts, ClientAssumption DEF ExpiryOK, ScheduleOK, RegOK, AcquirePCs, BoundPCs
  <2> QED
    BY <2>1, <2>2, <2>3, <2>4, <2>5 DEF TypedValues, TypedNumbers
<1> QED
  BY <1>1, <1>2, <1>3

\* The steps of bound between the waits, and of renew: what gives a lease up
\* takes it from the registry and forgets its age.
LEMMA RenewingKeeps ==
  ASSUME IInv, Due \/ OpenRenew \/ SendRenew \/ ReceiveRenewNak \/ RenewAgain \/ RenewGivesUp \/ DueT2
  PROVE  IInv'
<1> USE DEF IInv, TypeOK, GoTo, WaitAt, Works, Fails, Close, Receives, socket, env
<1>1. CASE Due
  <2> USE <1>1 DEF Due, Lost
  <2>1. TypedValues'
    BY DEF TypedValues, AcquirePCs, BoundPCs
  <2>2. TypedNumbers'
    BY LeaseFacts, ClientAssumption DEF TypedNumbers
  <2>3. SocketOK' /\ RegOK'
    BY DEF SocketOK, RegOK, AcquirePCs, BoundPCs
  <2>4. ScheduleOK'
    BY LeaseFacts DEF ScheduleOK
  <2>5. ExpiryOK'
    BY LeaseFacts, ClientAssumption DEF ExpiryOK, ScheduleOK, RegOK, AcquirePCs, BoundPCs
  <2> QED
    BY <2>1, <2>2, <2>3, <2>4, <2>5 DEF TypedValues, TypedNumbers
<1>2. CASE OpenRenew
  <2> USE <1>2 DEF OpenRenew, RenewFailed, Lost
  <2>1. TypedValues'
    BY DEF TypedValues, AcquirePCs, BoundPCs
  <2>2. TypedNumbers'
    BY LeaseFacts, ClientAssumption DEF TypedNumbers
  <2>3. SocketOK' /\ RegOK'
    BY DEF SocketOK, RegOK, AcquirePCs, BoundPCs
  <2>4. ScheduleOK'
    BY LeaseFacts DEF ScheduleOK
  <2>5. ExpiryOK'
    <3>1. CASE pc' = "rsend"
      BY <3>1, LeaseFacts, ClientAssumption DEF ExpiryOK, ScheduleOK, RegOK, AcquirePCs, BoundPCs
    <3>2. CASE pc' # "rsend"
      BY <3>2, LeaseFacts, ClientAssumption DEF ExpiryOK, ScheduleOK, RegOK, AcquirePCs, BoundPCs
    <3> QED
      BY <3>1, <3>2
  <2> QED
    BY <2>1, <2>2, <2>3, <2>4, <2>5 DEF TypedValues, TypedNumbers
<1>3. CASE SendRenew
  <2> USE <1>3 DEF SendRenew, RenewFailed, Lost
  <2>1. TypedValues'
    BY DEF TypedValues, AcquirePCs, BoundPCs
  <2>2. TypedNumbers'
    BY LeaseFacts, ClientAssumption DEF TypedNumbers
  <2>3. SocketOK' /\ RegOK'
    BY DEF SocketOK, RegOK, AcquirePCs, BoundPCs
  <2>4. ScheduleOK'
    BY LeaseFacts DEF ScheduleOK
  <2>5. ExpiryOK'
    BY LeaseFacts, ClientAssumption DEF ExpiryOK, ScheduleOK, RegOK, AcquirePCs, BoundPCs
  <2> QED
    BY <2>1, <2>2, <2>3, <2>4, <2>5 DEF TypedValues, TypedNumbers
<1>4. CASE ReceiveRenewNak
  <2> USE <1>4 DEF ReceiveRenewNak, RenewFailed, Lost
  <2>1. TypedValues'
    BY DEF TypedValues, AcquirePCs, BoundPCs
  <2>2. TypedNumbers'
    BY LeaseFacts, ClientAssumption DEF TypedNumbers
  <2>3. SocketOK' /\ RegOK'
    BY DEF SocketOK, RegOK, AcquirePCs, BoundPCs
  <2>4. ScheduleOK'
    BY LeaseFacts DEF ScheduleOK
  <2>5. ExpiryOK'
    BY LeaseFacts, ClientAssumption DEF ExpiryOK, ScheduleOK, RegOK, AcquirePCs, BoundPCs
  <2> QED
    BY <2>1, <2>2, <2>3, <2>4, <2>5 DEF TypedValues, TypedNumbers
<1>5. CASE RenewAgain
  <2> USE <1>5 DEF RenewAgain
  <2>1. TypedValues'
    BY DEF TypedValues, AcquirePCs, BoundPCs
  <2>2. TypedNumbers'
    BY LeaseFacts, ClientAssumption DEF TypedNumbers
  <2>3. SocketOK' /\ RegOK'
    BY DEF SocketOK, RegOK, AcquirePCs, BoundPCs
  <2>4. ScheduleOK'
    BY LeaseFacts DEF ScheduleOK
  <2>5. ExpiryOK'
    BY LeaseFacts, ClientAssumption DEF ExpiryOK, ScheduleOK, RegOK, AcquirePCs, BoundPCs
  <2> QED
    BY <2>1, <2>2, <2>3, <2>4, <2>5 DEF TypedValues, TypedNumbers
<1>6. CASE RenewGivesUp
  <2> USE <1>6 DEF RenewGivesUp, RenewFailed, Lost
  <2>1. TypedValues'
    BY DEF TypedValues, AcquirePCs, BoundPCs
  <2>2. TypedNumbers'
    BY LeaseFacts, ClientAssumption DEF TypedNumbers
  <2>3. SocketOK' /\ RegOK'
    BY DEF SocketOK, RegOK, AcquirePCs, BoundPCs
  <2>4. ScheduleOK'
    BY LeaseFacts DEF ScheduleOK
  <2>5. ExpiryOK'
    BY LeaseFacts, ClientAssumption DEF ExpiryOK, ScheduleOK, RegOK, AcquirePCs, BoundPCs
  <2> QED
    BY <2>1, <2>2, <2>3, <2>4, <2>5 DEF TypedValues, TypedNumbers
<1>7. CASE DueT2
  <2> USE <1>7 DEF DueT2, Lost
  <2>1. TypedValues'
    BY DEF TypedValues, AcquirePCs, BoundPCs
  <2>2. TypedNumbers'
    BY LeaseFacts, ClientAssumption DEF TypedNumbers
  <2>3. SocketOK' /\ RegOK'
    BY DEF SocketOK, RegOK, AcquirePCs, BoundPCs
  <2>4. ScheduleOK'
    BY LeaseFacts DEF ScheduleOK
  <2>5. ExpiryOK'
    BY LeaseFacts, ClientAssumption DEF ExpiryOK, ScheduleOK, RegOK, AcquirePCs, BoundPCs
  <2> QED
    BY <2>1, <2>2, <2>3, <2>4, <2>5 DEF TypedValues, TypedNumbers
<1> QED
  BY <1>1, <1>2, <1>3, <1>4, <1>5, <1>6, <1>7

\* A new lease, in whose time bound waits from now on.
LEMMA BindKeeps ==
  ASSUME IInv, NEW a \in Acks, ReceiveAck(a) \/ ReceiveRenewAck(a)
  PROVE  IInv'
<1>1. LeaseTimes(LeaseFromAck(a))
  BY AckTimes
<1>2. /\ lease' = LeaseFromAck(a) /\ age' = 0 /\ reg' = TRUE /\ pc' = "bound"
      /\ wait' = Wake(LeaseFromAck(a)) /\ tr' = FALSE /\ stale' = 0
      /\ owes' \in {owes, cancelled} /\ backoff' \in {backoff, FirstBackoff}
      /\ UNCHANGED <<link, mac, cancelled, mode, attempt, errors, garbage>>
  BY DEF ReceiveAck, ReceiveRenewAck, Bind, WaitAt, Close, env
<1>3. Wake(lease') \in Nat /\ Spent(lease', 3) \in Nat
  BY <1>1, <1>2, WakeBounds, SpentBounds
<1>4. TypeOK'
  <2>1. TypedValues'
    BY <1>2 DEF IInv, TypeOK, TypedValues, BoundPCs
  <2>2. TypedNumbers'
    BY <1>2, <1>3, ClientAssumption DEF IInv, TypeOK, TypedNumbers
  <2> QED
    BY <2>1, <2>2 DEF TypeOK, TypedValues, TypedNumbers
<1>5. SocketOK' /\ RegOK'
  BY <1>2 DEF SocketOK, RegOK, AcquirePCs, BoundPCs
<1>6. ScheduleOK'
  BY <1>2, <1>3 DEF ScheduleOK
<1>7. ExpiryOK'
  BY <1>2, <1>3 DEF ExpiryOK
<1> QED
  BY <1>4, <1>5, <1>6, <1>7 DEF IInv

LEMMA ReturnKeeps == ASSUME IInv, Return PROVE IInv'
  BY DEF IInv, TypeOK, SocketOK, RegOK, ScheduleOK, ExpiryOK, Return, GoTo, socket, env,
         AcquirePCs, BoundPCs

LEMMA StepKeeps == IInv /\ [Next]_vars => IInv'
<1>1. ASSUME IInv, UNCHANGED vars PROVE IInv'
  BY <1>1 DEF vars, IInv, TypeOK, SocketOK, RegOK, ScheduleOK, ExpiryOK
<1>2. ASSUME IInv, Next PROVE IInv'
  BY <1>2, QuietKeeps, TickKeeps, ExchangeKeeps, RenewingKeeps, BindKeeps, ReturnKeeps
     DEF Next, Run
<1> QED
  BY <1>1, <1>2

LEMMA Invariant == Spec => []IInv
  BY InitIInv, StepKeeps, PTL DEF Spec

-----------------------------------------------------------------------------
(* Theorems *)

\* The variables have their types; in particular no wait is negative.
THEOREM ClientTypeCorrect == Spec => []TypeOK
<1>1. IInv => TypeOK
  BY DEF IInv
<1> QED
  BY <1>1, Invariant, PTL

\* Packets are exchanged on an open transport, and no wait of the client leaves
\* one open or a reader behind.
THEOREM SocketsClosed == Spec => []TransportPaired
<1>1. IInv => TransportPaired
  BY DEF IInv, TypeOK, SocketOK, TransportPaired, Listening
<1> QED
  BY <1>1, Invariant, PTL

\* Renewal and rebinding keep to T1, T2 and the expiry, whatever the server
\* puts into its ACK.
THEOREM OnSchedule == Spec => []RenewalSchedule
<1>1. IInv => RenewalSchedule
  BY DEF IInv, ScheduleOK, RenewalSchedule
<1> QED
  BY <1>1, Invariant, PTL

\* An expired lease is given up after the attempts that were under way.
THEOREM NotPastExpiry == Spec => []ExpiryBounded
<1>1. IInv => ExpiryBounded
  BY LeaseFacts DEF IInv, TypeOK, ExpiryOK, ExpiryBounded, End
<1> QED
  BY <1>1, Invariant, PTL

\* The steps that take the lease from the registry.
LEMMA LosesLate ==
  ASSUME IInv, Next, reg = TRUE, reg' # TRUE
  PROVE  age >= Least(lease.t2, lease.len) \/ cancelled = TRUE
<1> USE DEF IInv, Lost, GoTo
<1>1. CASE Due \/ DueT2
  <2>1. age >= lease.len
    BY <1>1 DEF Due, DueT2
  <2>2. age \in Nat
    BY DEF TypeOK
  <2> QED
    BY <2>1, <2>2, LeaseFacts DEF Least
<1>2. CASE OpenRenew \/ SendRenew \/ ReceiveRenewNak \/ RenewGivesUp
  <2>1. pc \in {"renew", "rsend", "rack"} /\ mode = "rebind"
    BY <1>2 DEF OpenRenew, SendRenew, ReceiveRenewNak, RenewGivesUp, RenewFailed
  <2>2. age \in Nat /\ age >= lease.t2
    BY <2>1 DEF TypeOK, ScheduleOK
  <2> QED
    BY <2>2, LeaseFacts DEF Least
<1>3. CASE Return
  BY <1>3 DEF Return, RegOK
<1>4. CASE \/ Start \/ Cancel \/ LinkUp \/ Tick \/ Stolen \/ Garbage
            \/ Loop \/ NoLink \/ Discover \/ ReceiveOffer \/ SendRequest
            \/ AcquireFails \/ Failed \/ Backoff \/ StopBound \/ RenewAgain
            \/ WaitT2 \/ SendRelease
  BY <1>4 DEF Start, Cancel, LinkUp, Tick, Stolen, Garbage, Loop, NoLink, Discover, ReceiveOffer,
              SendRequest, AcquireFails, Failed, Backoff, StopBound, RenewAgain, WaitT2, SendRelease
<1>5. CASE \E a \in Acks : ReceiveAck(a) \/ ReceiveRenewAck(a)
  BY <1>5 DEF ReceiveAck, ReceiveRenewAck, Bind
<1> QED
  BY <1>1, <1>2, <1>3, <1>4, <1>5 DEF Next, Run

\* Before T2 nothing but its own end makes the client give up a lease.
THEOREM KeptUntilT2 == Spec => HeldUntilT2
<1> DEFINE Kept == reg /\ ~reg' => age >= Least(lease.t2, lease.len) \/ cancelled
<1>1. ASSUME IInv, IInv', [Next]_vars PROVE [Kept]_vars
  <2>1. reg \in BOOLEAN /\ reg' \in BOOLEAN /\ cancelled \in BOOLEAN
    BY <1>1 DEF IInv, TypeOK
  <2>2. CASE Next
    BY <1>1, <2>1, <2>2, LosesLate
  <2>3. CASE UNCHANGED vars
    BY <2>3
  <2> QED
    BY <1>1, <2>2, <2>3
<1> QED
  BY <1>1, Invariant, PTL DEF Spec, HeldUntilT2

-----------------------------------------------------------------------------
(* Dhcp4Client implements Dhcp4Manager *)

\* The clients that M sees: one, with what the others know of this one.
Only(x) == [i \in {"wan"} |-> [n \in 1..1 |-> x]]
As(p, c, o) == [pc |-> p, cancelled |-> c, owes |-> o]
Seen == Only(As(ClientPC, cancelled, owes))

LEMMA OnlyMoves ==
  ASSUME NEW p, NEW c, NEW o, NEW q
  PROVE  [Only(As(p, c, o)) EXCEPT !["wan"][1].pc = q] = Only(As(q, c, o))
  BY DEF Only, As

LEMMA OnlyOwes ==
  ASSUME NEW p, NEW c, NEW o, NEW w
  PROVE  [Only(As(p, c, o)) EXCEPT !["wan"][1].owes = w] = Only(As(p, c, w))
  BY DEF Only, As

LEMMA AsMoves ==
  ASSUME NEW p, NEW c, NEW o, NEW q
  PROVE  [As(p, c, o) EXCEPT !.pc = q] = As(q, c, o)
  BY DEF As

\* The client moves to q.
LEMMA SeenMoves ==
  ASSUME NEW q, ClientPC' = q, cancelled' = cancelled
  PROVE  /\ owes' = owes => Seen' = [Seen EXCEPT !["wan"][1].pc = q]
         /\ Seen' = [Seen EXCEPT !["wan"][1].pc = q, !["wan"][1].owes = owes']
<1>1. Seen' = Only(As(q, cancelled, owes'))
  BY DEF Seen
<1>2. [Only(As(ClientPC, cancelled, owes)) EXCEPT !["wan"][1].pc = q] = Only(As(q, cancelled, owes))
  BY OnlyMoves
<1>3. [Only(As(ClientPC, cancelled, owes)) EXCEPT !["wan"][1].pc = q, !["wan"][1].owes = owes']
        = [[Only(As(ClientPC, cancelled, owes)) EXCEPT !["wan"][1].pc = q]
             EXCEPT !["wan"][1].owes = owes']
  OBVIOUS
<1>4. [Only(As(q, cancelled, owes)) EXCEPT !["wan"][1].owes = owes'] = Only(As(q, cancelled, owes'))
  BY OnlyOwes
<1> QED
  BY <1>1, <1>2, <1>3, <1>4 DEF Seen

\* What M sees of the client is unchanged.
LEMMA Unseen ==
  ASSUME pc' # "panic", pc # "panic", pc = "none" <=> pc' = "none",
         ClientPC' = ClientPC, UNCHANGED <<cancelled, owes, reg>>
  PROVE  UNCHANGED M!managerVars
  BY DEF M!managerVars

LEMMA InitRefines == Init => M!ManagerInit
  BY DEF Init, M!ManagerInit, M!Unused, M!Gens, ClientPC, AcquirePCs, BoundPCs

LEMMA StartRefines == ASSUME IInv, Start PROVE M!Sync({"wan"})
<1>1. /\ pc = "none" /\ pc' = "loop" /\ cancelled = FALSE /\ owes = FALSE /\ reg = FALSE
      /\ UNCHANGED <<cancelled, owes, reg>>
      /\ ClientPC = "none" /\ ClientPC' = "acquire"
  BY DEF IInv, RegOK, Start, GoTo, env, ClientPC, AcquirePCs, BoundPCs
<1>2. M!Unused = As("none", FALSE, FALSE) /\ M!Started = As("acquire", FALSE, FALSE)
  <2>1. M!Unused = As("none", FALSE, FALSE)
    BY DEF M!Unused, As
  <2>2. PICK p, q, f : p = "none" /\ q = "acquire" /\ f = FALSE
    OBVIOUS
  <2>3. [As(p, f, f) EXCEPT !.pc = q] = As(q, f, f)
    BY AsMoves
  <2> QED
    BY <2>1, <2>2, <2>3 DEF M!Started
<1>3. Seen = Only(M!Unused) /\ Seen' = Only(M!Started)
  BY <1>1, <1>2 DEF Seen
<1> DEFINE n == [i \in {"wan"} |-> 1]
<1>4. n \in [{"wan"} -> M!Gens \cup {0}]
  BY DEF M!Gens
<1>5. \A i \in {"wan"} : n[i] \in M!ToStart(i, {"wan"})
  <2>1. Seen["wan"][1] = M!Unused
    BY <1>3 DEF Only
  <2> QED
    BY <1>1, <2>1 DEF M!ToStart, M!Gens, Seen, Only, As
<1>6. Seen' = [i \in {"wan"} |-> [m \in M!Gens |-> M!Started]]
  BY <1>3 DEF Only, M!Gens
<1> HIDE DEF n
<1>7. \A i \in {"wan"} : n[i] = 1
  BY DEF n
<1> QED
  BY <1>1, <1>4, <1>5, <1>6, <1>7 DEF M!Sync, M!Gens, Seen, Only, As

LEMMA StopRefines ==
  ASSUME IInv, UNCHANGED <<cancelled, owes, reg>>, cancelled = TRUE, pc \notin {"none", "panic"},
         \/ pc \in BoundPCs /\ pc' = "release"
         \/ pc \in AcquirePCs /\ pc' \in {"release", "return"}
  PROVE  M!Stop("wan", 1)
<1>1. /\ ClientPC \in {"acquire", "bound"} /\ ClientPC' = pc'
      /\ pc' \in {"release", "return"} /\ (ClientPC = "bound" => pc' = "release")
  BY DEF ClientPC, AcquirePCs, BoundPCs
<1>2. /\ Only(As(ClientPC, cancelled, owes))["wan"][1].pc = ClientPC
      /\ Only(As(ClientPC, cancelled, owes))["wan"][1].cancelled = TRUE
  BY DEF Only, As
<1>3. M!Alive
  BY DEF M!Alive
<1>4. CASE pc' = "release"
  <2>1. Seen' = [Seen EXCEPT !["wan"][1].pc = "release"]
    BY <1>1, <1>4, SeenMoves
  <2> QED
    BY <1>1, <1>2, <1>3, <1>4, <2>1 DEF M!Stop, Seen, Only, As
<1>5. CASE pc' = "return"
  <2>1. Seen' = [Seen EXCEPT !["wan"][1].pc = "return"]
    BY <1>1, <1>5, SeenMoves
  <2> QED
    BY <1>1, <1>2, <1>3, <1>5, <2>1 DEF M!Stop, Seen, Only, As
<1> QED
  BY <1>1, <1>4, <1>5

LEMMA AcquireRefines == ASSUME IInv, NEW a \in Acks, ReceiveAck(a) PROVE M!Acquire("wan", 1)
<1>1. /\ pc = "ack" /\ pc' = "bound" /\ reg' = TRUE /\ owes' = cancelled /\ cancelled' = cancelled
      /\ ClientPC = "acquire" /\ ClientPC' = "bound"
  BY DEF ReceiveAck, Bind, WaitAt, env, ClientPC, AcquirePCs, BoundPCs
<1>2. /\ Only(As(ClientPC, cancelled, owes))["wan"][1].pc = "acquire"
      /\ Only(As(ClientPC, cancelled, owes))["wan"][1].cancelled = cancelled
  BY <1>1 DEF Only, As
<1>3. Seen' = [Seen EXCEPT !["wan"][1].pc = "bound", !["wan"][1].owes = cancelled]
  BY <1>1, SeenMoves
<1>4. M!Alive
  BY <1>1 DEF M!Alive
<1> QED
  BY <1>1, <1>2, <1>3, <1>4 DEF M!Acquire, Seen, Only, As

LEMMA AsMarked ==
  ASSUME NEW p, NEW c, NEW o, NEW d
  PROVE  [As(p, c, o) EXCEPT !.cancelled = d] = As(p, d, o)
  BY DEF As

LEMMA AsOwes ==
  ASSUME NEW p, NEW c, NEW o, NEW w
  PROVE  [As(p, c, o) EXCEPT !.owes = w] = As(p, c, w)
  BY DEF As

LEMMA OnlyAt ==
  ASSUME NEW x, NEW y
  PROVE  Only(x)["wan"][1] = x /\ [Only(x) EXCEPT !["wan"][1] = y] = Only(y)
  BY DEF Only

LEMMA CancelRefines == ASSUME IInv, Cancel PROVE M!Release("wan")
<1>1. /\ pc \notin {"none", "panic"} /\ pc' = pc /\ cancelled = FALSE /\ cancelled' = TRUE
      /\ reg' = reg /\ ClientPC' = ClientPC
      /\ owes' \in BOOLEAN
  BY DEF IInv, TypeOK, Cancel, ClientPC, AcquirePCs, BoundPCs
<1>2. owes' = (ClientPC = "bound")
  BY <1>1 DEF Cancel, ClientPC, AcquirePCs, BoundPCs
<1> DEFINE c == As(ClientPC, cancelled, owes)
<1>3. c.pc = ClientPC
  BY DEF As
<1>4. M!Cancelled(c) = As(ClientPC, TRUE, owes')
  <2>1. [c EXCEPT !.cancelled = TRUE, !.owes = owes']
          = [[c EXCEPT !.cancelled = TRUE] EXCEPT !.owes = owes']
    OBVIOUS
  <2>2. PICK d : d = TRUE
    OBVIOUS
  <2>3. [c EXCEPT !.cancelled = d] = As(ClientPC, d, owes)
    BY AsMarked
  <2>4. [As(ClientPC, d, owes) EXCEPT !.owes = owes'] = As(ClientPC, d, owes')
    BY AsOwes
  <2>5. M!Cancelled(c) = [c EXCEPT !.cancelled = TRUE, !.owes = owes']
    BY <1>2, <1>3 DEF M!Cancelled
  <2> QED
    BY <2>1, <2>2, <2>3, <2>4, <2>5
<1>5. Seen' = Only(As(ClientPC, TRUE, owes'))
  BY <1>1 DEF Seen
<1>6. Seen["wan"][1] = c /\ [Seen EXCEPT !["wan"][1] = M!Cancelled(c)] = Only(M!Cancelled(c))
  BY OnlyAt DEF Seen
<1>7. Seen' = [Seen EXCEPT !["wan"][1] = M!Cancelled(@)]
  BY <1>4, <1>5, <1>6
<1> HIDE DEF c, M!Cancelled
<1>8. Seen' = [Seen EXCEPT !["wan"][IF pc # "none" /\ ~cancelled THEN 1 ELSE 0] = M!Cancelled(@)]
  BY <1>1, <1>7
<1> QED
  BY <1>1, <1>8 DEF M!Release, Seen, Only, As

LEMMA RenewRefines == ASSUME IInv, NEW a \in Acks, ReceiveRenewAck(a) PROVE M!Renew("wan", 1)
<1>1. /\ pc = "rack" /\ pc' = "bound" /\ reg' = TRUE /\ UNCHANGED <<cancelled, owes>>
      /\ ClientPC = "bound" /\ ClientPC' = "bound"
  BY DEF ReceiveRenewAck, Bind, WaitAt, env, ClientPC, AcquirePCs, BoundPCs
<1>2. Only(As(ClientPC, cancelled, owes))["wan"][1].pc = "bound"
  BY <1>1 DEF Only, As
<1>3. M!Alive
  BY <1>1 DEF M!Alive
<1>4. Seen' = Seen
  BY <1>1 DEF Seen
<1> QED
  BY <1>1, <1>2, <1>3, <1>4 DEF M!Renew, Seen, Only, As

LEMMA LoseRefines ==
  ASSUME pc \in BoundPCs, pc' = "loop", reg' = FALSE, UNCHANGED <<cancelled, owes>>
  PROVE  M!Lose("wan", 1)
<1>1. ClientPC = "bound" /\ ClientPC' = "acquire" /\ pc # "panic" /\ pc # "none"
  BY DEF ClientPC, AcquirePCs, BoundPCs
<1>2. Only(As(ClientPC, cancelled, owes))["wan"][1].pc = "bound"
  BY <1>1 DEF Only, As
<1>3. M!Alive
  BY <1>1 DEF M!Alive
<1>4. Seen' = [Seen EXCEPT !["wan"][1].pc = "acquire"]
  BY <1>1, SeenMoves
<1> QED
  BY <1>1, <1>2, <1>3, <1>4 DEF M!Lose, Seen, Only, As

LEMMA SendReleaseRefines == ASSUME IInv, SendRelease PROVE M!ClientReleases("wan", 1)
<1>1. /\ pc = "release" /\ pc' = "return" /\ UNCHANGED <<cancelled, reg>>
      /\ ClientPC = "release" /\ ClientPC' = "return"
  BY DEF SendRelease, GoTo, env, ClientPC, AcquirePCs, BoundPCs
<1>2. owes \in BOOLEAN
  BY DEF IInv, TypeOK
<1>3. PICK sent \in BOOLEAN : owes' = (owes /\ ~sent)
  <2>1. owes' = (owes /\ ~(lease # NoLease)) \/ owes' = (owes /\ ~FALSE)
    BY <1>2 DEF SendRelease
  <2> QED
    BY <2>1
<1>4. /\ Only(As(ClientPC, cancelled, owes))["wan"][1].pc = "release"
      /\ Only(As(ClientPC, cancelled, owes))["wan"][1].owes = owes
  BY <1>1 DEF Only, As
<1>5. M!Alive
  BY <1>1 DEF M!Alive
<1>6. Seen' = [Seen EXCEPT !["wan"][1].pc = "return", !["wan"][1].owes = owes']
  BY <1>1, SeenMoves
<1>7. Seen' = [Seen EXCEPT !["wan"][1].pc = "return", !["wan"][1].owes = @ /\ ~sent]
  BY <1>3, <1>4, <1>6 DEF Seen
<1> QED
  BY <1>1, <1>4, <1>5, <1>7 DEF M!ClientReleases, Seen, Only, As

LEMMA ReturnRefines == ASSUME IInv, Return PROVE M!ClientReturns("wan", 1)
<1>1. /\ pc = "return" /\ pc' = "done" /\ reg' = FALSE /\ UNCHANGED <<cancelled, owes>>
      /\ ClientPC = "return" /\ ClientPC' = "done"
  BY DEF Return, GoTo, env, ClientPC, AcquirePCs, BoundPCs
<1>2. Only(As(ClientPC, cancelled, owes))["wan"][1].pc = "return"
  BY <1>1 DEF Only, As
<1>3. M!Alive
  BY <1>1 DEF M!Alive
<1>4. Seen' = [Seen EXCEPT !["wan"][1].pc = "done"]
  BY <1>1, SeenMoves
<1> QED
  BY <1>1, <1>2, <1>3, <1>4 DEF M!ClientReturns, Seen, Only, As

LEMMA CrashRefines == ASSUME IInv, Garbage PROVE M!Crash
  BY DEF IInv, TypeOK, RegOK, Garbage, GoTo, M!Crash, M!Alive, M!Gens, ClientPC, AcquirePCs,
         BoundPCs, Listening, env

\* Steps that stay in one of the places that M tells apart.
LEMMA StaysRefines ==
  ASSUME UNCHANGED <<cancelled, owes, reg>>,
         \/ pc' = pc
         \/ pc \in AcquirePCs /\ pc' \in AcquirePCs
         \/ pc \in BoundPCs /\ pc' \in BoundPCs
  PROVE  UNCHANGED M!managerVars
<1>1. /\ ClientPC' = ClientPC /\ (pc' = "panic" <=> pc = "panic") /\ (pc' = "none" <=> pc = "none")
  BY DEF ClientPC, AcquirePCs, BoundPCs
<1> QED
  BY <1>1 DEF M!managerVars

LEMMA StepRefines == ASSUME IInv, [Next]_vars PROVE [M!ManagerNext]_M!managerVars
<1> USE DEF GoTo, WaitAt, env, socket
<1>1. "wan" \in {"wan"} /\ 1 \in M!Gens /\ {"wan"} \in SUBSET {"wan"}
  BY DEF M!Gens
<1>2. ASSUME M!Step("wan", 1) PROVE M!ManagerNext
  BY <1>1, <1>2 DEF M!ManagerNext
<1>3. CASE Start
  BY <1>1, <1>3, StartRefines DEF M!ManagerNext
<1>4. CASE Cancel
  BY <1>1, <1>4, CancelRefines DEF M!ManagerNext
<1>5. CASE Garbage
  BY <1>5, CrashRefines DEF M!ManagerNext
<1>6. CASE LinkUp \/ Tick \/ Stolen \/ UNCHANGED vars
  BY <1>6, StaysRefines DEF LinkUp, Tick, Stolen, vars
<1>7. CASE Discover \/ ReceiveOffer \/ SendRequest \/ AcquireFails
  BY <1>7, StaysRefines DEF Discover, ReceiveOffer, SendRequest, AcquireFails, AcquirePCs
<1>8. CASE Loop \/ NoLink \/ Failed \/ Backoff \/ StopBound
  <2>1. /\ UNCHANGED <<cancelled, owes, reg>>
        /\ \/ pc \in AcquirePCs /\ pc' \in AcquirePCs
           \/ /\ cancelled = TRUE
              /\ \/ pc \in BoundPCs /\ pc' = "release"
                 \/ pc \in AcquirePCs /\ pc' \in {"release", "return"}
    BY <1>8 DEF Loop, NoLink, Failed, Backoff, StopBound, AcquirePCs, BoundPCs, IInv, TypeOK
  <2>2. CASE pc \in AcquirePCs /\ pc' \in AcquirePCs
    BY <2>1, <2>2, StaysRefines
  <2>3. CASE /\ cancelled = TRUE
             /\ \/ pc \in BoundPCs /\ pc' = "release"
                \/ pc \in AcquirePCs /\ pc' \in {"release", "return"}
    <3>1. pc \notin {"none", "panic"}
      BY <2>3 DEF AcquirePCs, BoundPCs
    <3>2. M!Stop("wan", 1)
      BY <2>1, <2>3, <3>1, StopRefines
    <3> QED
      BY <1>2, <3>2 DEF M!Step
  <2> QED
    BY <2>1, <2>2, <2>3
<1>9. CASE \E a \in Acks : ReceiveAck(a) \/ ReceiveRenewAck(a)
  BY <1>2, <1>9, AcquireRefines, RenewRefines DEF M!Step
<1>10. CASE Due \/ OpenRenew \/ SendRenew \/ ReceiveRenewNak \/ RenewAgain \/ RenewGivesUp \/ WaitT2 \/ DueT2
  <2>1. /\ UNCHANGED <<cancelled, owes>> /\ pc \in BoundPCs
        /\ \/ pc' = "loop" /\ reg' = FALSE
           \/ pc' \in BoundPCs /\ reg' = reg
    BY <1>10 DEF Due, OpenRenew, SendRenew, ReceiveRenewNak, RenewAgain, RenewGivesUp, WaitT2, DueT2,
                 Lost, RenewFailed, BoundPCs
  <2>2. CASE pc' = "loop" /\ reg' = FALSE
    BY <1>2, <2>1, <2>2, LoseRefines DEF M!Step
  <2>3. CASE pc' \in BoundPCs /\ reg' = reg
    BY <2>1, <2>3, StaysRefines
  <2> QED
    BY <2>1, <2>2, <2>3
<1>11. CASE SendRelease \/ Return
  BY <1>2, <1>11, SendReleaseRefines, ReturnRefines DEF M!Step
<1> QED
  BY <1>3, <1>4, <1>5, <1>6, <1>7, <1>8, <1>9, <1>10, <1>11 DEF Next, Run

\* What the manager and the registry see of the client is what Dhcp4Manager was
\* checked and proved with: at every step, whatever the network does.
THEOREM ImplementsManagedClient == Spec => IsManagedClient
<1>1. Init => M!ManagerInit
  BY InitRefines
<1>2. IInv /\ [Next]_vars => [M!ManagerNext]_M!managerVars
  BY StepRefines
<1> QED
  BY <1>1, <1>2, Invariant, PTL DEF Spec, IsManagedClient, M!SafeSpec

-----------------------------------------------------------------------------
(* The daemon: Dhcp4Manager, for any interfaces and any number of clients *)

\* The invariants need each other: a client that Sync starts has not been used,
\* so it holds no lease, and the one it replaces was the only one not cancelled.
DaemonIInv == ManagerTypeOK /\ OneClient /\ LeaseHasHolder

\* Initially nothing runs.
LEMMA DaemonStarts == ManagerInit => DaemonIInv
  BY DEF ManagerInit, DaemonIInv, ManagerTypeOK, OneClient, LeaseHasHolder, Gens, Client, Unused

\* A cancelled client is where it was.
LEMMA CancelledClient ==
  ASSUME NEW c \in Client
  PROVE  /\ Cancelled(c) \in Client
         /\ Cancelled(c).pc = c.pc
         /\ Cancelled(c).cancelled
  BY DEF Cancelled, Client

\* Cancelling the clients of some interfaces keeps the invariant; this is what
\* Release and Shutdown do, and Sync before it starts new ones.
LEMMA CancelKeeps ==
  ASSUME DaemonIInv, NEW S \in SUBSET Ifaces, phase' \in {"up", "stopping"}, UNCHANGED leases,
         run' = [i \in Ifaces |-> IF i \in S THEN 0 ELSE run[i]],
         cl' = [i \in Ifaces |-> [m \in Gens |->
                  IF i \in S /\ m = run[i] THEN Cancelled(cl[i][m]) ELSE cl[i][m]]]
  PROVE  DaemonIInv'
<1> USE DEF DaemonIInv
<1>1. ASSUME NEW i \in Ifaces, NEW m \in Gens
      PROVE  /\ cl[i][m] \in Client /\ cl'[i][m] \in Client
             /\ cl'[i][m].pc = cl[i][m].pc
             /\ i \in S /\ m = run[i] => cl'[i][m].cancelled
             /\ ~(i \in S /\ m = run[i]) => cl'[i][m] = cl[i][m]
  BY CancelledClient DEF ManagerTypeOK
<1>2. ManagerTypeOK'
  BY <1>1 DEF ManagerTypeOK
<1>3. OneClient'
  <2> SUFFICES ASSUME NEW i \in Ifaces, NEW m \in Gens
               PROVE  (cl'[i][m].pc # "none" /\ ~cl'[i][m].cancelled) <=> run'[i] = m
    BY DEF OneClient
  <2>1. (cl[i][m].pc # "none" /\ ~cl[i][m].cancelled) <=> run[i] = m
    BY DEF OneClient
  <2>2. m # 0
    BY DEF Gens
  <2> QED
    BY <1>1, <2>1, <2>2
<1>4. LeaseHasHolder'
  BY <1>1 DEF LeaseHasHolder, ManagerTypeOK
<1> QED
  BY <1>2, <1>3, <1>4

\* Sync keeps the invariant.
LEMMA SyncKeepsAll ==
  ASSUME DaemonIInv, NEW want \in SUBSET Ifaces, Sync(want)
  PROVE  DaemonIInv'
<1> USE DEF DaemonIInv
<1>1. PICK n \in [Ifaces -> Gens \cup {0}] :
        /\ \A i \in Ifaces : n[i] \in ToStart(i, want)
        /\ run' = [i \in Ifaces |-> IF i \notin want THEN 0
                                    ELSE IF run[i] = 0 THEN n[i] ELSE run[i]]
        /\ cl' = [i \in Ifaces |-> [m \in Gens |->
                    IF m = n[i] THEN Started
                    ELSE IF i \notin want /\ m = run[i] THEN Cancelled(cl[i][m])
                    ELSE cl[i][m]]]
  BY DEF Sync
<1>2. 0 \notin Gens
  BY DEF Gens
<1>3. Started \in Client /\ Started.pc = "acquire" /\ ~Started.cancelled
  BY DEF Started, Unused, Client
<1>4. ASSUME NEW i \in Ifaces, NEW m \in Gens
      PROVE  /\ cl[i][m] \in Client /\ cl'[i][m] \in Client
             /\ m = n[i] => /\ cl[i][m] = Unused /\ run[i] = 0 /\ run'[i] = m
                            /\ cl'[i][m] = Started
             /\ m # n[i] => cl'[i][m].pc = cl[i][m].pc
             /\ m # n[i] /\ i \notin want /\ m = run[i] => cl'[i][m].cancelled
             /\ m # n[i] /\ ~(i \notin want /\ m = run[i]) => cl'[i][m] = cl[i][m]
  <2>1. cl[i][m] \in Client
    BY DEF ManagerTypeOK
  <2>2. m = n[i] => i \in want /\ run[i] = 0 /\ cl[i][m] = Unused
    BY <1>1, <1>2 DEF ToStart
  <2> QED
    BY <1>1, <1>2, <1>3, <2>1, <2>2, CancelledClient
<1>5. ManagerTypeOK'
  <2>1. run' \in [Ifaces -> Gens \cup {0}]
    BY <1>1 DEF ManagerTypeOK
  <2>2. cl' \in [Ifaces -> [Gens -> Client]]
    BY <1>1, <1>4
  <2> QED
    BY <2>1, <2>2 DEF ManagerTypeOK, Sync
<1>6. OneClient'
  <2> SUFFICES ASSUME NEW i \in Ifaces, NEW m \in Gens
               PROVE  (cl'[i][m].pc # "none" /\ ~cl'[i][m].cancelled) <=> run'[i] = m
    BY DEF OneClient
  <2>1. (cl[i][m].pc # "none" /\ ~cl[i][m].cancelled) <=> run[i] = m
    BY DEF OneClient
  <2>2. CASE m = n[i]
    BY <1>3, <1>4, <2>2
  <2>3. CASE m # n[i]
    BY <1>1, <1>2, <1>4, <2>1, <2>3
  <2> QED
    BY <2>2, <2>3
<1>7. LeaseHasHolder'
  <2> SUFFICES ASSUME NEW i \in Ifaces, leases[i] # 0
               PROVE  cl'[i][leases[i]].pc \in {"bound", "release", "return"}
    BY DEF LeaseHasHolder, Sync
  <2>1. leases[i] \in Gens /\ cl[i][leases[i]].pc \in {"bound", "release", "return"}
    BY DEF ManagerTypeOK, LeaseHasHolder
  <2>2. leases[i] # n[i]
    BY <1>4, <2>1 DEF Unused
  <2> QED
    BY <1>4, <2>1, <2>2
<1> QED
  BY <1>5, <1>6, <1>7

\* A step of one client keeps the invariant if it leaves the client with a
\* context it had, and takes its lease out of the registry before giving it up.
LEMMA ClientKeeps ==
  ASSUME DaemonIInv, NEW i \in Ifaces, NEW n \in Gens, NEW c \in Client,
         cl[i][n].pc # "none", c.pc # "none", c.cancelled = cl[i][n].cancelled,
         cl' = [cl EXCEPT ![i][n] = c],
         \/ c.pc \in {"bound", "release", "return"} /\ leases' = [leases EXCEPT ![i] = n]
         \/ c.pc \in {"release", "return"} /\ leases' = leases
         \/ leases' = [leases EXCEPT ![i] = 0],
         UNCHANGED <<phase, run>>
  PROVE  DaemonIInv'
<1> USE DEF DaemonIInv
<1>1. cl \in [Ifaces -> [Gens -> Client]] /\ leases \in [Ifaces -> Gens \cup {0}]
  BY DEF ManagerTypeOK
<1>2. ASSUME NEW j \in Ifaces, NEW m \in Gens
      PROVE  cl'[j][m] = IF j = i /\ m = n THEN c ELSE cl[j][m]
  BY <1>1
<1>3. ManagerTypeOK'
  <2>1. cl' \in [Ifaces -> [Gens -> Client]]
    BY <1>1
  <2>2. leases' \in [Ifaces -> Gens \cup {0}]
    BY <1>1
  <2> QED
    BY <2>1, <2>2 DEF ManagerTypeOK
<1>4. OneClient'
  BY <1>2 DEF OneClient
<1>5. LeaseHasHolder'
  <2> SUFFICES ASSUME NEW j \in Ifaces, leases'[j] # 0
               PROVE  cl'[j][leases'[j]].pc \in {"bound", "release", "return"}
    BY DEF LeaseHasHolder
  <2>1. CASE j = i
    <3>1. leases'[i] = n => c.pc \in {"bound", "release", "return"}
      BY <1>1, <2>1 DEF LeaseHasHolder
    <3>2. leases'[i] \in Gens
      BY <1>3, <2>1 DEF ManagerTypeOK
    <3>3. leases'[i] # n => leases'[i] = leases[i]
      BY <1>1, <2>1
    <3> QED
      BY <1>2, <2>1, <3>1, <3>2, <3>3 DEF LeaseHasHolder
  <2>2. CASE j # i
    <3>1. leases'[j] = leases[j] /\ leases[j] \in Gens
      BY <1>1, <2>2
    <3> QED
      BY <1>2, <2>2, <3>1 DEF LeaseHasHolder
  <2> QED
    BY <2>1, <2>2
<1> QED
  BY <1>3, <1>4, <1>5

\* Every step of a client keeps it.
LEMMA ClientStepKeeps ==
  ASSUME DaemonIInv, NEW i \in Ifaces, NEW n \in Gens, Step(i, n)
  PROVE  DaemonIInv'
<1> DEFINE c == cl'[i][n]
<1>0. cl[i][n] \in Client /\ cl \in [Ifaces -> [Gens -> Client]]
  BY DEF DaemonIInv, ManagerTypeOK
<1> USE <1>0
<1>1. CASE Acquire(i, n)
  <2>1. c = [cl[i][n] EXCEPT !.pc = "bound", !.owes = cl[i][n].cancelled]
        /\ cl' = [cl EXCEPT ![i][n] = c]
    BY <1>1 DEF Acquire
  <2>2. c \in Client /\ c.pc = "bound" /\ c.cancelled = cl[i][n].cancelled
    BY <2>1 DEF Client
  <2> QED
    BY <1>1, <2>1, <2>2, ClientKeeps DEF Acquire
<1>2. CASE Renew(i, n)
  BY <1>2 DEF Renew, DaemonIInv, ManagerTypeOK, OneClient, LeaseHasHolder
<1>3. CASE Lose(i, n)
  <2>1. c = [cl[i][n] EXCEPT !.pc = "acquire"] /\ cl' = [cl EXCEPT ![i][n] = c]
    BY <1>3 DEF Lose
  <2>2. c \in Client /\ c.pc = "acquire" /\ c.cancelled = cl[i][n].cancelled
    BY <2>1 DEF Client
  <2> QED
    BY <1>3, <2>1, <2>2, ClientKeeps DEF Lose
<1>4. CASE Stop(i, n)
  <2>1. PICK l \in {"release", "return"} :
          c = [cl[i][n] EXCEPT !.pc = l] /\ cl' = [cl EXCEPT ![i][n] = c]
    BY <1>4 DEF Stop
  <2> QED
    BY <1>4, <2>1, ClientKeeps DEF Stop, Client
<1>5. CASE ClientReleases(i, n)
  <2>1. PICK s \in BOOLEAN : cl' = [cl EXCEPT ![i][n].pc = "return", ![i][n].owes = @ /\ ~s]
    BY <1>5 DEF ClientReleases
  <2>2. c = [cl[i][n] EXCEPT !.pc = "return", !.owes = cl[i][n].owes /\ ~s]
        /\ cl' = [cl EXCEPT ![i][n] = c]
    BY <2>1
  <2>3. c \in Client /\ c.pc = "return" /\ c.cancelled = cl[i][n].cancelled
    BY <2>2 DEF Client
  <2> QED
    BY <1>5, <2>2, <2>3, ClientKeeps DEF ClientReleases
<1>6. CASE ClientReturns(i, n)
  <2>1. c = [cl[i][n] EXCEPT !.pc = "done"] /\ cl' = [cl EXCEPT ![i][n] = c]
    BY <1>6 DEF ClientReturns
  <2>2. c \in Client /\ c.pc = "done" /\ c.cancelled = cl[i][n].cancelled
    BY <2>1 DEF Client
  <2> QED
    BY <1>6, <2>1, <2>2, ClientKeeps DEF ClientReturns
<1> QED
  BY <1>1, <1>2, <1>3, <1>4, <1>5, <1>6 DEF Step

\* Every step of the daemon keeps it.
LEMMA DaemonKeeps == DaemonIInv /\ [ManagerNext]_managerVars => DaemonIInv'
<1> SUFFICES ASSUME DaemonIInv, [ManagerNext]_managerVars PROVE DaemonIInv'
  OBVIOUS
<1>1. ASSUME NEW want \in SUBSET Ifaces, Sync(want) PROVE DaemonIInv'
  BY <1>1, SyncKeepsAll
<1>2. ASSUME NEW i \in Ifaces, Release(i) PROVE DaemonIInv'
  <2>1. run' = [j \in Ifaces |-> IF j \in {i} THEN 0 ELSE run[j]]
    BY <1>2 DEF Release, DaemonIInv, ManagerTypeOK
  <2>2. cl' = [j \in Ifaces |-> [m \in Gens |->
                 IF j \in {i} /\ m = run[j] THEN Cancelled(cl[j][m]) ELSE cl[j][m]]]
    BY <1>2 DEF Release, DaemonIInv, ManagerTypeOK
  <2>3. {i} \in SUBSET Ifaces /\ phase' \in {"up", "stopping"} /\ UNCHANGED leases
    BY <1>2 DEF Release
  <2> QED
    BY <2>1, <2>2, <2>3, CancelKeeps
<1>3. CASE Shutdown
  <2>1. run' = [j \in Ifaces |-> IF j \in Ifaces THEN 0 ELSE run[j]]
    BY <1>3 DEF Shutdown
  <2>2. cl' = [j \in Ifaces |-> [m \in Gens |->
                 IF j \in Ifaces /\ m = run[j] THEN Cancelled(cl[j][m]) ELSE cl[j][m]]]
    BY <1>3 DEF Shutdown
  <2>3. Ifaces \in SUBSET Ifaces /\ phase' \in {"up", "stopping"} /\ UNCHANGED leases
    BY <1>3 DEF Shutdown
  <2> QED
    BY <2>1, <2>2, <2>3, CancelKeeps
<1>4. CASE Exit \/ Crash \/ UNCHANGED managerVars
  BY <1>4 DEF Exit, Crash, managerVars, DaemonIInv, ManagerTypeOK, OneClient, LeaseHasHolder
<1>5. ASSUME NEW i \in Ifaces, NEW n \in Gens, Step(i, n) PROVE DaemonIInv'
  BY <1>5, ClientStepKeeps
<1> QED
  BY <1>1, <1>2, <1>3, <1>4, <1>5 DEF ManagerNext

\* The invariant holds throughout.
LEMMA DaemonInvariant == ManagerSpec => []DaemonIInv
  BY DaemonStarts, DaemonKeeps, PTL DEF ManagerSpec, SafeSpec

\* Whatever reconfigurations, releases and client failures happen, the clients
\* that have not been told to stop are those in Manager.run.
THEOREM AtMostOneClient == ManagerSpec => []OneClient
<1>1. DaemonIInv => OneClient
  BY DEF DaemonIInv
<1> QED
  BY DaemonInvariant, <1>1, PTL

\* The registry only has leases of clients that still hold them.
THEOREM NoOrphanLease == ManagerSpec => []LeaseHasHolder
<1>1. DaemonIInv => LeaseHasHolder
  BY DEF DaemonIInv
<1> QED
  BY DaemonInvariant, <1>1, PTL

=============================================================================
