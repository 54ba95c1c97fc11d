----------------------------- MODULE Dhcp4Client -----------------------------
(***************************************************************************)
(* The state machine of one WAN client (router/internal/dhcp4/client.go):  *)
(* DISCOVER, REQUEST, renewal at T1, rebinding at T2, RELEASE, against a   *)
(* network that loses, delays, duplicates and reorders: at any moment at   *)
(* which the client listens, any packet may arrive, or none.               *)
(*                                                                         *)
(* Time is discrete.  It passes only while the client waits (Tick), and    *)
(* not past the end of what it waits for: the machine is not slow.  A      *)
(* packet for another transaction, or of a type that is not expected, is   *)
(* skipped by the receive loops and changes nothing.                       *)
(***************************************************************************)
EXTENDS Naturals

CONSTANTS
    Acks,         \* the times in an ACK: [lease, t1, t2], each a number or Absent
    Absent,       \* the option is not in the packet
    Fallback,     \* Deps.LeaseFallback
    Width,        \* bits of the times (32 in the code)
    Timeout,      \* discoverTO, reqTO, and the wait for a link
    FirstBackoff, MaxBackoff,
    MaxErrors,    \* bound: failing openTransport, Send and Recv
    MaxGarbage    \* bound: packets that Unmarshal rejects

Wrap == 2^Width

ASSUME ClientAssumption ==
    /\ Wrap \in Nat \ {0}
    /\ \A a \in Acks : {a.lease, a.t1, a.t2} \subseteq 0..(Wrap - 1) \cup {Absent}
    /\ Fallback \in 0..(Wrap - 1)
    /\ Timeout \in Nat \ {0}
    /\ MaxBackoff \in Nat /\ FirstBackoff \in 1..MaxBackoff
    /\ MaxErrors \in Nat /\ MaxGarbage \in Nat

VARIABLES
    pc,         \* where client.run is; "panic" when a nil packet was dereferenced
    link,       \* the interface is there and has a MAC
    mac,        \* client.mac # nil
    cancelled,  \* ctx.Err() # nil
    tr,         \* client.tr # nil
    stale,      \* readers that timed-out calls of recvUntil left behind on tr
    wait,       \* time left in the current wait
    backoff,
    lease,      \* client.lease
    age,        \* time since lease.Acquired
    mode,       \* renewing (unicast) or rebinding (broadcast)
    attempt,    \* of doRenew
    reg,        \* the registry has the lease
    owes,       \* history: cancelled with a lease, and no RELEASE sent yet
    errors, garbage         \* counters against the bounds

vars == <<pc, link, mac, cancelled, tr, stale, wait, backoff, lease, age, mode, attempt,
          reg, owes, errors, garbage>>

socket == <<tr, stale>>
env == <<link, mac, cancelled>>

AcquirePCs == {"loop", "nolink", "discover", "offer", "request", "ack", "failed", "backoff"}
BoundPCs == {"bound", "renew", "rsend", "rack", "wait2", "due2"}
Listening == {"offer", "ack", "rack"}
Waiting == Listening \cup {"nolink", "backoff", "bound", "wait2"}

Least(a, b) == IF a < b THEN a ELSE b

\* client.lease = nil; no lease has this length.
NoLease == [t1 |-> 0, t2 |-> 0, len |-> Wrap]

\* LeaseFromAck: the times of a lease; uint32 arithmetic.
LeaseFromAck(a) ==
    LET len == IF a.lease = Absent THEN Fallback ELSE a.lease
    IN [len |-> len,
        t1 |-> IF a.t1 = Absent THEN len \div 2 ELSE a.t1,
        t2 |-> IF a.t2 = Absent THEN ((len * 7) % Wrap) \div 8 ELSE a.t2]

\* When bound wakes up first: T1, but not after T2 or the expiry.
Wake(l) == Least(l.t1, Least(l.t2, l.len))

Init ==
    /\ pc = "none"
    /\ link \in BOOLEAN /\ mac = FALSE /\ cancelled = FALSE
    /\ tr = FALSE /\ stale = 0
    /\ wait = 0 /\ backoff = FirstBackoff
    /\ lease = NoLease /\ age = 0
    /\ mode = "renew" /\ attempt = 0
    /\ reg = FALSE
    /\ owes = FALSE
    /\ errors = 0 /\ garbage = 0

-----------------------------------------------------------------------------
(* Shared steps *)

GoTo(label) == pc' = label /\ UNCHANGED wait
WaitAt(label, time) == pc' = label /\ wait' = time

Works == UNCHANGED errors
Fails == errors < MaxErrors /\ errors' = errors + 1

\* closeTransport; a reader that waits on it returns.
Close == tr' = FALSE /\ stale' = 0

\* A packet reaches the caller of recvUntil only when no reader is before it.
Receives == tr /\ stale = 0

-----------------------------------------------------------------------------
(* The environment *)

\* Manager.Sync starts the goroutine; linkMAC is called once.
Start ==
    /\ pc = "none"
    /\ GoTo("loop")
    /\ mac' = link
    /\ UNCHANGED <<link, cancelled, socket, backoff, lease, age, mode, attempt, reg,
                   owes, errors, garbage>>

\* Manager.Sync, Release or Shutdown cancels it.  owes: it had a lease then.
Cancel ==
    /\ pc \notin {"none", "panic"}
    /\ ~cancelled
    /\ cancelled' = TRUE
    /\ owes' = (pc \in BoundPCs)
    /\ UNCHANGED <<pc, link, mac, socket, wait, backoff, lease, age, mode, attempt, reg,
                   errors, garbage>>

LinkUp ==
    /\ ~link
    /\ link' = TRUE
    /\ UNCHANGED <<pc, mac, cancelled, socket, wait, backoff, lease, age, mode, attempt,
                   reg, owes, errors, garbage>>

\* Time passes while the client waits; every wait ends when it is cancelled.
Tick ==
    /\ pc \in Waiting
    /\ ~cancelled
    /\ wait > 0
    /\ wait' = wait - 1
    /\ age' = IF pc \in BoundPCs THEN age + 1 ELSE age
    /\ UNCHANGED <<pc, env, socket, backoff, lease, mode, attempt, reg, owes, errors,
                   garbage>>

\* The answer to a later attempt goes to a reader that an earlier one left.
Stolen ==
    /\ pc \in Listening
    /\ stale > 0
    /\ stale' = stale - 1
    /\ UNCHANGED <<pc, env, tr, wait, backoff, lease, age, mode, attempt, reg, owes,
                   errors, garbage>>

\* A packet that Unmarshal rejects: recvUntil returns neither a packet nor an
\* error, and its caller dereferences the packet.
Garbage ==
    /\ pc \in Listening
    /\ Receives
    /\ garbage < MaxGarbage
    /\ garbage' = garbage + 1
    /\ GoTo("panic")
    /\ UNCHANGED <<env, socket, backoff, lease, age, mode, attempt, reg, owes, errors>>

-----------------------------------------------------------------------------
(* run and discoverLoop *)

\* The top of the loop.
Loop ==
    /\ pc = "loop"
    /\ IF cancelled THEN GoTo("return")
       ELSE IF ~mac THEN WaitAt("nolink", Timeout) ELSE GoTo("discover")
    /\ UNCHANGED <<env, socket, backoff, lease, age, mode, attempt, reg, owes, errors,
                   garbage>>

NoLink ==
    /\ pc = "nolink"
    /\ \/ cancelled /\ GoTo("return")
       \/ wait = 0 /\ GoTo("loop")
    /\ UNCHANGED <<env, socket, backoff, lease, age, mode, attempt, reg, owes, errors,
                   garbage>>

\* openTransport, c.xid++, DISCOVER.
Discover ==
    /\ pc = "discover"
    /\ \/ Works /\ WaitAt("offer", Timeout) /\ tr' = TRUE
       \/ Fails /\ GoTo("failed") /\ UNCHANGED tr
    /\ UNCHANGED <<env, stale, backoff, lease, age, mode, attempt, reg, owes, garbage>>

ReceiveOffer ==
    /\ pc = "offer"
    /\ Receives
    /\ GoTo("request")
    /\ UNCHANGED <<env, socket, backoff, lease, age, mode, attempt, reg, owes, errors,
                   garbage>>

\* REQUEST for the address offered.
SendRequest ==
    /\ pc = "request"
    /\ \/ Works /\ WaitAt("ack", Timeout) /\ UNCHANGED socket
       \/ Fails /\ GoTo("failed") /\ Close
    /\ UNCHANGED <<env, backoff, lease, age, mode, attempt, reg, owes, garbage>>

\* discoverLoop returns an error: nobody answered in time, the server refused,
\* Recv failed, or the context was cancelled.
AcquireFails ==
    /\ pc \in {"offer", "ack"}
    /\ \/ (wait = 0 \/ cancelled \/ (pc = "ack" /\ Receives)) /\ Works
       \/ Fails
    /\ GoTo("failed")
    /\ Close
    /\ UNCHANGED <<env, backoff, lease, age, mode, attempt, reg, owes, garbage>>

\* Mutant: any error ends the client.
FailedReturns ==
    /\ pc = "failed"
    /\ GoTo("return")
    /\ UNCHANGED <<env, socket, backoff, lease, age, mode, attempt, reg, owes, errors,
                   garbage>>

Failed ==
    /\ pc = "failed"
    /\ IF cancelled THEN GoTo("return") ELSE WaitAt("backoff", backoff)
    /\ UNCHANGED <<env, socket, backoff, lease, age, mode, attempt, reg, owes, errors,
                   garbage>>

\* Mutant: the delay is doubled without end.
BackoffUncapped ==
    /\ pc = "backoff"
    /\ \/ cancelled /\ GoTo("release") /\ UNCHANGED backoff
       \/ wait = 0 /\ GoTo("loop") /\ backoff' = 2 * backoff
    /\ UNCHANGED <<env, socket, lease, age, mode, attempt, reg, owes, errors, garbage>>

Backoff ==
    /\ pc = "backoff"
    /\ \/ cancelled /\ GoTo("release") /\ UNCHANGED backoff
       \/ wait = 0 /\ GoTo("loop") /\ backoff' = Least(2 * backoff, MaxBackoff)
    /\ UNCHANGED <<env, socket, lease, age, mode, attempt, reg, owes, errors, garbage>>

\* A lease: leaseFrom, Reg.set, and bound computes its first wait.
Bind(a) ==
    /\ lease' = LeaseFromAck(a)
    /\ age' = 0
    /\ reg' = TRUE
    /\ WaitAt("bound", Wake(LeaseFromAck(a)))
    /\ Close

ReceiveAck(a) ==
    /\ pc = "ack"
    /\ Receives
    /\ Bind(a)
    /\ backoff' = FirstBackoff
    /\ owes' = cancelled
    /\ UNCHANGED <<env, mode, attempt, errors, garbage>>

-----------------------------------------------------------------------------
(* bound, renew and doRenew *)

\* Mutant: the registry keeps the lease.
LostKeepsLease ==
    /\ GoTo("loop")
    /\ age' = 0
    /\ UNCHANGED reg

\* Expired or refused: bound returns true, Reg.Remove, and the loop starts again.
Lost ==
    /\ GoTo("loop")
    /\ reg' = FALSE
    /\ age' = 0

\* T1, or what comes before it, is reached.
Due ==
    /\ pc = "bound"
    /\ wait = 0
    /\ IF age >= lease.len THEN Lost /\ UNCHANGED mode
       ELSE /\ GoTo("renew")
            /\ mode' = IF age < lease.t2 THEN "renew" ELSE "rebind"
            /\ UNCHANGED <<reg, age>>
    /\ UNCHANGED <<env, socket, backoff, lease, attempt, owes, errors, garbage>>

\* Mutant: the wait for T1 does not look at ctx.Done().
StopBoundLate ==
    /\ pc = "wait2"
    /\ cancelled
    /\ GoTo("release")
    /\ UNCHANGED <<env, socket, backoff, lease, age, mode, attempt, reg, owes, errors,
                   garbage>>

StopBound ==
    /\ pc \in {"bound", "wait2"}
    /\ cancelled
    /\ GoTo("release")
    /\ UNCHANGED <<env, socket, backoff, lease, age, mode, attempt, reg, owes, errors,
                   garbage>>

\* Mutant: any failure to renew gives the lease up.
RenewFailedDrops == Lost

\* Mutant: the whole of T2 is waited for again.
RenewFailedWaits ==
    IF mode = "rebind" THEN Lost
    ELSE /\ IF age < lease.t2 THEN WaitAt("wait2", lease.t2) ELSE GoTo("due2")
         /\ UNCHANGED <<reg, age>>

\* renew returned false: wait for T2, or give up.
RenewFailed ==
    IF mode = "rebind" THEN Lost
    ELSE /\ IF age < lease.t2 THEN WaitAt("wait2", lease.t2 - age) ELSE GoTo("due2")
         /\ UNCHANGED <<reg, age>>

\* openTransport
OpenRenew ==
    /\ pc = "renew"
    /\ \/ Works /\ GoTo("rsend") /\ tr' = TRUE /\ attempt' = 1 /\ UNCHANGED <<reg, age>>
       \/ Fails /\ RenewFailed /\ UNCHANGED <<tr, attempt>>
    /\ UNCHANGED <<env, stale, backoff, lease, mode, owes, garbage>>

\* REQUEST to the server, or to everyone.
SendRenew ==
    /\ pc = "rsend"
    /\ \/ Works /\ WaitAt("rack", Timeout) /\ UNCHANGED <<socket, reg, age>>
       \/ Fails /\ RenewFailed /\ Close
    /\ UNCHANGED <<env, backoff, lease, mode, attempt, owes, garbage>>

ReceiveRenewAck(a) ==
    /\ pc = "rack"
    /\ Receives
    /\ Bind(a)
    /\ UNCHANGED <<env, backoff, mode, attempt, owes, errors, garbage>>

ReceiveRenewNak ==
    /\ pc = "rack"
    /\ Receives
    /\ RenewFailed
    /\ Close
    /\ UNCHANGED <<env, backoff, lease, mode, attempt, owes, errors, garbage>>

\* Mutant: doRenew tries again without looking at ctx.Err().
RenewAgainUnchecked ==
    /\ pc = "rack"
    /\ \/ wait = 0 /\ stale' = stale + 1 /\ UNCHANGED <<tr, errors>>
       \/ Fails /\ UNCHANGED socket
       \/ cancelled /\ Close /\ Works
    /\ attempt < 3
    /\ GoTo("rsend")
    /\ attempt' = attempt + 1
    /\ UNCHANGED <<env, backoff, lease, age, mode, reg, owes, garbage>>

\* No answer in time, which leaves the reader behind, or Recv failed: the next
\* attempt.
RenewAgain ==
    /\ pc = "rack"
    /\ ~cancelled
    /\ \/ wait = 0 /\ stale' = stale + 1 /\ Works
       \/ Fails /\ UNCHANGED stale
    /\ attempt < 3
    /\ GoTo("rsend")
    /\ attempt' = attempt + 1
    /\ UNCHANGED <<env, tr, backoff, lease, age, mode, reg, owes, garbage>>

\* After the third attempt, or when cancelled, renew returns false.
RenewGivesUp ==
    /\ pc = "rack"
    /\ cancelled \/ attempt = 3
    /\ \/ (wait = 0 \/ cancelled) /\ Works
       \/ Fails
    /\ RenewFailed
    /\ Close
    /\ UNCHANGED <<env, backoff, lease, mode, attempt, owes, garbage>>

WaitT2 ==
    /\ pc = "wait2"
    /\ wait = 0
    /\ GoTo("due2")
    /\ UNCHANGED <<env, socket, backoff, lease, age, mode, attempt, reg, owes, errors,
                   garbage>>

\* Mutant: the expiry is not checked again before rebinding.
DueT2Unchecked ==
    /\ pc = "due2"
    /\ GoTo("renew") /\ mode' = "rebind"
    /\ UNCHANGED <<env, socket, backoff, lease, age, attempt, reg, owes, errors, garbage>>

DueT2 ==
    /\ pc = "due2"
    /\ IF age >= lease.len THEN Lost /\ UNCHANGED mode
       ELSE GoTo("renew") /\ mode' = "rebind" /\ UNCHANGED <<reg, age>>
    /\ UNCHANGED <<env, socket, backoff, lease, attempt, owes, errors, garbage>>

-----------------------------------------------------------------------------
(* The end *)

\* release: nothing to do without a lease; an error is ignored.
SendRelease ==
    /\ pc = "release"
    /\ \/ Works /\ owes' = (owes /\ lease = NoLease)
       \/ Fails /\ UNCHANGED owes
    /\ GoTo("return")
    /\ UNCHANGED <<env, socket, backoff, lease, age, mode, attempt, reg, garbage>>

\* The deferred Reg.Remove of runClient.
Return ==
    /\ pc = "return"
    /\ GoTo("done")
    /\ reg' = FALSE
    /\ UNCHANGED <<env, socket, backoff, lease, age, mode, attempt, owes, errors, garbage>>

Run ==
    \/ Loop \/ NoLink \/ Discover \/ ReceiveOffer \/ SendRequest \/ AcquireFails \/ Failed
    \/ Backoff \/ (\E a \in Acks : ReceiveAck(a) \/ ReceiveRenewAck(a)) \/ Due \/ StopBound
    \/ OpenRenew \/ SendRenew \/ ReceiveRenewNak \/ RenewAgain \/ RenewGivesUp \/ WaitT2
    \/ DueT2 \/ SendRelease \/ Return

Next == Start \/ Cancel \/ LinkUp \/ Tick \/ Stolen \/ Garbage \/ Run

\* select picks at random among the cases that are ready, so a client that keeps
\* waiting notices that it is cancelled; a server that is there answers one of
\* infinitely many DISCOVERs and REQUESTs.
Fairness ==
    /\ WF_vars(Start) /\ WF_vars(Tick) /\ WF_vars(LinkUp)
    /\ WF_vars(Run)
    /\ SF_vars(StopBound)
    /\ SF_vars(ReceiveOffer) /\ SF_vars(\E a \in Acks : ReceiveAck(a))

Spec == Init /\ [][Next]_vars /\ Fairness

-----------------------------------------------------------------------------
(* Properties *)

TypeOK ==
    /\ pc \in AcquirePCs \cup BoundPCs \cup {"none", "release", "return", "done", "panic"}
    /\ {link, mac, cancelled, tr, reg, owes} \subseteq BOOLEAN
    /\ lease \in {LeaseFromAck(a) : a \in Acks} \cup {NoLease}
    /\ {stale, wait, age} \subseteq Nat
    /\ backoff \in FirstBackoff..MaxBackoff
    /\ mode \in {"renew", "rebind"} /\ attempt \in 0..3
    /\ errors \in 0..MaxErrors /\ garbage \in 0..MaxGarbage

\* The client never sends on a transport that recvUntil closed under it, and
\* whenever it waits for time to pass, or has ended, the socket is closed and
\* the readers of timed-out attempts are gone.
TransportPaired ==
    /\ pc \in {"request", "rsend"} \cup Listening => tr
    /\ pc \in {"nolink", "backoff", "bound", "wait2", "done"} => ~tr /\ stale = 0

\* Renewal starts at T1 and before T2, rebinding not before T2, and neither for
\* a lease that has expired, whatever times the server chose.
RenewalSchedule ==
    pc = "renew" =>
        /\ age < lease.len
        /\ mode = "renew" => Wake(lease) <= age /\ age < lease.t2
        /\ mode = "rebind" => age >= lease.t2

\* Whatever fails before T2 - sockets, answers, the server's consent - the lease
\* stays; it is given up only from T2 on, at its end, or when the client ends.
HeldUntilT2 ==
    [][reg /\ ~reg' => age >= Least(lease.t2, lease.len) \/ cancelled]_vars

\* An expired lease is not used for longer than the attempts take that began
\* before, or before a T2 that the server put behind the expiry.
ExpiryBounded ==
    reg => age <= (IF lease.t2 > lease.len THEN lease.t2 ELSE lease.len) + 3 * Timeout

\* A cancelled client ends, wherever the cancellation finds it.
Stops == cancelled ~> pc \in {"done", "panic"}

\* A client with a MAC, on a network with a server, keeps getting a lease again,
\* after timeouts, refusals, expiries and failing sockets.
Acquires == []<>(reg \/ cancelled \/ ~mac \/ pc = "panic")

\* What the other goroutines see of this client is a client of Dhcp4Manager.
ClientPC ==
    CASE pc \in AcquirePCs -> "acquire"
      [] pc \in BoundPCs -> "bound"
      [] pc = "panic" -> IF reg THEN "bound" ELSE "acquire"
      [] OTHER -> pc

M == INSTANCE Dhcp4Manager WITH
       Ifaces <- {"wan"},
       MaxStarts <- 1,
       phase <- IF pc = "panic" THEN "crashed" ELSE "up",
       run <- [i \in {"wan"} |-> IF pc # "none" /\ ~cancelled THEN 1 ELSE 0],
       cl <- [i \in {"wan"} |-> [n \in 1..1 |->
                [pc |-> ClientPC, cancelled |-> cancelled, owes |-> owes]]],
       leases <- [i \in {"wan"} |-> IF reg THEN 1 ELSE 0]

\* Every step of the client is a step of the client that the manager was
\* checked with, or changes nothing it shares.
IsManagedClient == M!SafeSpec

=============================================================================
