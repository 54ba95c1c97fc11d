---------------------------- MODULE Dhcp4Manager ----------------------------
(***************************************************************************)
(* The WAN clients of the daemon and what they share: dhcp4.Manager, which *)
(* starts and cancels one goroutine per DHCP interface, and                *)
(* dhcp4.Registry, into which the goroutines put their leases              *)
(* (router/internal/dhcp4/manager.go, cmd/routerd/main.go).                *)
(*                                                                         *)
(* A client is seen through its calls on the registry and its RELEASE; how *)
(* it gets and keeps a lease is the subject of Dhcp4Client, which is shown *)
(* to implement this specification for one interface.                      *)
(***************************************************************************)
EXTENDS Naturals

CONSTANTS
    Ifaces,     \* WAN interfaces
    MaxStarts   \* bound: clients started on one interface

ASSUME ManagerAssumption == MaxStarts \in Nat

VARIABLES
    phase,  \* "up", "stopping" after Manager.Shutdown, "gone" after main returned,
            \* "crashed" after a panic or log.Fatal
    run,    \* Manager.run: the client of each interface, 0 for none
    cl,     \* the clients, by interface and order of their start
    leases  \* Registry.leases: whose lease each interface has, 0 for none

managerVars == <<phase, run, cl, leases>>

Gens == 1..MaxStarts

\* "acquire": in discoverLoop or waiting to try again; "bound": with a lease;
\* "release": cancelled, before the RELEASE; "return": before the deferred
\* Registry.Remove.  owes is history: a RELEASE is due, from the moment a client
\* with a lease was cancelled until it is sent.
Client == [pc : {"none", "acquire", "bound", "release", "return", "done"},
           cancelled : BOOLEAN, owes : BOOLEAN]
Unused == [pc |-> "none", cancelled |-> FALSE, owes |-> FALSE]
Started == [Unused EXCEPT !.pc = "acquire"]

ManagerInit ==
    /\ phase = "up"
    /\ run = [i \in Ifaces |-> 0]
    /\ cl = [i \in Ifaces |-> [n \in Gens |-> Unused]]
    /\ leases = [i \in Ifaces |-> 0]

Alive == phase \in {"up", "stopping"}

\* h.cancel()
Cancelled(c) == [c EXCEPT !.cancelled = TRUE, !.owes = (c.pc = "bound")]

\* The client Sync starts on interface i, 0 for none; the bound is on the
\* clients that are left.
ToStart(i, want) ==
    IF i \in want /\ run[i] = 0 THEN {n \in Gens : cl[i][n] = Unused} ELSE {0}

\* Mutant: the handle is dropped without calling cancel.
SyncForgetsCancel(want) ==
    /\ phase = "up"
    /\ \E n \in [Ifaces -> Gens \cup {0}] :
         /\ \A i \in Ifaces : n[i] \in ToStart(i, want)
         /\ run' = [i \in Ifaces |-> IF i \notin want THEN 0
                                     ELSE IF run[i] = 0 THEN n[i] ELSE run[i]]
         /\ cl' = [i \in Ifaces |-> [m \in Gens |-> IF m = n[i] THEN Started ELSE cl[i][m]]]
    /\ UNCHANGED <<phase, leases>>

\* Sync: cancel the clients that are not wanted, start those that are missing.
Sync(want) ==
    /\ phase = "up"
    /\ \E n \in [Ifaces -> Gens \cup {0}] :
         /\ \A i \in Ifaces : n[i] \in ToStart(i, want)
         /\ run' = [i \in Ifaces |-> IF i \notin want THEN 0
                                     ELSE IF run[i] = 0 THEN n[i] ELSE run[i]]
         /\ cl' = [i \in Ifaces |-> [m \in Gens |->
                     IF m = n[i] THEN Started
                     ELSE IF i \notin want /\ m = run[i] THEN Cancelled(cl[i][m])
                     ELSE cl[i][m]]]
    /\ UNCHANGED <<phase, leases>>

\* Release: cancel the client of one interface.
Release(i) ==
    /\ phase = "up"
    /\ run[i] # 0
    /\ cl' = [cl EXCEPT ![i][run[i]] = Cancelled(@)]
    /\ run' = [run EXCEPT ![i] = 0]
    /\ UNCHANGED <<phase, leases>>

\* Shutdown: cancel all.
Shutdown ==
    /\ phase = "up"
    /\ phase' = "stopping"
    /\ cl' = [i \in Ifaces |-> [m \in Gens |->
                IF m = run[i] THEN Cancelled(cl[i][m]) ELSE cl[i][m]]]
    /\ run' = [i \in Ifaces |-> 0]
    /\ UNCHANGED leases

\* main returns right after Shutdown: every goroutine ends where it is.
Exit ==
    /\ phase = "stopping"
    /\ phase' = "gone"
    /\ UNCHANGED <<run, cl, leases>>

\* A goroutine panics, or the listener fails.
Crash ==
    /\ Alive
    /\ phase' = "crashed"
    /\ UNCHANGED <<run, cl, leases>>

-----------------------------------------------------------------------------
(* client.run, as far as the others see it *)

\* discoverLoop returned a lease: Reg.set.
Acquire(i, n) ==
    /\ Alive
    /\ cl[i][n].pc = "acquire"
    /\ cl' = [cl EXCEPT ![i][n].pc = "bound", ![i][n].owes = cl[i][n].cancelled]
    /\ leases' = [leases EXCEPT ![i] = n]
    /\ UNCHANGED <<phase, run>>

\* doRenew got an ACK: Reg.set.
Renew(i, n) ==
    /\ Alive
    /\ cl[i][n].pc = "bound"
    /\ leases' = [leases EXCEPT ![i] = n]
    /\ UNCHANGED <<phase, run, cl>>

\* Mutant: no Reg.Remove when the lease is gone.
LoseKeepsLease(i, n) ==
    /\ Alive
    /\ cl[i][n].pc = "bound"
    /\ cl' = [cl EXCEPT ![i][n].pc = "acquire"]
    /\ UNCHANGED <<phase, run, leases>>

\* bound returned true (expired or refused): Reg.Remove, and the loop starts
\* again.
Lose(i, n) ==
    /\ Alive
    /\ cl[i][n].pc = "bound"
    /\ cl' = [cl EXCEPT ![i][n].pc = "acquire"]
    /\ leases' = [leases EXCEPT ![i] = 0]
    /\ UNCHANGED <<phase, run>>

\* The client notices that it is cancelled: with a lease it goes on to release
\* it, without one it returns, by way of releaseQuiet if it was backing off.
Stop(i, n) ==
    /\ Alive
    /\ cl[i][n].cancelled
    /\ \/ cl[i][n].pc = "bound" /\ cl' = [cl EXCEPT ![i][n].pc = "release"]
       \/ cl[i][n].pc = "acquire" /\ \E l \in {"release", "return"} :
                                       cl' = [cl EXCEPT ![i][n].pc = l]
    /\ UNCHANGED <<phase, run, leases>>

\* release: without a lease or a transport nothing is sent.
ClientReleases(i, n) ==
    /\ Alive
    /\ cl[i][n].pc = "release"
    /\ \E sent \in BOOLEAN :
         cl' = [cl EXCEPT ![i][n].pc = "return", ![i][n].owes = @ /\ ~sent]
    /\ UNCHANGED <<phase, run, leases>>

\* Mutant: runClient without the deferred Reg.Remove.
ReturnKeepsLease(i, n) ==
    /\ Alive
    /\ cl[i][n].pc = "return"
    /\ cl' = [cl EXCEPT ![i][n].pc = "done"]
    /\ UNCHANGED <<phase, run, leases>>

\* The deferred calls of runClient: Reg.Remove, close(h.release).
ClientReturns(i, n) ==
    /\ Alive
    /\ cl[i][n].pc = "return"
    /\ cl' = [cl EXCEPT ![i][n].pc = "done"]
    /\ leases' = [leases EXCEPT ![i] = 0]
    /\ UNCHANGED <<phase, run>>

Step(i, n) ==
    \/ Acquire(i, n) \/ Renew(i, n) \/ Lose(i, n)
    \/ Stop(i, n) \/ ClientReleases(i, n) \/ ClientReturns(i, n)

ManagerNext ==
    \/ \E want \in SUBSET Ifaces : Sync(want)
    \/ \E i \in Ifaces : Release(i)
    \/ Shutdown \/ Exit \/ Crash
    \/ \E i \in Ifaces, n \in Gens : Step(i, n)

\* A cancelled context makes every wait of the client return.
ManagerFairness ==
    \A i \in Ifaces, n \in Gens :
        WF_managerVars(Stop(i, n) \/ ClientReleases(i, n) \/ ClientReturns(i, n))

SafeSpec == ManagerInit /\ [][ManagerNext]_managerVars
ManagerSpec == SafeSpec /\ ManagerFairness

-----------------------------------------------------------------------------
(* Properties *)

ManagerTypeOK ==
    /\ phase \in {"up", "stopping", "gone", "crashed"}
    /\ run \in [Ifaces -> Gens \cup {0}]
    /\ cl \in [Ifaces -> [Gens -> Client]]
    /\ leases \in [Ifaces -> Gens \cup {0}]

\* At any moment the clients that have not been told to stop are exactly those
\* in Manager.run, hence at most one per interface: no sequence of
\* reconfigurations leaves one running that nobody can cancel any more.
OneClient ==
    \A i \in Ifaces, n \in Gens :
        cl[i][n].pc # "none" /\ ~cl[i][n].cancelled <=> run[i] = n

\* The registry never offers the reconciler a lease whose client has lost it,
\* or has returned: every path of the client goes through a Remove, whatever
\* the clients before and after it on the same interface do.
LeaseHasHolder ==
    \A i \in Ifaces : leases[i] # 0 => cl[i][leases[i]].pc \in {"bound", "release", "return"}

\* An interface that stays without a client ends up without a lease, unless the
\* daemon ends first.
Cleared ==
    \A i \in Ifaces : []<>(run[i] # 0 \/ leases[i] = 0 \/ ~Alive)

=============================================================================
