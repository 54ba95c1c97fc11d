---------------------------- MODULE MCDhcp4Client ----------------------------
(* Small instances of Dhcp4Client: one unit of time is one timeout. *)
EXTENDS Dhcp4Client

Times(l, t1, t2) == [lease |-> l, t1 |-> t1, t2 |-> t2]

\* A usual lease, one whose times the client computes, one that is over before
\* its retries are, one that is over at once, one whose T2 comes after it, and
\* one so long that seven times its length overflows.
SomeAcks == {Times(9, 2, 4), Times(8, Absent, Absent), Times(3, 1, 2), Times(0, 0, 0),
             Times(4, 2, 7), Times(24, Absent, Absent)}

=============================================================================
