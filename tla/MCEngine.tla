------------------------------ MODULE MCEngine ------------------------------
(* A small router for Engine: one WAN, two LAN ports, a VLAN on a bridge, a tunnel. *)
EXTENDS Engine

Wan(mode, gw) == [dev |-> "wan", mode |-> mode, enabled |-> TRUE, addr |-> "w1", gw |-> gw,
                  metric |-> 0]
Lan(members) == [dev |-> "br0", vlan |-> None, subnets |-> <<"n1">>, members |-> members]
Guest == [dev |-> "br0.10", vlan |-> [routed |-> TRUE, parent |-> "br0", name |-> "br0.10"],
          subnets |-> <<"n2">>, members |-> <<>>]
Tunnel == [dev |-> "wg0", addr |-> "t1", conf |-> "peers", allowed |-> <<"r1", Default>>,
           table |-> 0]
Static == [dst |-> "r2", via |-> "g2", dev |-> "br0", metric |-> 0]

Bare == [wans |-> <<Wan("dhcp", None)>>, networks |-> <<>>, tunnels |-> <<>>,
         routes |-> <<>>, rules |-> "rules1", dns |-> "dns1", policies |-> <<>>]
Full == [Bare EXCEPT !.wans = <<Wan("static", "g1")>>,
                     !.networks = <<Lan(<<"lan">>), Guest>>,
                     !.tunnels = <<Tunnel>>, !.routes = <<Static>>, !.rules = "rules2",
                     !.policies = <<[dev |-> "wan", slot |-> "root", q |-> "cake"]>>]

ASSUME ConfigsAssumption == IsConfig(Bare) /\ IsConfig(Full)

NoLease == [i \in {"wan"} |-> None]
Lease(gw) == [i \in {"wan"} |-> [addr |-> "w2", gw |-> gw, dns |-> "d1"]]

\* A plain uplink without and with a lease, and everything at once.
SomeTargets == {BuildWith(Bare, NoLease), BuildWith(Bare, Lease("g1")), BuildWith(Bare, Lease("g3")),
                BuildWith(Full, NoLease)}

Ether(name) == [Link(name, "ether", None, None) EXCEPT !.up = FALSE]
SomeBoot == Kernel(<<Ether("wan"), Ether("lan")>>)

\* Others take a device down, take a port out of its bridge, add and remove
\* addresses, add routes, flush the firewall, make and delete a device.
SomeForeign ==
    {Cmd("up", "wan", FALSE), Cmd("addr del", "br0", "n1"), Cmd("addr add", "wan", "w1"),
     Cmd("route replace", "wan", Route("r9", None, "wan", 100)),
     Cmd("route replace", "wan", Route(Default, "g9", "wan", 100)),
     Cmd("link add", "br0", Link("br0", "wireguard", None, None)),
     Cmd("link del", "br0", None), Cmd("nft delete", None, None), Cmd("master", "lan", None)}

=============================================================================
