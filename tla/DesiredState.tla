---------------------------- MODULE DesiredState ----------------------------
(***************************************************************************)
(* What the kernel should look like for a configuration and the leases     *)
(* that its DHCP interfaces have: Registry.Runtime                         *)
(* (router/internal/dhcp4/manager.go) and BuildWith                        *)
(* (router/internal/reconcile/desired.go).                                 *)
(*                                                                         *)
(* A configuration is a record of sequences, as in the code.  The texts    *)
(* generated for nftables, dnsmasq, WireGuard and tc are values that       *)
(* differ when what they are generated from differs.                       *)
(***************************************************************************)
EXTENDS Naturals, Sequences, SequencesExt

CONSTANT None   \* no address, parent, master, lease ...

DefaultMetric == 100
Default == "0.0.0.0/0"

Route(dst, via, dev, metric) == [dst |-> dst, via |-> via, dev |-> dev, metric |-> metric]
Metric(m) == IF m = 0 THEN DefaultMetric ELSE m

Map(Op(_), s) == [i \in DOMAIN s |-> Op(s[i])]
FlatMap(Op(_), s) == FlattenSeq(Map(Op, s))

IsList(s) == s \in Seq(Range(s))

\* The elements of s that are in S, in their order.  (SelectSeq, in a form that
\* can be reasoned about.)
Among(s, S) ==
    LET pick[i \in 0..Len(s)] ==
            IF i = 0 THEN <<>>
            ELSE IF s[i] \in S THEN Append(pick[i - 1], s[i]) ELSE pick[i - 1]
    IN pick[Len(s)]

\* What BuildWith relies on of a valid configuration: a network has a subnet.
IsConfig(c) ==
    /\ IsList(c.wans) /\ IsList(c.networks) /\ IsList(c.tunnels)
    /\ IsList(c.routes) /\ IsList(c.policies)
    /\ \A n \in Range(c.networks) : IsList(n.subnets) /\ n.subnets # <<>> /\ IsList(n.members)
    /\ \A t \in Range(c.tunnels) : IsList(t.allowed)

-----------------------------------------------------------------------------
(* Registry.Runtime.  leases: interface to [addr, gw, dns], or None. *)

Leased(c, leases) ==
    Among(c.wans, {w \in Range(c.wans) : w.mode = "dhcp" /\ w.enabled /\ leases[w.dev] # None})

RuntimeRoutes(c, leases) ==
    LET Of(w) == IF leases[w.dev].gw = None THEN <<>>
                 ELSE <<Route(Default, leases[w.dev].gw, w.dev, Metric(w.metric))>>
    IN FlatMap(Of, Leased(c, leases))

RuntimeAddrs(c, leases) ==
    LET Of(w) == <<w.dev, leases[w.dev].addr>> IN Map(Of, Leased(c, leases))

-----------------------------------------------------------------------------
(* BuildWith.  Link order matters: it is the order of creation. *)

Link(name, type, parent, master) ==
    [name |-> name, type |-> type, parent |-> parent, master |-> master, up |-> TRUE]

\* The closure add: a name that was seen is not added again.
Distinct(links) ==
    LET First(i) == \A j \in 1..(i - 1) : links[j].name # links[i].name
        Of(i) == IF First(i) THEN <<links[i]>> ELSE <<>>
    IN FlatMap(Of, [i \in DOMAIN links |-> i])

physical(c, name) == \E i \in DOMAIN c.wans : c.wans[i].dev = name

\* The interface of a network is a VLAN, a bridge over one, a bridge, or a WAN's.
NetworkLinks(c, n) ==
    LET members == [i \in DOMAIN n.members |-> Link(n.members[i], "ether", None, n.dev)]
    IN (CASE n.vlan # None /\ n.vlan.routed -> <<Link(n.dev, "vlan", n.vlan.parent, None)>>
          [] n.vlan # None /\ ~n.vlan.routed ->
               <<Link(n.dev, "bridge", None, None),
                 Link(n.vlan.name, "vlan", n.vlan.parent, n.dev)>>
          [] n.vlan = None /\ ~physical(c, n.dev) -> <<Link(n.dev, "bridge", None, None)>>
          [] OTHER -> <<>>) \o members

\* A WAN is brought up even when it is disabled (PlanLinks overrides Up).
DesiredLinks(c) ==
    LET Wan(w) == <<Link(w.dev, "ether", None, None)>>
        Net(n) == NetworkLinks(c, n)
        Tunnel(t) == <<Link(t.dev, "wireguard", None, None)>>
    IN Distinct(FlatMap(Wan, c.wans) \o FlatMap(Net, c.networks) \o FlatMap(Tunnel, c.tunnels))

StaticWans(c) == Among(c.wans, {w \in Range(c.wans) : w.mode = "static"})

\* Pairs of device and address, in order.
DesiredAddrs(c, leases) ==
    LET Wan(w) == <<w.dev, w.addr>>
        Net(n) == [i \in DOMAIN n.subnets |-> <<n.dev, n.subnets[i]>>]
        Tunnel(t) == <<t.dev, t.addr>>
    IN Map(Wan, StaticWans(c)) \o FlatMap(Net, c.networks) \o Map(Tunnel, c.tunnels)
         \o RuntimeAddrs(c, leases)

\* Devices that lose every other address.
DropAddrs(c, leases) ==
    {StaticWans(c)[i].dev : i \in DOMAIN StaticWans(c)}
      \cup {c.networks[i].dev : i \in {j \in DOMAIN c.networks :
               LET n == c.networks[j]
               IN IF n.vlan # None THEN ~n.vlan.routed ELSE ~physical(c, n.dev)}}
      \cup {c.tunnels[i].dev : i \in DOMAIN c.tunnels}
      \cup {Leased(c, leases)[i].dev : i \in DOMAIN Leased(c, leases)}

\* A peer that routes everything gets no route.
DesiredRoutes(c, leases) ==
    LET Wan(w) == Route(Default, w.gw, w.dev, Metric(w.metric))
        Peer(t) == LET nets == Among(t.allowed, Range(t.allowed) \ {Default})
                   IN [i \in DOMAIN nets |-> Route(nets[i], None, t.dev, t.table)]
        Static(r) == Route(r.dst, r.via, r.dev, Metric(r.metric))
    IN Map(Wan, StaticWans(c)) \o FlatMap(Peer, c.tunnels) \o Map(Static, c.routes)
         \o RuntimeRoutes(c, leases)

\* dnsmasq's upstreams depend on the leases, nothing else generated does.
BuildWith(c, leases) ==
    [links |-> DesiredLinks(c),
     addrs |-> DesiredAddrs(c, leases),
     drop |-> DropAddrs(c, leases),
     routes |-> DesiredRoutes(c, leases),
     nft |-> c.rules,
     conf |-> <<c.dns, [i \in DOMAIN Leased(c, leases) |-> leases[Leased(c, leases)[i].dev].dns]>>,
     wg |-> [i \in DOMAIN c.tunnels |-> [dev |-> c.tunnels[i].dev, conf |-> c.tunnels[i].conf]],
     tc |-> c.policies]

=============================================================================
