------------------------------ MODULE Firewall ------------------------------
(***************************************************************************)
(* The ruleset that router/internal/firewall/ruleset.go generates from a   *)
(* configuration, and what netfilter does with a packet under it.          *)
(*                                                                         *)
(* A chain is a sequence of blocks, and a block a set of rules: the rules  *)
(* that Generate writes in the order of a Go map may come in any order, and*)
(* form one block; every other rule is a block by itself.  The state is    *)
(* the configuration; every step is an edit of one part of it, after which *)
(* the ruleset is generated again.                                         *)
(*                                                                         *)
(* A prefix of a rule is the set of networks it covers, a service stands   *)
(* for protocol and port, and a zone is written in capitals everywhere (as *)
(* ApplyDefaults and routerctl do).                                        *)
(***************************************************************************)
EXTENDS Naturals, FiniteSets, SequencesExt

CONSTANTS
    WanLists, NetworkLists, TunnelLists, RuleLists, ForwardLists,
                \* the values that the five parts of a configuration may have
    Services,   \* the services of packets; the named ones below are among them
    TcpServices, UdpServices,
    DefaultPort \* the service of a tunnel without a port (51820 in the code)

\* Names of zones, in capitals; the lower-case names are those of rules that
\* refer to no set.
Zones == STRING \ {"any", "lo"}

WAN == [dev : STRING, name : STRING, id : STRING, enabled : BOOLEAN]
Network == [dev : STRING, zone : Zones, internet : BOOLEAN, lan : BOOLEAN]
Tunnel == [dev : STRING, zone : Zones, port : Services \cup {""}]
FirewallRule == [src : Zones, dst : Zones, proto : {"any", "tcp", "udp", "icmp"},
                 ports : SUBSET Services, source : SUBSET STRING, dest : SUBSET STRING,
                 action : {"accept", "drop", "reject", "log"}, enabled : BOOLEAN]

ASSUME FirewallAssumption ==
    /\ {"dhcp-reply", "ping", "icmpv6", "dns", "dhcp"} \subseteq Services
    /\ TcpServices \cup UdpServices \cup {DefaultPort} \subseteq Services
    /\ WanLists \subseteq Seq(WAN) /\ NetworkLists \subseteq Seq(Network)
    /\ TunnelLists \subseteq Seq(Tunnel) /\ RuleLists \subseteq Seq(FirewallRule)

VARIABLE cfg    \* [wans, networks, tunnels, rules, forwards]

Items(seq) == ToSet(seq)

-----------------------------------------------------------------------------
(* The parts of a configuration.                                           *)

EnabledWans(c) == {w \in Items(c.wans) : w.enabled}
WanIfaces(c) == {w.dev : w \in EnabledWans(c)}

\* WireGuardTunnel.Zone and ListenPort, with their defaults.
TunnelZone(t) == IF t.zone = "" THEN "VPN" ELSE t.zone
TunnelPort(t) == IF t.port = "" THEN DefaultPort ELSE t.port

\* Mutant: a zone that only rules name has no set.
ZoneNamesOfItems(c) ==
    {n.zone : n \in Items(c.networks)} \cup {TunnelZone(t) : t \in Items(c.tunnels)}

\* zones: the interfaces of each zone that a network, a tunnel or a rule
\* names, as the elements of its set.
ZoneNames(c) ==
    {n.zone : n \in Items(c.networks)} \cup {TunnelZone(t) : t \in Items(c.tunnels)}
        \cup (({r.src : r \in Items(c.rules)} \cup {r.dst : r \in Items(c.rules)}) \ {"WAN"})

Elements(c, zone) ==
    IF zone = "WAN" THEN WanIfaces(c)
    ELSE {n.dev : n \in {n \in Items(c.networks) : n.zone = zone}}
             \cup {t.dev : t \in {t \in Items(c.tunnels) : TunnelZone(t) = zone}}

\* Mutant: access to the LAN makes any zone a trusted one.
TrustedAny(c) ==
    {n.zone : n \in {n \in Items(c.networks) : n.lan}}
        \cup {TunnelZone(t) : t \in Items(c.tunnels)}

\* trusted: the zone LAN with a network that may access the LAN, and every
\* zone of a tunnel.
Trusted(c) ==
    {"LAN" : n \in {n \in Items(c.networks) : n.lan /\ n.zone = "LAN"}}
        \cup {TunnelZone(t) : t \in Items(c.tunnels)}

-----------------------------------------------------------------------------
(* Rules, and the verdict of a chain.                                      *)

Anywhere == "any"
AnyState == {"new", "established", "invalid"}

\* A rule that matches everything, to be restricted.
All == [ct |-> AnyState, in |-> Anywhere, notin |-> FALSE, out |-> Anywhere, svcs |-> Services,
        source |-> {}, dest |-> {}, limited |-> FALSE, verdict |-> "accept"]

Accept(in, out) == [All EXCEPT !.in = in, !.out = out]
Drop(in, out) == [Accept(in, out) EXCEPT !.verdict = "drop"]

\* The two rules with which both filter chains treat tracked connections.
Conntrack == <<{[All EXCEPT !.ct = {"established"}]},
               {[All EXCEPT !.ct = {"invalid"}, !.verdict = "drop"]}>>

\* netfilter: whether a packet matches a rule.
Matches(c, r, p) ==
    /\ p.ct \in r.ct /\ p.svc \in r.svcs
    /\ \/ r.in \in {Anywhere, "lo"}
       \/ ~r.notin /\ p.in \in Elements(c, r.in)
       \/ r.notin /\ p.in \notin Elements(c, r.in)
    /\ r.in = "lo" => p.in = "lo"
    /\ r.out = Anywhere \/ p.out \in Elements(c, r.out)
    /\ r.source = {} \/ p.in \in r.source
    /\ r.dest = {} \/ p.out \in r.dest

\* The verdicts that a chain with policy drop may reach.  A rule with a rate
\* limit may match or not; of a block, any rule that matches may be first.
Verdicts(c, chain, p) ==
    LET Hits(i) == {r \in chain[i] : Matches(c, r, p)}
        Decided(i) == \E r \in Hits(i) : ~r.limited
        reached == {i \in DOMAIN chain : \A j \in 1..(i - 1) : ~Decided(j)}
    IN  {r.verdict : r \in UNION {Hits(i) : i \in reached}}
            \cup (IF \E i \in DOMAIN chain : Decided(i) THEN {} ELSE {"drop"})

-----------------------------------------------------------------------------
(* Generate.                                                               *)

\* ruleLine.  Ports count for tcp and udp only, and none means all.
RuleServices(r) ==
    CASE r.proto = "tcp" -> IF r.ports = {} THEN TcpServices ELSE r.ports \cap TcpServices
      [] r.proto = "udp" -> IF r.ports = {} THEN UdpServices ELSE r.ports \cap UdpServices
      [] r.proto = "icmp" -> {"ping"}
      [] r.proto = "any" -> Services

RuleLine(r) ==
    [Accept(r.src, r.dst) EXCEPT
        !.svcs = RuleServices(r), !.source = r.source, !.dest = r.dest,
        !.limited = r.action = "log",
        !.verdict = IF r.action = "log" THEN "drop" ELSE r.action]

\* One block per item of a list: the rule of the item, or none.
UserRules(c) == [i \in DOMAIN c.rules |-> {RuleLine(r) : r \in {r \in {c.rules[i]} : r.enabled}}]

\* For the whole zone of the network.
ToInternet(c) ==
    [i \in DOMAIN c.networks |->
        {Accept(n.zone, "WAN") :
            n \in {n \in {c.networks[i]} : n.zone \in Trusted(c) \/ n.lan \/ n.internet}}]

BetweenZones(c) ==
    {Accept(z[1], z[2]) : z \in {z \in Trusted(c) \X (ZoneNames(c) \ {"WAN"}) : z[1] # z[2]}}

ToLan(c) ==
    [i \in DOMAIN c.networks |->
        {Accept(n.zone, "LAN") :
            n \in {n \in {c.networks[i]} : n.lan /\ n.zone \notin Trusted(c)}}]

Rest == <<{[Drop(Anywhere, Anywhere) EXCEPT !.limited = TRUE]}>>

\* Mutant: the rules of the user come before the drop of what a WAN sends.
ForwardChainWanLate(c) ==
    Conntrack \o UserRules(c) \o <<{Drop("WAN", Anywhere)}>> \o ToInternet(c)
        \o <<BetweenZones(c)>> \o ToLan(c) \o Rest

\* Mutant: the policy of the zones comes before the rules of the user.
ForwardChainZonesFirst(c) ==
    Conntrack \o <<{Drop("WAN", Anywhere)}>> \o ToInternet(c) \o UserRules(c)
        \o <<BetweenZones(c)>> \o ToLan(c) \o Rest

ForwardChain(c) ==
    Conntrack \o <<{Drop("WAN", Anywhere)}>> \o UserRules(c) \o ToInternet(c)
        \o <<BetweenZones(c)>> \o ToLan(c) \o Rest

InputChain(c) ==
    <<{Accept("lo", Anywhere)}, {[Accept("WAN", Anywhere) EXCEPT !.svcs = {"dhcp-reply"}]}>>
        \o Conntrack
        \o <<{[Accept("WAN", Anywhere) EXCEPT !.svcs = {"icmpv6"}]}>>
        \o [i \in DOMAIN c.tunnels |-> {[All EXCEPT !.svcs = {TunnelPort(c.tunnels[i])}]}]
        \o <<{[Accept("WAN", Anywhere) EXCEPT !.notin = TRUE,
                                         !.svcs = {"ping", "icmpv6", "dns", "dhcp"}]},
             {Drop("WAN", Anywhere)}>>

\* dstnat: the interfaces that a forward listens on; findWAN looks for the
\* name or the ID.  Its second rule, for the inside, asks for an address in
\* wan_public, to which nothing is ever added.
Listens(c, f) ==
    LET named == SelectSeq(c.wans, LAMBDA w : f.wan \in {w.name, w.id})
    IN  IF named # <<>> /\ named[1].enabled THEN {named[1].dev} ELSE WanIfaces(c)

\* The forwards that translate a packet which arrives at a WAN; nothing else
\* of Generate changes where a packet goes.
Translating(c, p) ==
    SelectSeq(c.forwards, LAMBDA f : f.enabled /\ p.in \in Listens(c, f) /\ p.svc = f.svc)

\* Mutant: only at the first WAN.
MasqueradedFirst(c, dev) ==
    {n.dev : n \in {n \in Items(c.networks) : n.internet /\ dev = c.wans[1].dev}}

\* postrouting: the source addresses that are masqueraded at an interface.
Masqueraded(c, dev) ==
    {n.dev : n \in {n \in Items(c.networks) : n.internet /\ dev \in WanIfaces(c)}}

\* The sets that the script declares, and those its chains refer to.
Declared(c) == {"WAN"} \cup ZoneNames(c)

Referenced(c) ==
    LET rules == UNION (Range(ForwardChain(c)) \cup Range(InputChain(c)))
    IN  ({r.in : r \in rules} \cup {r.out : r \in rules}) \ {Anywhere, "lo"}

-----------------------------------------------------------------------------
Init ==
    cfg \in [wans : WanLists, networks : NetworkLists, tunnels : TunnelLists,
             rules : {<<>>}, forwards : {<<>>}]

\* Every edit of the configuration generates the ruleset again.
SetWans == \E l \in WanLists : cfg' = [cfg EXCEPT !.wans = l]
SetNetworks == \E l \in NetworkLists : cfg' = [cfg EXCEPT !.networks = l]
SetTunnels == \E l \in TunnelLists : cfg' = [cfg EXCEPT !.tunnels = l]
SetRules == \E l \in RuleLists : cfg' = [cfg EXCEPT !.rules = l]
SetForwards == \E l \in ForwardLists : cfg' = [cfg EXCEPT !.forwards = l]

Next == SetWans \/ SetNetworks \/ SetTunnels \/ SetRules \/ SetForwards

Spec == Init /\ [][Next]_cfg

-----------------------------------------------------------------------------
(* Properties.                                                             *)

New(in, out, svc) == [ct |-> "new", in |-> in, out |-> out, svc |-> svc]
Forwarded(p) == Verdicts(cfg, ForwardChain(cfg), p)
Admitted(in, svc) == Verdicts(cfg, InputChain(cfg), New(in, Anywhere, svc))

Inside == {n.dev : n \in Items(cfg.networks)} \cup {t.dev : t \in Items(cfg.tunnels)}

\* A rule of the user is about a packet: its zones have the two interfaces.
Covers(r, p) ==
    /\ p.in \in Elements(cfg, r.src) /\ p.out \in Elements(cfg, r.dst)
    /\ p.svc \in RuleServices(r)
    /\ r.source = {} \/ p.in \in r.source
    /\ r.dest = {} \/ p.out \in r.dest

\* The positions of the enabled rules that are about a packet.
Covering(p) == {i \in DOMAIN cfg.rules : cfg.rules[i].enabled /\ Covers(cfg.rules[i], p)}

\* Nothing that a WAN initiates is forwarded, whatever rules and port forwards
\* the user adds, and nothing reaches the router but replies of a DHCP
\* server, ICMPv6 and the port of a tunnel (the order of the forward chain and
\* of the input chain in Generate).  lo is the router itself.
WanClosed ==
    \A dev \in WanIfaces(cfg) \ {"lo"}, svc \in Services :
        /\ \A out \in Inside \cup WanIfaces(cfg) : Forwarded(New(dev, out, svc)) = {"drop"}
        /\ "accept" \in Admitted(dev, svc) =>
               svc \in {"dhcp-reply", "icmpv6"} \cup {TunnelPort(t) : t \in Items(cfg.tunnels)}

\* Among the rules of the user that are about a new packet from inside the
\* first one decides, and no policy of the zones overrules it; a log rule
\* leaves what exceeds its rate to the rest of the chain.  (Validate does not
\* refuse a network on the interface of a WAN; such a one is outside.)
RulesDecide ==
    \A in \in Inside \ WanIfaces(cfg), out \in Inside \cup WanIfaces(cfg), svc \in Services :
        LET p == New(in, out, svc)
        IN  \A i \in Covering(p) :
                (\A j \in Covering(p) : i <= j) /\ cfg.rules[i].action # "log" =>
                    Forwarded(p) = {cfg.rules[i].action}

\* An interface belongs to a zone.
InZone(dev, z) == dev \in Elements(cfg, z)

\* A new packet crosses from one zone to another, or to the Internet, only if
\* an item of the configuration says so: an accept rule about it, a tunnel in
\* the zone it comes from, access to the LAN (which a network of the zone LAN
\* has to every zone, any other to the zone LAN only), or, towards a WAN,
\* Internet access of a network in its zone.  In particular guests reach
\* neither the LAN nor each other's zones by default.
CrossesByGrant ==
    \A in \in Inside, out \in Inside \cup WanIfaces(cfg), svc \in Services :
        LET p == New(in, out, svc)
            peers == {n \in Items(cfg.networks) : InZone(in, n.zone)}
        IN  "accept" \in Forwarded(p) =>
                \/ \E i \in Covering(p) : cfg.rules[i].action = "accept"
                \/ \E t \in Items(cfg.tunnels) : InZone(in, TunnelZone(t))
                \/ \E n \in peers : n.lan /\ (out \in WanIfaces(cfg) \/ n.zone = "LAN" \/ InZone(out, "LAN"))
                \/ \E n \in peers : n.internet /\ out \in WanIfaces(cfg)

\* A network with Internet access has it at every enabled WAN: the router
\* answers its DHCP and DNS, its packets are forwarded unless a rule of the
\* user is about them, leave with a translated address, and the answers
\* come back.  (Validate does not refuse a network in the zone WAN or on the
\* interface of a WAN; it has no access.)
InternetWorks ==
    \A n \in Items(cfg.networks), dev \in WanIfaces(cfg), svc \in Services :
        n.internet /\ n.zone # "WAN" /\ n.dev \notin WanIfaces(cfg) =>
            /\ Admitted(n.dev, "dns") = {"accept"} /\ Admitted(n.dev, "dhcp") = {"accept"}
            /\ Covering(New(n.dev, dev, svc)) = {} => Forwarded(New(n.dev, dev, svc)) = {"accept"}
            /\ n.dev \in Masqueraded(cfg, dev)
            /\ Forwarded([New(dev, n.dev, svc) EXCEPT !.ct = "established"]) = {"accept"}

\* nft accepts the script: every set that a rule refers to is declared, also
\* for rules whose networks are gone.  The exception is lan_ifaces when access
\* to the LAN is granted and there is no zone LAN.
SetsDeclared ==
    Referenced(cfg) \ Declared(cfg) \subseteq
        {"LAN" : n \in {n \in Items(cfg.networks) : n.lan}}

\* What an enabled port forward translates is forwarded to its target
\* ("port forwarding works" in the design document).
PortForwardsWork ==
    \A dev \in WanIfaces(cfg), svc \in Services :
        LET t == Translating(cfg, New(dev, Anywhere, svc))
        IN  t # <<>> => "accept" \in Forwarded(New(dev, t[1].to, t[1].toSvc))
=============================================================================
