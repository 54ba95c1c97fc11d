---------------------------- MODULE MCFirewall ----------------------------
(***************************************************************************)
(* The configurations on which Firewall is checked: two WANs, up to three  *)
(* networks in three zones with every combination of flags that matters, a *)
(* tunnel in a zone of its own or among the guests, and pairs of rules     *)
(* that overlap.                                                           *)
(***************************************************************************)
EXTENDS Firewall

Wan(dev, name, enabled) == [dev |-> dev, name |-> name, id |-> name, enabled |-> enabled]
MCWanLists == {<<Wan("eth0", "wan", on), Wan("eth1", "lte", TRUE)>> : on \in BOOLEAN}

Net(dev, zone, internet, lan) ==
    [dev |-> dev, zone |-> zone, internet |-> internet, lan |-> lan]
Guest(internet, lan) == Net("br-guest", "GUEST", internet, lan)
MCNetworkLists ==
    {<<Net("br-lan", "LAN", i, l), g>> : i, l \in BOOLEAN,
        g \in {Guest(i2, l2) : i2, l2 \in BOOLEAN}}
        \cup {<<Guest(TRUE, l), Net("br-iot", "GUEST", FALSE, FALSE)>> : l \in BOOLEAN}
        \cup {<<Net("br-lan", "LAN", TRUE, TRUE), Guest(TRUE, FALSE), Net("br-iot", "IOT", i, l)>> :
                  i, l \in BOOLEAN}

MCTunnelLists ==
    {<<>>, <<[dev |-> "wg0", zone |-> "", port |-> ""]>>,
     <<[dev |-> "wg0", zone |-> "GUEST", port |-> "51821"]>>}

Rule(src, dst, proto, action) ==
    [src |-> src, dst |-> dst, proto |-> proto, ports |-> {}, source |-> {}, dest |-> {},
     action |-> action, enabled |-> TRUE]
MCRules ==
    {Rule("GUEST", "LAN", "tcp", "accept"),
     [Rule("GUEST", "LAN", "tcp", "reject") EXCEPT !.ports = {"https"}, !.dest = {"br-lan"}],
     Rule("WAN", "LAN", "any", "accept"),
     Rule("LAN", "WAN", "udp", "drop"),
     Rule("GUEST", "WAN", "any", "log"),
     [Rule("LAN", "DMZ", "icmp", "accept") EXCEPT !.source = {"br-lan"}],
     [Rule("GUEST", "IOT", "any", "accept") EXCEPT !.enabled = FALSE]}
MCRuleLists ==
    {<<>>} \cup {<<r>> : r \in MCRules}
        \cup {pair \in MCRules \X MCRules : pair[1] # pair[2]}

MCForwardLists ==
    {<<>>, <<[wan |-> "wan", svc |-> "https", to |-> "br-lan", toSvc |-> "https", enabled |-> TRUE]>>}

MCTcp == {"https", "dns"}
MCUdp == {"dhcp-reply", "dns", "dhcp", "51820", "51821"}
MCServices == MCTcp \cup MCUdp \cup {"ping", "icmpv6"}
=============================================================================
