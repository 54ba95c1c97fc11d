------------------------------- MODULE Engine -------------------------------
(***************************************************************************)
(* The reconciliation engine (router/internal/reconcile/engine.go,         *)
(* provenance.go): observe the kernel, plan commands, run them one by one, *)
(* verify, record the routes.  The kernel is the one that the executors    *)
(* (router/internal/platform) drive: what fake.go does, and what Linux     *)
(* does besides (what goes with a device or an address, what is refused).  *)
(* Where the outcome for a route differs both are possible.  Others change *)
(* the kernel as well, a command or an observation may fail, and the       *)
(* daemon may die between any two commands.                                *)
(***************************************************************************)
EXTENDS DesiredState, FiniteSets

CONSTANTS
    Targets,       \* the desired states that BuildWith computes
    Boot,          \* the kernel before routerd is first started
    Foreign,       \* commands that others give
    Unit,          \* the text of the systemd unit
    MaxChanges,    \* bound: changes of the desired state
    MaxForeign,    \* bound: commands by others
    MaxFaults      \* bound: failing commands and deaths of the daemon

HasLink(links, name) == \E i \in DOMAIN links : links[i].name = name
By(links, name) == links[CHOOSE i \in DOMAIN links : links[i].name = name]

\* The zero value of a kernel that routerd has not touched.
Kernel(links) ==
    [links |-> links, addrs |-> {}, routes |-> {}, nft |-> None, conf |-> None,
     unit |-> None, service |-> None, wg |-> {}, tc |-> {}]

\* A link, as ip shows it: only a VLAN has a parent.
IsLink(l) ==
    /\ DOMAIN l = {"name", "type", "parent", "master", "up"}
    /\ l.type # "vlan" => l.parent = None

\* The kernel is one: names are unique, a master, a parent and the device of an
\* address or a route exist, and a gateway is on a network of its device.
Consistent(x) ==
    /\ DOMAIN x = DOMAIN Kernel(<<>>)
    /\ IsList(x.links) /\ \A l \in Range(x.links) : IsLink(l)
    /\ \A i, j \in DOMAIN x.links : x.links[i].name = x.links[j].name => i = j
    /\ \A l \in Range(x.links) : \A n \in {l.master, l.parent} \ {None} : HasLink(x.links, n)
    /\ IsFiniteSet(x.addrs) /\ \A a \in x.addrs : HasLink(x.links, a[1])
    /\ \A r \in x.routes :
          /\ HasLink(x.links, r.dev)
          /\ r.via # None => \E a \in x.addrs : a[1] = r.dev

Commands == {"link add", "link del", "master", "up", "addr add", "addr del", "route replace",
             "route del", "nft delete", "nft load", "write conf", "write unit",
             "daemon-reload", "restart", "enable", "wg", "tc"}

\* What BuildWith makes of a valid configuration: links that are up, addresses on
\* them, and an address for every device that loses its others.
IsDesired(d) ==
    /\ IsList(d.links) /\ \A l \in Range(d.links) : IsLink(l) /\ l.up
    /\ IsList(d.addrs) /\ \A a \in Range(d.addrs) : HasLink(d.links, a[1])
    /\ \A dev \in d.drop : \E a \in Range(d.addrs) : a[1] = dev
    /\ IsList(d.routes) /\ IsList(d.wg) /\ IsList(d.tc)

\* A service that runs at boot has read its file; the files are routerd's own.
ASSUME EngineAssumption ==
    /\ Targets # {} /\ \A d \in Targets : IsDesired(d)
    /\ Consistent(Boot) /\ Boot.service = Boot.conf
    /\ \A c \in Foreign : /\ c.do \in Commands \ {"write conf", "write unit"}
                          /\ c.do = "link add" => IsLink(c.arg)
    /\ Unit # None
    /\ MaxChanges \in Nat /\ MaxForeign \in Nat /\ MaxFaults \in Nat

VARIABLES
    k,        \* the kernel, and the files and services that routerd writes
    prov,     \* provenance: the routes of the last successful Apply
    target,   \* what should be applied
    want,     \* the argument of the Apply that runs
    pc,       \* its phase: "links", "addrs", "rest", "save"; "idle" when none runs
    ops,      \* the commands left in this phase
    asked,    \* history: routes that some Apply was asked for
    changes, others, faults   \* counters against the bounds

vars == <<k, prov, target, want, pc, ops, asked, changes, others, faults>>

Init ==
    /\ k = Boot
    /\ prov = <<>>
    /\ target \in Targets /\ want = target
    /\ pc = "idle" /\ ops = <<>>
    /\ asked = {}
    /\ changes = 0 /\ others = 0 /\ faults = 0

-----------------------------------------------------------------------------
(* Commands.  ignore: IgnoreErrors. *)

Cmd(do, dev, arg) == [do |-> do, dev |-> dev, arg |-> arg, ignore |-> FALSE]
CmdIdempotent(do, dev, arg) == [Cmd(do, dev, arg) EXCEPT !.ignore = TRUE]

Change(links, name, l) ==
    [i \in DOMAIN links |-> IF links[i].name = name THEN l ELSE links[i]]

SameRoute(r, s) == r.dst = s.dst /\ r.via = s.via /\ r.dev = s.dev
HasRoute(routes, r) == \E x \in routes : SameRoute(x, r)

\* ip link add: the name is free, a VLAN has its parent.
LinkAdd(x, l) ==
    IF HasLink(x.links, l.name) \/ (l.type = "vlan" /\ ~HasLink(x.links, l.parent)) THEN {}
    ELSE {[x EXCEPT !.links = Append(@, [l EXCEPT !.master = None, !.up = FALSE])]}

\* Mutant: VLANs outlive their parent.
LinkDelKeepsChildren(x, name) ==
    LET kept == Among(x.links, {l \in Range(x.links) : l.name # name})
    IN IF ~HasLink(x.links, name) THEN {} ELSE {[x EXCEPT !.links = kept]}

\* A device, the VLANs on it, and those on them.
Family(links, name) ==
    LET vlans == {l \in Range(links) : l.type = "vlan"}
        Closed(G) == \A l \in vlans : l.parent \in {name} \cup G => l.name \in G
    IN {name} \cup {n \in {l.name : l \in vlans} :
                      \A G \in SUBSET {l.name : l \in vlans} : Closed(G) => n \in G}

\* ip link del: VLANs die with their parent, members are released; addresses,
\* routes, peers and qdiscs go with the device.
LinkDel(x, name) ==
    LET gone == Family(x.links, name)
        kept == Among(x.links, {l \in Range(x.links) : l.name \notin gone})
    IN IF ~HasLink(x.links, name) THEN {}
       ELSE {[x EXCEPT !.links = [i \in DOMAIN kept |->
                                    IF kept[i].master \in gone
                                    THEN [kept[i] EXCEPT !.master = None] ELSE kept[i]],
                       !.addrs = {a \in @ : a[1] \notin gone},
                       !.routes = {r \in @ : r.dev \notin gone},
                       !.wg = {w \in @ : w.dev \notin gone},
                       !.tc = {q \in @ : q.dev \notin gone}]}

LinkMaster(x, name, m) ==
    IF ~HasLink(x.links, name) \/ (m # None /\ ~HasLink(x.links, m)) THEN {}
    ELSE {[x EXCEPT !.links = Change(@, name, [By(@, name) EXCEPT !.master = m])]}

\* The routes of a device go when it goes down.
LinkUp(x, name, up) ==
    IF ~HasLink(x.links, name) THEN {}
    ELSE {[x EXCEPT !.links = Change(@, name, [By(@, name) EXCEPT !.up = up]),
                    !.routes = IF up THEN @ ELSE {r \in @ : r.dev # name}]}

AddrAdd(x, dev, a) ==
    IF ~HasLink(x.links, dev) THEN {} ELSE {[x EXCEPT !.addrs = @ \cup {<<dev, a>>}]}

\* The routes through a gateway go with the last address of its device.
AddrDel(x, dev, a) ==
    LET left == x.addrs \ {<<dev, a>>}
        Reached(r) == r.via = None \/ r.dev # dev \/ \E b \in left : b[1] = dev
    IN IF ~HasLink(x.links, dev) THEN {}
       ELSE {[x EXCEPT !.addrs = left, !.routes = {r \in @ : Reached(r)}]}

\* ip route replace: the device is up, a gateway is on one of its networks.
\* Linux drops a route with the same destination and metric, the simulator
\* keeps it.
RouteReplace(x, r) ==
    IF /\ HasLink(x.links, r.dev) /\ By(x.links, r.dev).up
       /\ r.via # None => \E a \in x.addrs : a[1] = r.dev
    THEN {[x EXCEPT !.routes = {r} \cup {s \in @ : s.dst # r.dst \/ s.metric # r.metric}],
          [x EXCEPT !.routes = {r} \cup @]}
    ELSE {}

\* ip route del: when there is none Linux reports an error, the simulator does
\* not.
RouteDel(x, r) ==
    {[x EXCEPT !.routes = {s \in @ : s.dst # r.dst \/ s.dev # r.dev
                                     \/ (r.via # None /\ s.via # r.via)}]}

NftTable(x, script) == {[x EXCEPT !.nft = script]}

\* A service that is started reads its file; enable --now leaves one that runs.
Systemctl(x, verb) ==
    CASE verb = "daemon-reload" -> {x}
      [] verb # "daemon-reload" /\ x.unit = None -> {}
      [] verb = "restart" /\ x.unit # None -> {[x EXCEPT !.service = x.conf]}
      [] verb = "enable" /\ x.unit # None ->
           {[x EXCEPT !.service = IF @ = None THEN x.conf ELSE @]}

WgSync(x, dev, conf) ==
    IF ~HasLink(x.links, dev) THEN {}
    ELSE {[x EXCEPT !.wg = {w \in @ : w.dev # dev} \cup {[dev |-> dev, conf |-> conf]}]}

\* One qdisc per place (root, ingress, clsact) of a device.
TcReplace(x, q) ==
    IF ~HasLink(x.links, q.dev) THEN {}
    ELSE {[x EXCEPT !.tc = {p \in @ : p.dev # q.dev \/ p.slot # q.slot} \cup {q}]}

\* Every outcome of a command; none if it is refused.
Results(x, c) ==
    CASE c.do = "link add" -> LinkAdd(x, c.arg)
      [] c.do = "link del" -> LinkDel(x, c.dev)
      [] c.do = "master" -> LinkMaster(x, c.dev, c.arg)
      [] c.do = "up" -> LinkUp(x, c.dev, c.arg)
      [] c.do = "addr add" -> AddrAdd(x, c.dev, c.arg)
      [] c.do = "addr del" -> AddrDel(x, c.dev, c.arg)
      [] c.do = "route replace" -> RouteReplace(x, c.arg)
      [] c.do = "route del" -> RouteDel(x, c.arg)
      [] c.do = "nft delete" -> NftTable(x, None)
      [] c.do = "nft load" -> NftTable(x, c.arg)
      [] c.do = "write conf" -> {[x EXCEPT !.conf = c.arg]}
      [] c.do = "write unit" -> {[x EXCEPT !.unit = c.arg]}
      [] c.do \in {"daemon-reload", "restart", "enable"} -> Systemctl(x, c.do)
      [] c.do = "wg" -> WgSync(x, c.dev, c.arg)
      [] c.do = "tc" -> TcReplace(x, c.arg)

\* Linux refuses to add an address twice or to remove a route that is gone, the
\* simulator does not.
MayFail(x, c) ==
    \/ Results(x, c) = {}
    \/ c.do = "addr add" /\ <<c.dev, c.arg>> \in x.addrs
    \/ c.do = "route del" /\ ~HasRoute(x.routes, c.arg)

-----------------------------------------------------------------------------
(* Planning: what is different becomes commands *)

If(cond, s) == IF cond THEN s ELSE <<>>

\* The physical interfaces of the configuration exist.
CheckInterfaces(d, a) ==
    \A i \in DOMAIN d.links : d.links[i].type = "ether" => HasLink(a.links, d.links[i].name)

\* Mutant: a device of another kind is left as it is.
PlanLinkAnyKind(l, a) ==
    LET there == HasLink(a.links, l.name)
        cur == IF there THEN By(a.links, l.name) ELSE [l EXCEPT !.master = None, !.up = FALSE]
    IN IF ~there /\ l.type = "ether" THEN <<>>
       ELSE If(~there, <<Cmd("link add", l.name, l)>>)
            \o If(cur.master # l.master, <<Cmd("master", l.name, l.master)>>)
            \o If(cur.up # l.up, <<Cmd("up", l.name, l.up)>>)

\* One desired link.  A device of another kind is made anew, unless it is a
\* physical one.
PlanLink(l, a) ==
    LET there == HasLink(a.links, l.name)
        recreate == /\ there
                    /\ l.type # "ether"
                    /\ By(a.links, l.name).type \notin {l.type, "ether"}
        cur == IF there /\ ~recreate THEN By(a.links, l.name)
               ELSE [l EXCEPT !.master = None, !.up = FALSE]
    IN IF ~there /\ l.type = "ether" THEN <<>>
       ELSE If(recreate, <<Cmd("link del", l.name, None)>>)
            \o If(recreate \/ ~there, <<Cmd("link add", l.name, l)>>)
            \o If(cur.master # l.master, <<Cmd("master", l.name, l.master)>>)
            \o If(cur.up # l.up, <<Cmd("up", l.name, l.up)>>)

managedKinds == {"bridge", "wireguard", "vlan"}

\* Deletions first: kinds that routerd manages and that are not desired.
PlanLinks(d, a) ==
    LET stale == Among(a.links, {l \in Range(a.links) :
                                   /\ l.type \in managedKinds
                                   /\ ~HasLink(d.links, l.name)})
    IN [i \in DOMAIN stale |-> Cmd("link del", stale[i].name, None)]
         \o FlatMap(LAMBDA l : PlanLink(l, a), d.links)

\* The addresses of one device: stale ones are removed before new ones are
\* added.
PlanAddrsOf(dev, d, a) ==
    LET stale == {p \in a.addrs \ Range(d.addrs) : p[1] = dev}
        new == Among(d.addrs, {p \in Range(d.addrs) \ a.addrs : p[1] = dev})
    IN IF ~HasLink(d.links, dev) /\ ~HasLink(a.links, dev) THEN <<>>
       ELSE If(dev \in d.drop, Map(LAMBDA p : CmdIdempotent("addr del", dev, p[2]), SetToSeq(stale)))
            \o Map(LAMBDA p : Cmd("addr add", dev, p[2]), new)

\* The devices come out of a map, in any order.
AddrDevs(d) == {d.addrs[i][1] : i \in DOMAIN d.addrs}
PlanAddrs(d, a, order) == FlatMap(LAMBDA dev : PlanAddrsOf(dev, d, a), order)

\* Routes are compared without their metric.
desiredHasRoute(d, r) ==
    \E i \in DOMAIN d.routes : /\ d.routes[i].dst = r.dst /\ d.routes[i].dev = r.dev
                               /\ d.routes[i].via = r.via \/ r.via = None

\* Mutant: every route that is not desired is stale.
PlanRoutesAll(d, a, managed) ==
    LET new == Among(d.routes, {r \in Range(d.routes) : ~HasRoute(a.routes, r)})
        stale == SetToSeq({r \in a.routes : ~desiredHasRoute(d, r)})
    IN Map(LAMBDA r : Cmd("route replace", r.dev, r), new)
         \o Map(LAMBDA r : Cmd("route del", r.dev, r), stale)

PlanRoutes(d, a, managed) ==
    LET new == Among(d.routes, {r \in Range(d.routes) : ~HasRoute(a.routes, r)})
        stale == Among(managed, {r \in Range(managed) :
                                   ~desiredHasRoute(d, r) /\ HasRoute(a.routes, r)})
    IN Map(LAMBDA r : Cmd("route replace", r.dev, r), new)
         \o Map(LAMBDA r : Cmd("route del", r.dev, r), stale)

PlanFirewall(d, a) ==
    If(a.nft # d.nft, <<CmdIdempotent("nft delete", None, None), Cmd("nft load", None, d.nft)>>)

PlanServices(d, a) ==
    LET confChanged == a.conf # d.conf
        unitChanged == a.unit # Unit
        wg == Among(d.wg, Range(d.wg) \ a.wg)
    IN If(confChanged, <<Cmd("write conf", None, d.conf)>>)
       \o If(unitChanged, <<Cmd("write unit", None, Unit), Cmd("daemon-reload", None, None)>>)
       \o If(confChanged, <<Cmd("restart", None, None)>>)
       \o If(confChanged \/ unitChanged, <<CmdIdempotent("enable", None, None)>>)
       \o Map(LAMBDA w : Cmd("wg", w.dev, w.conf), wg)

PlanQoS(d, a) ==
    Map(LAMBDA q : Cmd("tc", q.dev, q),
        Among(d.tc, {q \in Range(d.tc) : HasLink(d.links, q.dev) /\ q \notin a.tc}))

PlanRest(d, a, managed) ==
    PlanRoutes(d, a, managed) \o PlanFirewall(d, a) \o PlanServices(d, a) \o PlanQoS(d, a)

-----------------------------------------------------------------------------
(* Apply *)

\* Apply returns, with an error or without.
Returns == pc' = "idle" /\ ops' = <<>>

\* Phases without commands are passed over with the same observation. A plan is
\* bound by \E, not by LET, so that TLC computes it once.
PlanFromAddrs(d) ==
    \E order \in SetToSeqs(AddrDevs(d)) : \E plan \in {PlanAddrs(d, k, order)} :
        IF plan # <<>> THEN pc' = "addrs" /\ ops' = plan
        ELSE pc' = "rest" /\ ops' = PlanRest(d, k, prov)

\* Mutant: what was applied with success is not applied again.
StartIfChanged ==
    /\ pc = "idle"
    /\ want' = target
    /\ asked' = asked \cup Range(target.routes)
    /\ IF prov = target.routes THEN UNCHANGED <<pc, ops>>
       ELSE IF PlanLinks(target, k) # <<>>
            THEN pc' = "links" /\ ops' = PlanLinks(target, k)
            ELSE PlanFromAddrs(target)
    /\ UNCHANGED <<k, prov, target, changes, others, faults>>

\* Apply begins: the first observation.
Start ==
    /\ pc = "idle"
    /\ want' = target
    /\ asked' = asked \cup Range(target.routes)
    /\ IF ~CheckInterfaces(target, k) THEN UNCHANGED <<pc, ops>>
       ELSE \E plan \in {PlanLinks(target, k)} :
                IF plan # <<>> THEN pc' = "links" /\ ops' = plan
                ELSE PlanFromAddrs(target)
    /\ UNCHANGED <<k, prov, target, changes, others, faults>>

\* The links are there: the second observation.
LinksDone ==
    /\ pc = "links"
    /\ ops = <<>>
    /\ PlanFromAddrs(want)
    /\ UNCHANGED <<k, prov, target, want, asked, changes, others, faults>>

\* The addresses are there: the third observation.
AddrsDone ==
    /\ pc = "addrs"
    /\ ops = <<>>
    /\ pc' = "rest" /\ ops' = PlanRest(want, k, prov)
    /\ UNCHANGED <<k, prov, target, want, asked, changes, others, faults>>

\* ApplyOps: the next command.
Run ==
    /\ ops # <<>>
    /\ k' \in Results(k, Head(ops))
    /\ ops' = Tail(ops)
    /\ UNCHANGED <<prov, target, want, pc, asked, changes, others, faults>>

\* It is refused.
RunRefused ==
    /\ ops # <<>>
    /\ MayFail(k, Head(ops))
    /\ IF Head(ops).ignore THEN ops' = Tail(ops) /\ UNCHANGED pc ELSE Returns
    /\ UNCHANGED <<k, prov, target, want, asked, changes, others, faults>>

\* It fails, or the daemon dies while it runs: it may have had its effect.
RunFails ==
    /\ ops # <<>>
    /\ faults < MaxFaults
    /\ faults' = faults + 1
    /\ k' \in {k} \cup Results(k, Head(ops))
    /\ Returns
    /\ UNCHANGED <<prov, target, want, asked, changes, others>>

\* The daemon cannot observe the kernel after a phase, or dies there.
ObserveFails ==
    /\ pc \in {"links", "addrs", "rest"}
    /\ ops = <<>>
    /\ faults < MaxFaults
    /\ faults' = faults + 1
    /\ Returns
    /\ UNCHANGED <<k, prov, target, want, asked, changes, others>>

\* Verify: nothing is left to plan.
Verified(d) ==
    /\ PlanLinks(d, k) = <<>>
    /\ \A dev \in AddrDevs(d) : PlanAddrsOf(dev, d, k) = <<>>
    /\ PlanRest(d, k, prov) = <<>>

Verify ==
    /\ pc = "rest"
    /\ ops = <<>>
    /\ IF Verified(want) THEN pc' = "save" /\ UNCHANGED ops ELSE Returns
    /\ UNCHANGED <<k, prov, target, want, asked, changes, others, faults>>

\* FileProvenance.Save
SaveProvenance ==
    /\ pc = "save"
    /\ \/ prov' = want.routes /\ UNCHANGED faults
       \/ faults < MaxFaults /\ faults' = faults + 1 /\ UNCHANGED prov
    /\ Returns
    /\ UNCHANGED <<k, target, want, asked, changes, others>>

-----------------------------------------------------------------------------
(* The environment *)

\* The configuration or a lease changes; an Apply that runs goes on.
Retarget ==
    /\ changes < MaxChanges
    /\ changes' = changes + 1
    /\ target' \in Targets \ {target}
    /\ UNCHANGED <<k, prov, want, pc, ops, asked, others, faults>>

\* Somebody else gives a command.
Drift ==
    /\ others < MaxForeign
    /\ others' = others + 1
    /\ \E c \in Foreign : k' \in Results(k, c)
    /\ UNCHANGED <<prov, target, want, pc, ops, asked, changes, faults>>

Step == Start \/ LinksDone \/ AddrsDone \/ Run \/ RunRefused \/ Verify \/ SaveProvenance

Next == Step \/ RunFails \/ ObserveFails \/ Retarget \/ Drift

\* The ticker calls Apply again and again, and an Apply ends.
Spec == Init /\ [][Next]_vars /\ WF_vars(Step)

-----------------------------------------------------------------------------
(* Properties *)

\* Every variable has its type, and the kernel is one.
TypeOK ==
    /\ pc \in {"idle", "links", "addrs", "rest", "save"}
    /\ target \in Targets /\ want \in Targets
    /\ Range(prov) \subseteq asked
    /\ changes \in 0..MaxChanges /\ others \in 0..MaxForeign /\ faults \in 0..MaxFaults
    /\ Consistent(k)

\* The kernel is what the configuration says, stated without the planners.  (A
\* device of any kind serves as a physical interface.)
Means(d) ==
    /\ \A l \in Range(d.links) : \E x \in Range(k.links) :
         /\ x.name = l.name /\ x.master = l.master /\ x.up
         /\ l.type # "ether" => x.type \in {l.type, "ether"}
    /\ \A x \in Range(k.links) :
         x.type \in managedKinds => \E l \in Range(d.links) : l.name = x.name
    /\ Range(d.addrs) \subseteq k.addrs
    /\ \A a \in k.addrs : a[1] \in d.drop => a \in Range(d.addrs)
    /\ \A r \in Range(d.routes) : HasRoute(k.routes, r)
    /\ k.nft = d.nft /\ k.conf = d.conf /\ k.unit = Unit
    /\ Range(d.wg) \subseteq k.wg
    /\ \A q \in Range(d.tc) : HasLink(d.links, q.dev) => q \in k.tc
    /\ faults = 0 => k.service = d.conf

\* Verify accepts nothing but that, and no route of the last configuration that
\* succeeded is left over, whatever failed or was changed by others before.  (It
\* does not look for the physical interfaces again.)
VerifiedMeans ==
    [][pc = "rest" /\ pc' = "save" =>
         /\ CheckInterfaces(want, k) => Means(want)
         /\ \A r \in Range(prov) : HasRoute(k.routes, r) => desiredHasRoute(want, r)]_vars

\* A route that routerd was never asked for is safe from it, except that it goes
\* with its device, or its gateway's network, or gives way to a desired one with
\* its destination and metric.  (What routerd asks for without a gateway, it
\* deletes without one, and so with any gateway.)
ForeignKept ==
    [][others' = others =>
         \A r \in k.routes \ k'.routes :
            \/ \E s \in asked : s.dst = r.dst /\ s.dev = r.dev /\ s.via \in {None, r.via}
            \/ \E s \in k'.routes \cap Range(want.routes) : s.dst = r.dst /\ s.metric = r.metric
            \/ ~HasLink(k'.links, r.dev) \/ ~By(k'.links, r.dev).up
            \/ k.addrs # k'.addrs]_vars

\* Once changes, faults and others have ceased, the kernel comes to what the
\* configuration says and stays there.
Converges == <>[](Means(target) /\ prov = target.routes)

=============================================================================
