--------------------------- MODULE Firewall_proofs ---------------------------
(***************************************************************************)
(* What is proved of Firewall for lists of WANs, networks, tunnels and     *)
(* rules of any length and content.                                        *)
(***************************************************************************)
EXTENDS Firewall, SequenceTheorems, WellFoundedInduction, TLAPS

\* The least element of a set of natural numbers.
LEMMA Least ==
  ASSUME NEW T, T \subseteq Nat, T # {}
  PROVE  \E m \in T : \A i \in T : m <= i
<1>1. \E m \in T : \A i \in T : ~(<<i, m>> \in OpToRel(<, Nat))
  BY NatLessThanWellFounded, WFMin, Zenon
<1>2. PICK m \in T : \A i \in T : ~(<<i, m>> \in OpToRel(<, Nat))
  BY <1>1
<1>3. \A i \in T : ~(i < m)
  BY <1>2 DEF OpToRel
<1> QED
  BY <1>3

\* A list is the one of length m followed by the one of length n.
Join(u, s, m, t, n) ==
    /\ u \in Seq(Range(u)) /\ Range(u) = Range(s) \cup Range(t)
    /\ m \in Nat /\ n \in Nat /\ Len(u) = m + n
    /\ \A i \in 1..m : u[i] = s[i]
    /\ \A i \in 1..n : u[m + i] = t[i]

LEMMA Joined ==
  ASSUME NEW s, NEW t, s \in Seq(Range(s)), t \in Seq(Range(t))
  PROVE  Join(s \o t, s, Len(s), t, Len(t))
<1> DEFINE B == Range(s) \cup Range(t)
           u == s \o t
<1>1. s \in Seq(B) /\ t \in Seq(B)
  BY SeqMonotonic
<1> HIDE DEF B
<1>2. /\ u \in Seq(B) /\ Len(u) = Len(s) + Len(t)
      /\ \A i \in 1..(Len(s) + Len(t)) : u[i] = IF i <= Len(s) THEN s[i] ELSE t[i - Len(s)]
  BY <1>1, ConcatProperties
<1>3. Len(s) \in Nat /\ Len(t) \in Nat /\ DOMAIN s = 1..Len(s) /\ DOMAIN t = 1..Len(t)
      /\ DOMAIN u = 1..Len(u)
  BY <1>1, <1>2, LenProperties
<1> HIDE DEF u
<1>4. /\ \A i \in 1..Len(s) : u[i] = s[i] /\ i \in 1..Len(u)
      /\ \A i \in 1..Len(t) : u[Len(s) + i] = t[i] /\ Len(s) + i \in 1..Len(u)
  <2>1. ASSUME NEW i \in 1..Len(s) PROVE u[i] = s[i] /\ i \in 1..Len(u)
    BY <1>2, <1>3
  <2>2. ASSUME NEW i \in 1..Len(t) PROVE u[Len(s) + i] = t[i] /\ Len(s) + i \in 1..Len(u)
    <3> DEFINE j == Len(s) + i
    <3>1. j \in 1..(Len(s) + Len(t)) /\ ~(j <= Len(s)) /\ j - Len(s) = i
      BY <1>3
    <3> HIDE DEF j
    <3>2. u[j] = t[i] /\ j \in 1..Len(u)
      BY <1>2, <3>1
    <3> QED
      BY <3>2 DEF j
  <2> QED
    BY <2>1, <2>2
<1>5. Range(u) = Range(s) \cup Range(t)
  <2>1. ASSUME NEW x \in Range(u) PROVE x \in Range(s) \cup Range(t)
    <3>1. PICK i \in 1..Len(u) : x = u[i]
      BY <1>3 DEF Range
    <3>2. CASE i <= Len(s)
      <4>1. i \in 1..Len(s) /\ x = s[i]
        BY <1>2, <1>3, <3>1, <3>2
      <4> QED
        BY <1>3, <4>1 DEF Range
    <3>3. CASE ~(i <= Len(s))
      <4>1. i - Len(s) \in 1..Len(t) /\ x = t[i - Len(s)]
        BY <1>2, <1>3, <3>1, <3>3
      <4> QED
        BY <1>3, <4>1 DEF Range
    <3> QED
      BY <3>2, <3>3
  <2>2. ASSUME NEW x \in Range(s) \cup Range(t) PROVE x \in Range(u)
    <3>1. (\E i \in 1..Len(s) : x = s[i]) \/ (\E i \in 1..Len(t) : x = t[i])
      BY <1>3, <2>2 DEF Range
    <3> QED
      BY <1>3, <1>4, <3>1 DEF Range
  <2> QED
    BY <2>1, <2>2
<1>6. u \in Seq(Range(u))
  BY <1>2, <1>5 DEF B
<1> QED
  BY <1>3, <1>4, <1>5, <1>6, <1>2 DEF u, Join

\* A list of given length.
LEMMA Listed ==
  ASSUME NEW n \in Nat, NEW s, s = [i \in 1..n |-> s[i]]
  PROVE  s \in Seq(Range(s)) /\ Len(s) = n
<1>1. \A i \in 1..n : s[i] \in Range(s)
  BY DEF Range
<1> QED
  BY <1>1

-----------------------------------------------------------------------------
(* Rules and chains *)

\* The lists of a configuration hold items of their types.
Valid(c) == /\ c.wans \in Seq(WAN) /\ c.networks \in Seq(Network)
            /\ c.tunnels \in Seq(Tunnel) /\ c.rules \in Seq(FirewallRule)

\* The fields of a rule.
Reads(r, i, o, svcs, verdict) ==
    /\ r.ct = AnyState /\ r.in = i /\ r.notin = FALSE /\ r.out = o /\ r.svcs = svcs
    /\ r.source = {} /\ r.dest = {} /\ ~r.limited /\ r.verdict = verdict

LEMMA AcceptFields ==
  ASSUME NEW i, NEW o
  PROVE  Reads(Accept(i, o), i, o, Services, "accept")
  BY DEF Reads, Accept, All

LEMMA DropFields ==
  ASSUME NEW i, NEW o
  PROVE  Reads(Drop(i, o), i, o, Services, "drop")
  BY DEF Reads, Drop, Accept, All

LEMMA RestFields ==
  ASSUME NEW r \in Rest[1] PROVE r.verdict = "drop"
  BY DEF Rest, Drop, Accept, All

LEMMA ConntrackFields ==
  /\ \A r \in Conntrack[1] : r.ct = {"established"} /\ r.in = Anywhere /\ r.out = Anywhere
                             /\ r.svcs = Services /\ r.source = {} /\ r.dest = {}
                             /\ ~r.limited /\ r.verdict = "accept"
  /\ Conntrack[1] # {}
  /\ \A r \in Conntrack[2] : r.ct = {"invalid"} /\ r.verdict = "drop"
  BY DEF Conntrack, All

LEMMA RuleLineFields ==
  ASSUME NEW r \in FirewallRule
  PROVE  /\ RuleLine(r).ct = AnyState /\ RuleLine(r).in = r.src /\ RuleLine(r).notin = FALSE
         /\ RuleLine(r).out = r.dst /\ RuleLine(r).svcs = RuleServices(r)
         /\ RuleLine(r).source = r.source /\ RuleLine(r).dest = r.dest
         /\ RuleLine(r).limited <=> r.action = "log"
         /\ RuleLine(r).verdict = IF r.action = "log" THEN "drop" ELSE r.action
  BY DEF RuleLine, Accept, All

\* A block decides a packet; whatever matches in it has the verdict v.
Deciding(c, b, p) == \E r \in b : Matches(c, r, p) /\ ~r.limited
Agreeing(c, b, p, v) == \A r \in b : Matches(c, r, p) => r.verdict = v
DecidedAt(c, chain, p, v, k) ==
    /\ chain \in Seq(Range(chain)) /\ k \in 1..Len(chain)
    /\ Deciding(c, chain[k], p)
    /\ \A j \in 1..k : Agreeing(c, chain[j], p, v)

\* The verdict of a chain when a block decides, and all that match in it and
\* before it agree.
LEMMA Decides ==
  ASSUME NEW c, NEW p, NEW v, NEW chain, NEW k, DecidedAt(c, chain, p, v, k)
  PROVE  Verdicts(c, chain, p) = {v}
<1> USE DEF DecidedAt
<1> DEFINE Hits(i) == {r \in chain[i] : Matches(c, r, p)}
           Decided(i) == \E r \in Hits(i) : ~r.limited
           reached == {i \in DOMAIN chain : \A j \in 1..(i - 1) : ~Decided(j)}
           T == {i \in 1..Len(chain) : Decided(i)}
<1>1. Len(chain) \in Nat /\ DOMAIN chain = 1..Len(chain)
  BY LenProperties
<1>2. k \in T /\ T \subseteq Nat /\ T # {} /\ T \subseteq DOMAIN chain
  BY <1>1 DEF Deciding
<1>3. PICK m \in T : \A i \in T : m <= i
  <2> HIDE DEF T
  <2> QED
    BY <1>2, Least
<1>4. m \in 1..k /\ m \in DOMAIN chain /\ Decided(m)
  BY <1>1, <1>2, <1>3
<1>5. m \in reached
  BY <1>1, <1>3, <1>4
<1>6. \A i \in reached : i \in 1..k
  BY <1>1, <1>2
<1>7. \A j \in 1..k : \A r \in Hits(j) : r.verdict = v
  BY DEF Agreeing
<1>8. {r.verdict : r \in UNION {Hits(i) : i \in reached}} = {v}
  <2>1. PICK r \in Hits(m) : ~r.limited
    BY <1>4
  <2> HIDE DEF Hits, reached
  <2>2. r.verdict = v /\ r \in UNION {Hits(i) : i \in reached}
    BY <1>4, <1>5, <1>7, <2>1
  <2>3. \A x \in UNION {Hits(i) : i \in reached} : x.verdict = v
    BY <1>6, <1>7
  <2> QED
    BY <2>2, <2>3
<1>9. \E i \in DOMAIN chain : Decided(i)
  BY <1>4
<1>10. Verdicts(c, chain, p)
        = {r.verdict : r \in UNION {Hits(i) : i \in reached}}
              \cup (IF \E i \in DOMAIN chain : Decided(i) THEN {} ELSE {"drop"})
  BY DEF Verdicts
<1> QED
  BY <1>8, <1>9, <1>10

\* What a chain accepts matches a rule that accepts it.
LEMMA AcceptedBy ==
  ASSUME NEW c, NEW p, NEW chain, "accept" \in Verdicts(c, chain, p)
  PROVE  \E b \in Range(chain) : \E r \in b : Matches(c, r, p) /\ r.verdict = "accept"
  BY DEF Verdicts, Range

\* The lists of blocks that the chains are made of.
LEMMA PartsListed ==
  ASSUME NEW c, Valid(c)
  PROVE  /\ Len(c.rules) \in Nat /\ Len(c.networks) \in Nat /\ Len(c.tunnels) \in Nat
         /\ DOMAIN c.rules = 1..Len(c.rules) /\ DOMAIN c.networks = 1..Len(c.networks)
         /\ DOMAIN c.tunnels = 1..Len(c.tunnels)
         /\ UserRules(c) \in Seq(Range(UserRules(c))) /\ Len(UserRules(c)) = Len(c.rules)
         /\ ToInternet(c) \in Seq(Range(ToInternet(c))) /\ Len(ToInternet(c)) = Len(c.networks)
         /\ ToLan(c) \in Seq(Range(ToLan(c))) /\ Len(ToLan(c)) = Len(c.networks)
<1>1. /\ Len(c.rules) \in Nat /\ Len(c.networks) \in Nat /\ Len(c.tunnels) \in Nat
      /\ DOMAIN c.rules = 1..Len(c.rules) /\ DOMAIN c.networks = 1..Len(c.networks)
      /\ DOMAIN c.tunnels = 1..Len(c.tunnels)
  BY LenProperties DEF Valid
<1>2. UserRules(c) = [i \in 1..Len(c.rules) |-> UserRules(c)[i]]
  BY <1>1 DEF UserRules
<1>3. ToInternet(c) = [i \in 1..Len(c.networks) |-> ToInternet(c)[i]]
  BY <1>1 DEF ToInternet
<1>4. ToLan(c) = [i \in 1..Len(c.networks) |-> ToLan(c)[i]]
  BY <1>1 DEF ToLan
<1> QED
  BY <1>1, <1>2, <1>3, <1>4, Listed

\* A list of one block, and the pair that treats tracked connections.
LEMMA Single ==
  ASSUME NEW b
  PROVE  <<b>> \in Seq(Range(<<b>>)) /\ Len(<<b>>) = 1 /\ <<b>>[1] = b /\ Range(<<b>>) = {b}
<1>1. Range(<<b>>) = {b}
  BY DEF Range
<1> QED
  BY <1>1

LEMMA Pair ==
  ASSUME NEW a, NEW b
  PROVE  /\ <<a, b>> \in Seq(Range(<<a, b>>)) /\ Len(<<a, b>>) = 2
         /\ <<a, b>>[1] = a /\ <<a, b>>[2] = b /\ Range(<<a, b>>) = {a, b}
<1>1. Range(<<a, b>>) = {a, b}
  BY DEF Range
<1> QED
  BY <1>1

\* Where the blocks of the forward chain are.
ForwardLayout(F, c) ==
    /\ F \in Seq(Range(F)) /\ Len(F) \in Nat
    /\ 3 + Len(c.rules) + Len(c.networks) <= Len(F)
    /\ F[1] = Conntrack[1] /\ F[2] = Conntrack[2] /\ F[3] = {Drop("WAN", Anywhere)}
    /\ \A i \in 1..Len(c.rules) : F[3 + i] = UserRules(c)[i]
    /\ \A i \in 1..Len(c.networks) : F[3 + Len(c.rules) + i] = ToInternet(c)[i]
    /\ Range(F) = {Conntrack[1], Conntrack[2], {Drop("WAN", Anywhere)}}
                      \cup Range(UserRules(c)) \cup Range(ToInternet(c))
                      \cup {BetweenZones(c)} \cup Range(ToLan(c)) \cup {Rest[1]}

LEMMA ForwardBlocks ==
  ASSUME NEW c, Valid(c)
  PROVE  ForwardLayout(ForwardChain(c), c)
<1> DEFINE nr == Len(c.rules)
           nn == Len(c.networks)
           W == {Drop("WAN", Anywhere)}
           U == UserRules(c)
           I == ToInternet(c)
           B == BetweenZones(c)
           L == ToLan(c)
           A1 == Conntrack \o <<W>>
           A2 == A1 \o U
           A3 == A2 \o I
           A4 == A3 \o <<B>>
           A5 == A4 \o L
           A6 == A5 \o Rest
<1>0. ForwardChain(c) = A6
  BY DEF ForwardChain
<1>1. /\ nr \in Nat /\ nn \in Nat
      /\ U \in Seq(Range(U)) /\ Len(U) = nr /\ I \in Seq(Range(I)) /\ Len(I) = nn
      /\ L \in Seq(Range(L)) /\ Len(L) = nn
  BY PartsListed
<1>2. /\ Conntrack \in Seq(Range(Conntrack)) /\ Len(Conntrack) = 2
      /\ Range(Conntrack) = {Conntrack[1], Conntrack[2]}
  BY Pair DEF Conntrack
<1>3. Rest \in Seq(Range(Rest)) /\ Len(Rest) = 1 /\ Range(Rest) = {Rest[1]}
  BY Single DEF Rest
<1>4. /\ <<W>> \in Seq(Range(<<W>>)) /\ Len(<<W>>) = 1 /\ <<W>>[1] = W /\ Range(<<W>>) = {W}
      /\ <<B>> \in Seq(Range(<<B>>)) /\ Len(<<B>>) = 1 /\ Range(<<B>>) = {B}
  BY Single
<1> HIDE DEF nr, nn, W, U, I, B, L
<1>5. /\ A1 \in Seq(Range(A1)) /\ Len(A1) = 3 /\ Range(A1) = {Conntrack[1], Conntrack[2], W}
      /\ A1[1] = Conntrack[1] /\ A1[2] = Conntrack[2] /\ A1[3] = W
  <2> DEFINE V == <<W>>
  <2>1. V \in Seq(Range(V)) /\ Len(V) = 1 /\ V[1] = W /\ Range(V) = {W}
    BY <1>4
  <2> HIDE DEF V
  <2>2. Join(A1, Conntrack, 2, V, 1)
    BY <1>2, <2>1, Joined, Zenon DEF V
  <2> HIDE DEF A1
  <2> QED
    BY <1>2, <2>1, <2>2 DEF Join
<1> HIDE DEF A1
<1>6. /\ A2 \in Seq(Range(A2)) /\ Range(A2) = Range(A1) \cup Range(U) /\ Len(A2) = 3 + nr
      /\ \A i \in 1..3 : A2[i] = A1[i]
      /\ \A i \in 1..nr : A2[3 + i] = U[i]
  <2>1. Join(A2, A1, 3, U, nr)
    BY <1>1, <1>5, Joined, Zenon
  <2> HIDE DEF A2
  <2> QED
    BY <2>1 DEF Join
<1> HIDE DEF A2
<1>7. /\ A3 \in Seq(Range(A3)) /\ Range(A3) = Range(A2) \cup Range(I) /\ Len(A3) = 3 + nr + nn
      /\ \A i \in 1..(3 + nr) : A3[i] = A2[i]
      /\ \A i \in 1..nn : A3[3 + nr + i] = I[i]
  <2>1. Join(A3, A2, 3 + nr, I, nn)
    BY <1>1, <1>6, Joined, Zenon
  <2> HIDE DEF A3
  <2> QED
    BY <2>1 DEF Join
<1> HIDE DEF A3
<1>8. /\ A4 \in Seq(Range(A4)) /\ Range(A4) = Range(A3) \cup {B} /\ Len(A4) = 3 + nr + nn + 1
      /\ \A i \in 1..(3 + nr + nn) : A4[i] = A3[i]
  <2> DEFINE V == <<B>>
  <2>1. V \in Seq(Range(V)) /\ Len(V) = 1 /\ Range(V) = {B}
    BY <1>4
  <2> HIDE DEF V
  <2>2. Join(A4, A3, 3 + nr + nn, V, 1)
    BY <1>7, <2>1, Joined, Zenon DEF V
  <2> HIDE DEF A4
  <2> QED
    BY <2>1, <2>2 DEF Join
<1> HIDE DEF A4
<1>9. /\ A5 \in Seq(Range(A5)) /\ Range(A5) = Range(A4) \cup Range(L)
      /\ Len(A5) = 3 + nr + nn + 1 + nn
      /\ \A i \in 1..(3 + nr + nn + 1) : A5[i] = A4[i]
  <2>1. Join(A5, A4, 3 + nr + nn + 1, L, nn)
    BY <1>1, <1>8, Joined, Zenon
  <2> HIDE DEF A5
  <2> QED
    BY <2>1 DEF Join
<1> HIDE DEF A5
<1>10. /\ A6 \in Seq(Range(A6)) /\ Range(A6) = Range(A5) \cup {Rest[1]}
       /\ Len(A6) = 3 + nr + nn + 1 + nn + 1
       /\ \A i \in 1..(3 + nr + nn + 1 + nn) : A6[i] = A5[i]
  <2>1. Join(A6, A5, 3 + nr + nn + 1 + nn, Rest, 1)
    BY <1>3, <1>9, Joined, Zenon
  <2> HIDE DEF A6
  <2> QED
    BY <1>3, <2>1 DEF Join
<1> HIDE DEF A6
<1>11. \A i \in 1..(3 + nr + nn) : A6[i] = A3[i]
  BY <1>1, <1>8, <1>9, <1>10
<1>12. \A i \in 1..(3 + nr) : A6[i] = A2[i]
  BY <1>1, <1>7, <1>11
<1>13. A6[1] = Conntrack[1] /\ A6[2] = Conntrack[2] /\ A6[3] = W
  <2>1. /\ 1 \in 1..3 /\ 2 \in 1..3 /\ 3 \in 1..3
        /\ 1 \in 1..(3 + nr) /\ 2 \in 1..(3 + nr) /\ 3 \in 1..(3 + nr)
    BY <1>1
  <2>2. A6[1] = A1[1] /\ A6[2] = A1[2] /\ A6[3] = A1[3]
    BY <1>6, <1>12, <2>1
  <2> QED
    BY <1>5, <2>2
<1>14. \A i \in 1..nr : A6[3 + i] = U[i]
  <2> SUFFICES ASSUME NEW i \in 1..nr PROVE A6[3 + i] = U[i]
    OBVIOUS
  <2>1. 3 + i \in 1..(3 + nr)
    BY <1>1
  <2> QED
    BY <1>6, <1>12, <2>1
<1>15. \A i \in 1..nn : A6[3 + nr + i] = I[i]
  <2> SUFFICES ASSUME NEW i \in 1..nn PROVE A6[3 + nr + i] = I[i]
    OBVIOUS
  <2>1. 3 + nr + i \in 1..(3 + nr + nn)
    BY <1>1
  <2> QED
    BY <1>7, <1>11, <2>1
<1>16. Range(A6) = {Conntrack[1], Conntrack[2], W} \cup Range(U) \cup Range(I)
                     \cup {B} \cup Range(L) \cup {Rest[1]}
  BY <1>5, <1>6, <1>7, <1>8, <1>9, <1>10
<1>17. Len(A6) \in Nat /\ 3 + nr + nn <= Len(A6)
  BY <1>1, <1>10
<1> QED
  BY <1>0, <1>10, <1>13, <1>14, <1>15, <1>16, <1>17 DEF nr, nn, W, U, I, B, L, ForwardLayout

\* The rules of the input chain that are its own.
DhcpReply == [Accept("WAN", Anywhere) EXCEPT !.svcs = {"dhcp-reply"}]
WanIcmpv6 == [Accept("WAN", Anywhere) EXCEPT !.svcs = {"icmpv6"}]
ListenPort(t) == [All EXCEPT !.svcs = {TunnelPort(t)}]
LocalServices == [Accept("WAN", Anywhere) EXCEPT !.notin = TRUE,
                                          !.svcs = {"ping", "icmpv6", "dns", "dhcp"}]

LEMMA InputFields ==
  /\ Reads(DhcpReply, "WAN", Anywhere, {"dhcp-reply"}, "accept")
  /\ Reads(WanIcmpv6, "WAN", Anywhere, {"icmpv6"}, "accept")
  /\ \A t : Reads(ListenPort(t), Anywhere, Anywhere, {TunnelPort(t)}, "accept")
  /\ LocalServices.ct = AnyState /\ LocalServices.in = "WAN" /\ LocalServices.notin = TRUE
  /\ LocalServices.out = Anywhere /\ LocalServices.svcs = {"ping", "icmpv6", "dns", "dhcp"}
  /\ LocalServices.source = {} /\ LocalServices.dest = {} /\ ~LocalServices.limited
  /\ LocalServices.verdict = "accept"
<1>1. Reads(DhcpReply, "WAN", Anywhere, {"dhcp-reply"}, "accept")
  BY DEF Reads, DhcpReply, Accept, All
<1>2. Reads(WanIcmpv6, "WAN", Anywhere, {"icmpv6"}, "accept")
  BY DEF Reads, WanIcmpv6, Accept, All
<1>3. \A t : Reads(ListenPort(t), Anywhere, Anywhere, {TunnelPort(t)}, "accept")
  BY DEF Reads, ListenPort, All
<1>4. /\ LocalServices.ct = AnyState /\ LocalServices.in = "WAN" /\ LocalServices.notin = TRUE
      /\ LocalServices.out = Anywhere /\ LocalServices.svcs = {"ping", "icmpv6", "dns", "dhcp"}
      /\ LocalServices.source = {} /\ LocalServices.dest = {} /\ ~LocalServices.limited
      /\ LocalServices.verdict = "accept"
  BY DEF LocalServices, Accept, All
<1> QED
  BY <1>1, <1>2, <1>3, <1>4

\* Where the blocks of the input chain are.
InputLayout(F, c) ==
    /\ F \in Seq(Range(F)) /\ Len(F) = Len(c.tunnels) + 7
    /\ F[1] = {Accept("lo", Anywhere)} /\ F[2] = {DhcpReply}
    /\ F[3] = Conntrack[1] /\ F[4] = Conntrack[2] /\ F[5] = {WanIcmpv6}
    /\ \A i \in 1..Len(c.tunnels) : F[5 + i] = {ListenPort(c.tunnels[i])}
    /\ F[5 + Len(c.tunnels) + 1] = {LocalServices}
    /\ Range(F) = {{Accept("lo", Anywhere)}, {DhcpReply}, Conntrack[1], Conntrack[2],
                    {WanIcmpv6}, {LocalServices}, {Drop("WAN", Anywhere)}}
                      \cup {{ListenPort(c.tunnels[i])} : i \in 1..Len(c.tunnels)}

LEMMA InputBlocks ==
  ASSUME NEW c, Valid(c)
  PROVE  InputLayout(InputChain(c), c)
<1> DEFINE n == Len(c.tunnels)
           P1 == {Accept("lo", Anywhere)}
           P2 == {DhcpReply}
           P == <<P1, P2>>
           X == <<{WanIcmpv6}>>
           T == [i \in DOMAIN c.tunnels |-> {ListenPort(c.tunnels[i])}]
           Q1 == {LocalServices}
           Q2 == {Drop("WAN", Anywhere)}
           Q == <<Q1, Q2>>
           A1 == P \o Conntrack
           A2 == A1 \o X
           A3 == A2 \o T
           A4 == A3 \o Q
<1>0. InputChain(c) = A4
  BY DEF InputChain, DhcpReply, WanIcmpv6, LocalServices, ListenPort
<1>1. n \in Nat /\ DOMAIN c.tunnels = 1..n
  BY PartsListed
<1>2. /\ Conntrack \in Seq(Range(Conntrack)) /\ Len(Conntrack) = 2
      /\ Range(Conntrack) = {Conntrack[1], Conntrack[2]}
  BY Pair DEF Conntrack
<1>3. P \in Seq(Range(P)) /\ Len(P) = 2 /\ P[1] = P1 /\ P[2] = P2 /\ Range(P) = {P1, P2}
  <2> HIDE DEF P1, P2
  <2> QED
    BY Pair
<1>4. Q \in Seq(Range(Q)) /\ Len(Q) = 2 /\ Q[1] = Q1 /\ Q[2] = Q2 /\ Range(Q) = {Q1, Q2}
  <2> HIDE DEF Q1, Q2
  <2> QED
    BY Pair
<1>5. X \in Seq(Range(X)) /\ Len(X) = 1 /\ X[1] = {WanIcmpv6} /\ Range(X) = {{WanIcmpv6}}
  BY Single
<1>6. /\ T \in Seq(Range(T)) /\ Len(T) = n
      /\ \A i \in 1..n : T[i] = {ListenPort(c.tunnels[i])}
      /\ Range(T) = {{ListenPort(c.tunnels[i])} : i \in 1..n}
  <2> HIDE DEF n
  <2>1. DOMAIN T = 1..n /\ \A i \in 1..n : T[i] = {ListenPort(c.tunnels[i])}
    BY <1>1
  <2>2. T = [i \in 1..n |-> T[i]]
    BY <1>1
  <2>3. Range(T) = {{ListenPort(c.tunnels[i])} : i \in 1..n}
    BY <2>1 DEF Range
  <2> HIDE DEF T
  <2>4. T \in Seq(Range(T)) /\ Len(T) = n
    BY <1>1, <2>2, Listed
  <2> QED
    BY <2>1, <2>3, <2>4
<1> HIDE DEF n, P1, P2, P, X, T, Q1, Q2, Q
<1>7. /\ A1 \in Seq(Range(A1)) /\ Len(A1) = 4
      /\ Range(A1) = {P1, P2, Conntrack[1], Conntrack[2]}
      /\ A1[1] = P1 /\ A1[2] = P2 /\ A1[3] = Conntrack[1] /\ A1[4] = Conntrack[2]
  <2>1. Join(A1, P, 2, Conntrack, 2)
    BY <1>2, <1>3, Joined, Zenon
  <2> HIDE DEF A1
  <2> QED
    BY <1>2, <1>3, <2>1 DEF Join
<1> HIDE DEF A1
<1>8. /\ A2 \in Seq(Range(A2)) /\ Len(A2) = 5 /\ Range(A2) = Range(A1) \cup {{WanIcmpv6}}
      /\ A2[1] = A1[1] /\ A2[2] = A1[2] /\ A2[3] = A1[3] /\ A2[4] = A1[4]
      /\ A2[5] = {WanIcmpv6}
  <2>0. A1 \in Seq(Range(A1)) /\ Len(A1) = 4 /\ X \in Seq(Range(X)) /\ Len(X) = 1
    BY <1>5, <1>7
  <2>1. Join(A2, A1, 4, X, 1)
    BY <2>0, Joined, Zenon
  <2> HIDE DEF A2
  <2> QED
    BY <1>5, <2>1 DEF Join
<1> HIDE DEF A2
<1>9. /\ A3 \in Seq(Range(A3)) /\ Len(A3) = 5 + n /\ Range(A3) = Range(A2) \cup Range(T)
      /\ \A i \in 1..5 : A3[i] = A2[i]
      /\ \A i \in 1..n : A3[5 + i] = T[i]
  <2>0. A2 \in Seq(Range(A2)) /\ Len(A2) = 5 /\ T \in Seq(Range(T)) /\ Len(T) = n
    BY <1>6, <1>8
  <2>1. Join(A3, A2, 5, T, n)
    BY <2>0, Joined, Zenon
  <2> HIDE DEF A3
  <2> QED
    BY <2>1 DEF Join
<1> HIDE DEF A3
<1>10. /\ A4 \in Seq(Range(A4)) /\ Len(A4) = 5 + n + 2 /\ Range(A4) = Range(A3) \cup {Q1, Q2}
       /\ \A i \in 1..(5 + n) : A4[i] = A3[i]
       /\ A4[5 + n + 1] = Q1
  <2>0. A3 \in Seq(Range(A3)) /\ Len(A3) = 5 + n /\ Q \in Seq(Range(Q)) /\ Len(Q) = 2
    BY <1>4, <1>9
  <2>1. Join(A4, A3, 5 + n, Q, 2)
    BY <2>0, Joined, Zenon
  <2> HIDE DEF A4
  <2> QED
    BY <1>4, <2>1 DEF Join
<1> HIDE DEF A4
<1>11. \A i \in 1..5 : A4[i] = A2[i]
  BY <1>1, <1>9, <1>10
<1>12. /\ A4[1] = P1 /\ A4[2] = P2 /\ A4[3] = Conntrack[1] /\ A4[4] = Conntrack[2]
       /\ A4[5] = {WanIcmpv6}
  <2>1. 1 \in 1..5 /\ 2 \in 1..5 /\ 3 \in 1..5 /\ 4 \in 1..5 /\ 5 \in 1..5
    OBVIOUS
  <2> QED
    BY <1>7, <1>8, <1>11, <2>1
<1>13. \A i \in 1..n : A4[5 + i] = {ListenPort(c.tunnels[i])}
  <2> SUFFICES ASSUME NEW i \in 1..n PROVE A4[5 + i] = {ListenPort(c.tunnels[i])}
    OBVIOUS
  <2>1. 5 + i \in 1..(5 + n)
    BY <1>1
  <2> QED
    BY <1>6, <1>9, <1>10, <2>1
<1>14. Range(A4) = {P1, P2, Conntrack[1], Conntrack[2], {WanIcmpv6}, Q1, Q2}
                      \cup {{ListenPort(c.tunnels[i])} : i \in 1..n}
  BY <1>6, <1>7, <1>8, <1>9, <1>10
<1>15. Len(A4) = n + 7
  BY <1>1, <1>10
<1> QED
  BY <1>0, <1>10, <1>12, <1>13, <1>14, <1>15 DEF n, P1, P2, Q1, Q2, InputLayout

-----------------------------------------------------------------------------
(* New packets *)

\* When a rule matches a new packet.
Meets(c, i, o, svcs, in, out, svc) ==
    /\ svc \in svcs
    /\ i \in {Anywhere, "lo"} \/ in \in Elements(c, i)
    /\ i = "lo" => in = "lo"
    /\ o = Anywhere \/ out \in Elements(c, o)

LEMMA NewMatches ==
  ASSUME NEW c, NEW r, NEW i, NEW o, NEW svcs, NEW v, Reads(r, i, o, svcs, v),
         NEW in, NEW out, NEW svc
  PROVE  Matches(c, r, New(in, out, svc)) <=> Meets(c, i, o, svcs, in, out, svc)
  BY DEF Reads, Matches, Meets, New, AnyState

\* ... from one zone to another,
LEMMA ZoneMatches ==
  ASSUME NEW c, NEW i, i \notin {Anywhere, "lo"}, NEW o, o # Anywhere, NEW in, NEW out, NEW svc
  PROVE  Matches(c, Accept(i, o), New(in, out, svc)) <=>
            svc \in Services /\ in \in Elements(c, i) /\ out \in Elements(c, o)
<1> DEFINE r == Accept(i, o)
<1>1. Reads(r, i, o, Services, "accept")
  BY AcceptFields
<1> HIDE DEF r
<1>2. Matches(c, r, New(in, out, svc)) <=> Meets(c, i, o, Services, in, out, svc)
  BY <1>1, NewMatches, Zenon
<1> QED
  BY <1>2 DEF r, Meets

\* ... from the router itself,
LEMMA LoMatches ==
  ASSUME NEW c, NEW in, NEW out, NEW svc
  PROVE  Matches(c, Accept("lo", Anywhere), New(in, out, svc)) <=> svc \in Services /\ in = "lo"
<1> DEFINE r == Accept("lo", Anywhere)
<1>1. Reads(r, "lo", Anywhere, Services, "accept")
  BY AcceptFields
<1> HIDE DEF r
<1>2. Matches(c, r, New(in, out, svc)) <=> Meets(c, "lo", Anywhere, Services, in, out, svc)
  BY <1>1, NewMatches, Zenon
<1> QED
  BY <1>2 DEF r, Meets, Anywhere

\* ... from a WAN,
LEMMA WanMatches ==
  ASSUME NEW c, NEW in, NEW out, NEW svc
  PROVE  /\ Matches(c, Drop("WAN", Anywhere), New(in, out, svc)) <=>
                svc \in Services /\ in \in WanIfaces(c)
         /\ Matches(c, DhcpReply, New(in, out, svc)) <=>
                svc = "dhcp-reply" /\ in \in WanIfaces(c)
         /\ Matches(c, WanIcmpv6, New(in, out, svc)) <=>
                svc = "icmpv6" /\ in \in WanIfaces(c)
         /\ Drop("WAN", Anywhere).verdict = "drop" /\ ~Drop("WAN", Anywhere).limited
<1>1. Elements(c, "WAN") = WanIfaces(c)
  BY DEF Elements
<1>2. ASSUME NEW r, NEW svcs, NEW v, Reads(r, "WAN", Anywhere, svcs, v)
      PROVE  Matches(c, r, New(in, out, svc)) <=> svc \in svcs /\ in \in WanIfaces(c)
  <2>1. "WAN" # Anywhere /\ "WAN" # "lo"
    BY DEF Anywhere
  <2>2. Matches(c, r, New(in, out, svc)) <=> Meets(c, "WAN", Anywhere, svcs, in, out, svc)
    BY <1>2, NewMatches, Zenon
  <2> QED
    BY <1>1, <2>1, <2>2 DEF Meets
<1>3. Reads(Drop("WAN", Anywhere), "WAN", Anywhere, Services, "drop")
  BY DropFields
<1>4. /\ Reads(DhcpReply, "WAN", Anywhere, {"dhcp-reply"}, "accept")
      /\ Reads(WanIcmpv6, "WAN", Anywhere, {"icmpv6"}, "accept")
  BY InputFields
<1>5. Drop("WAN", Anywhere).verdict = "drop" /\ ~Drop("WAN", Anywhere).limited
  BY <1>3 DEF Reads
<1>6. Matches(c, Drop("WAN", Anywhere), New(in, out, svc)) <=>
         svc \in Services /\ in \in WanIfaces(c)
  BY <1>2, <1>3, Zenon
<1>7. /\ Matches(c, DhcpReply, New(in, out, svc)) <=>
            svc \in {"dhcp-reply"} /\ in \in WanIfaces(c)
      /\ Matches(c, WanIcmpv6, New(in, out, svc)) <=> svc \in {"icmpv6"} /\ in \in WanIfaces(c)
  BY <1>2, <1>4, Zenon
<1> QED
  BY <1>5, <1>6, <1>7

\* ... from anywhere to the port of a tunnel, or from inside to the router.
LEMMA TunnelMatches ==
  ASSUME NEW c, NEW t, NEW in, NEW out, NEW svc
  PROVE  Matches(c, ListenPort(t), New(in, out, svc)) <=> svc = TunnelPort(t)
<1>1. Reads(ListenPort(t), Anywhere, Anywhere, {TunnelPort(t)}, "accept")
  BY InputFields
<1>2. Matches(c, ListenPort(t), New(in, out, svc)) <=>
         Meets(c, Anywhere, Anywhere, {TunnelPort(t)}, in, out, svc)
  BY <1>1, NewMatches, Zenon
<1> QED
  BY <1>2 DEF Meets, Anywhere

LEMMA LocalMatches ==
  ASSUME NEW c, NEW in, NEW out, NEW svc
  PROVE  Matches(c, LocalServices, New(in, out, svc)) <=>
            svc \in {"ping", "icmpv6", "dns", "dhcp"} /\ in \notin WanIfaces(c)
<1>1. Elements(c, "WAN") = WanIfaces(c)
  BY DEF Elements
<1> QED
  BY <1>1, InputFields DEF Matches, New, AnyState, Anywhere

\* The rules for tracked connections do not match one.
LEMMA ConntrackNew ==
  ASSUME NEW c, NEW r \in Conntrack[1] \cup Conntrack[2], NEW in, NEW out, NEW svc
  PROVE  ~Matches(c, r, New(in, out, svc))
  BY ConntrackFields DEF Matches, New

\* The line of a rule matches what the rule is about.
LEMMA RuleMatches ==
  ASSUME NEW r \in FirewallRule, NEW in, NEW out, NEW svc
  PROVE  Matches(cfg, RuleLine(r), New(in, out, svc)) <=> Covers(r, New(in, out, svc))
<1>1. r.src \notin {Anywhere, "lo"} /\ r.dst # Anywhere
  BY DEF FirewallRule, Zones, Anywhere
<1> QED
  BY <1>1, RuleLineFields DEF Matches, Covers, New, AnyState

\* The three blocks before the rules of the user say nothing of a new packet
\* from inside.
LEMMA FromInside ==
  ASSUME NEW F, ForwardLayout(F, cfg), NEW in, in \notin WanIfaces(cfg), NEW out, NEW svc,
         NEW j \in 1..3, NEW r \in F[j]
  PROVE  ~Matches(cfg, r, New(in, out, svc))
<1>1. F[1] = Conntrack[1] /\ F[2] = Conntrack[2] /\ F[3] = {Drop("WAN", Anywhere)}
  BY DEF ForwardLayout
<1>2. CASE j \in {1, 2}
  BY <1>1, <1>2, ConntrackNew
<1>3. CASE j = 3
  BY <1>1, <1>3, WanMatches
<1> QED
  BY <1>2, <1>3

\* The blocks of rules and networks are blocks of the forward chain.
LEMMA LayoutDomain ==
  ASSUME NEW c, Valid(c), NEW F, ForwardLayout(F, c)
  PROVE  /\ F \in Seq(Range(F)) /\ 3 \in 1..Len(F) /\ 1 \in 1..Len(F)
         /\ \A i \in 1..Len(c.rules) : 3 + i \in 1..Len(F)
         /\ \A i \in 1..Len(c.networks) : 3 + Len(c.rules) + i \in 1..Len(F)
<1> DEFINE nr == Len(c.rules)
           nn == Len(c.networks)
           n == Len(F)
<1>1. nr \in Nat /\ nn \in Nat /\ n \in Nat /\ 3 + nr + nn <= n
  BY PartsListed DEF ForwardLayout
<1>2. F \in Seq(Range(F))
  BY DEF ForwardLayout
<1> HIDE DEF nr, nn, n
<1>3. /\ 3 \in 1..n /\ 1 \in 1..n
      /\ \A i \in 1..nr : 3 + i \in 1..n
      /\ \A i \in 1..nn : 3 + nr + i \in 1..n
  BY <1>1
<1> QED
  BY <1>2, <1>3 DEF n, nr, nn

-----------------------------------------------------------------------------
(* The properties, of any valid configuration *)

LEMMA WanClosedHere ==
  ASSUME Valid(cfg)
  PROVE  WanClosed
<1> SUFFICES ASSUME NEW dev \in WanIfaces(cfg), dev # "lo", NEW svc \in Services
             PROVE  /\ \A out : Forwarded(New(dev, out, svc)) = {"drop"}
                    /\ "accept" \in Admitted(dev, svc) =>
                          svc \in {"dhcp-reply", "icmpv6"}
                                    \cup {TunnelPort(t) : t \in Items(cfg.tunnels)}
  BY DEF WanClosed
<1>1. ASSUME NEW out PROVE Forwarded(New(dev, out, svc)) = {"drop"}
  <2> DEFINE F == ForwardChain(cfg)
             p == New(dev, out, svc)
  <2>1. ForwardLayout(F, cfg)
    BY ForwardBlocks
  <2>2. Forwarded(p) = Verdicts(cfg, F, p)
    BY DEF Forwarded
  <2> HIDE DEF F
  <2>3. /\ F \in Seq(Range(F)) /\ 3 \in 1..Len(F)
        /\ F[1] = Conntrack[1] /\ F[2] = Conntrack[2] /\ F[3] = {Drop("WAN", Anywhere)}
    <3>1. 3 \in 1..Len(F) /\ F \in Seq(Range(F))
      BY <2>1, LayoutDomain
    <3> QED
      BY <2>1, <3>1 DEF ForwardLayout
  <2>4. Deciding(cfg, F[3], p)
    BY <2>3, WanMatches DEF Deciding
  <2>5. \A j \in 1..3 : Agreeing(cfg, F[j], p, "drop")
    <3>1. Agreeing(cfg, F[1], p, "drop") /\ Agreeing(cfg, F[2], p, "drop")
      BY <2>3, ConntrackNew DEF Agreeing
    <3>2. Agreeing(cfg, F[3], p, "drop")
      BY <2>3, WanMatches DEF Agreeing
    <3> QED
      BY <3>1, <3>2
  <2> HIDE DEF p
  <2>6. F \in Seq(Range(F)) /\ 3 \in 1..Len(F)
    BY <2>3
  <2>7. Verdicts(cfg, F, p) = {"drop"}
    <3>1. DecidedAt(cfg, F, p, "drop", 3)
      BY <2>4, <2>5, <2>6 DEF DecidedAt
    <3> QED
      BY <3>1, Decides
  <2> QED
    BY <2>2, <2>7 DEF p
<1>2. ASSUME "accept" \in Admitted(dev, svc)
      PROVE  svc \in {"dhcp-reply", "icmpv6"} \cup {TunnelPort(t) : t \in Items(cfg.tunnels)}
  <2> DEFINE F == InputChain(cfg)
             p == New(dev, Anywhere, svc)
  <2>1. InputLayout(F, cfg) /\ "accept" \in Verdicts(cfg, F, p)
    BY <1>2, InputBlocks DEF Admitted
  <2> HIDE DEF F
  <2>2. PICK b \in Range(F) : \E r \in b : Matches(cfg, r, p) /\ r.verdict = "accept"
    BY <2>1, AcceptedBy
  <2>3. PICK r \in b : Matches(cfg, r, p) /\ r.verdict = "accept"
    BY <2>2
  <2>4. \/ b = {Accept("lo", Anywhere)} \/ b = {DhcpReply} \/ b = Conntrack[1] \/ b = Conntrack[2]
        \/ b = {WanIcmpv6} \/ b = {LocalServices} \/ b = {Drop("WAN", Anywhere)}
        \/ \E i \in 1..Len(cfg.tunnels) : b = {ListenPort(cfg.tunnels[i])}
    BY <2>1 DEF InputLayout
  <2>5. b # {Accept("lo", Anywhere)}
    BY <2>3, LoMatches
  <2>6. CASE b = {DhcpReply} \/ b = {WanIcmpv6}
    BY <2>3, <2>6, WanMatches
  <2>7. b # Conntrack[1] /\ b # Conntrack[2]
    BY <2>3, ConntrackNew
  <2>8. b # {LocalServices}
    BY <2>3, LocalMatches
  <2>9. b # {Drop("WAN", Anywhere)}
    BY <2>3, WanMatches
  <2>10. CASE \E i \in 1..Len(cfg.tunnels) : b = {ListenPort(cfg.tunnels[i])}
    <3>1. PICK i \in 1..Len(cfg.tunnels) : b = {ListenPort(cfg.tunnels[i])}
      BY <2>10
    <3>2. Matches(cfg, ListenPort(cfg.tunnels[i]), p)
      BY <2>3, <3>1
    <3>4. Matches(cfg, ListenPort(cfg.tunnels[i]), p) <=> svc = TunnelPort(cfg.tunnels[i])
      BY TunnelMatches
    <3>3. cfg.tunnels[i] \in Items(cfg.tunnels)
      BY PartsListed DEF Items, ToSet
    <3> QED
      BY <3>2, <3>3, <3>4
  <2> QED
    BY <2>4, <2>5, <2>6, <2>7, <2>8, <2>9, <2>10
<1> QED
  BY <1>1, <1>2

LEMMA RulesDecideHere ==
  ASSUME Valid(cfg)
  PROVE  RulesDecide
<1> SUFFICES ASSUME NEW in, in \notin WanIfaces(cfg), NEW out, NEW svc,
                    NEW k \in Covering(New(in, out, svc)),
                    \A j \in Covering(New(in, out, svc)) : k <= j,
                    cfg.rules[k].action # "log"
             PROVE  Forwarded(New(in, out, svc)) = {cfg.rules[k].action}
  BY DEF RulesDecide
<1> DEFINE F == ForwardChain(cfg)
           p == New(in, out, svc)
           nr == Len(cfg.rules)
           v == cfg.rules[k].action
<1>1. /\ nr \in Nat /\ Len(cfg.networks) \in Nat /\ DOMAIN cfg.rules = 1..nr
      /\ \A i \in 1..nr : cfg.rules[i] \in FirewallRule
  BY PartsListed, ElementOfSeq DEF Valid
<1>2. ForwardLayout(F, cfg) /\ Forwarded(p) = Verdicts(cfg, F, p)
  BY ForwardBlocks DEF Forwarded
<1> HIDE DEF F
<1>3. \A i \in 1..nr :
         F[3 + i] = {RuleLine(r) : r \in {r \in {cfg.rules[i]} : r.enabled}}
  BY <1>1, <1>2 DEF ForwardLayout, UserRules
<1>4. k \in 1..nr /\ cfg.rules[k].enabled /\ Covers(cfg.rules[k], p) /\ cfg.rules[k] \in FirewallRule
  BY <1>1 DEF Covering
<1>5. Deciding(cfg, F[3 + k], p)
  <2>1. RuleLine(cfg.rules[k]) \in F[3 + k]
    BY <1>3, <1>4
  <2>2. Matches(cfg, RuleLine(cfg.rules[k]), p) /\ ~RuleLine(cfg.rules[k]).limited
    BY <1>4, RuleMatches, RuleLineFields
  <2> QED
    BY <2>1, <2>2 DEF Deciding
<1>6. ASSUME NEW j \in 1..(3 + k)
      PROVE  Agreeing(cfg, F[j], p, v)
  <2>1. CASE j \in 1..3
    BY <1>2, <2>1, FromInside DEF Agreeing
  <2>2. CASE j \notin 1..3
    <3>1. PICK i \in 1..nr : j = 3 + i /\ i <= k
      <4>1. j - 3 \in 1..nr /\ j = 3 + (j - 3) /\ j - 3 <= k
        BY <1>1, <1>4, <2>2
      <4> QED
        BY <4>1
    <3> SUFFICES ASSUME NEW r \in F[3 + i], Matches(cfg, r, p)
                 PROVE  r.verdict = v
      BY <3>1 DEF Agreeing
    <3>2. r = RuleLine(cfg.rules[i]) /\ cfg.rules[i].enabled
      BY <1>3
    <3>3. Covers(cfg.rules[i], p)
      BY <1>1, <3>2, RuleMatches
    <3>4. i \in Covering(p)
      BY <1>1, <3>2, <3>3 DEF Covering
    <3>5. i = k
      BY <1>1, <1>4, <3>1, <3>4
    <3> QED
      BY <1>4, <3>2, <3>5, RuleLineFields
  <2> QED
    BY <2>1, <2>2
<1>7. 3 + k \in 1..Len(F) /\ F \in Seq(Range(F))
  BY <1>2, <1>4, LayoutDomain
<1>8. Verdicts(cfg, F, p) = {v}
  <2> DEFINE n == 3 + k
  <2>1. DecidedAt(cfg, F, p, v, n)
    BY <1>5, <1>6, <1>7 DEF DecidedAt
  <2> HIDE DEF p, v, n
  <2> QED
    BY <2>1, Decides
<1> QED
  BY <1>2, <1>8

\* No zone has the name of a rule that refers to no set.
Named(z) == z # Anywhere /\ z # "lo"

\* The zones of a configuration are named ones, and those that are trusted have a
\* tunnel or the network that makes them so.
LEMMA ZonesNamed ==
  ASSUME Valid(cfg)
  PROVE  /\ \A z \in ZoneNames(cfg) : Named(z)
         /\ Named("WAN") /\ Named("LAN")
         /\ \A i \in 1..Len(cfg.networks) :
               /\ cfg.networks[i] \in Network /\ cfg.networks[i] \in Items(cfg.networks)
               /\ Named(cfg.networks[i].zone) /\ cfg.networks[i].zone \in ZoneNames(cfg)
         /\ \A z \in Trusted(cfg) :
               /\ Named(z) /\ z \in ZoneNames(cfg)
               /\ \/ \E t \in Items(cfg.tunnels) : z = TunnelZone(t)
                  \/ z = "LAN" /\ \E n \in Items(cfg.networks) : n.lan /\ n.zone = "LAN"
<1>1. /\ \A n \in Items(cfg.networks) : n \in Network
      /\ \A t \in Items(cfg.tunnels) : t \in Tunnel
      /\ \A r \in Items(cfg.rules) : r \in FirewallRule
  BY PartsListed, ElementOfSeq DEF Valid, Items, ToSet
<1>2. Named("WAN") /\ Named("LAN") /\ Named("VPN") /\ \A z \in Zones : Named(z)
  BY DEF Named, Zones, Anywhere
<1>3. \A n \in Items(cfg.networks) : Named(n.zone) /\ n.zone \in ZoneNames(cfg)
  BY <1>1, <1>2 DEF Network, ZoneNames
<1>4. \A t \in Items(cfg.tunnels) : Named(TunnelZone(t)) /\ TunnelZone(t) \in ZoneNames(cfg)
  BY <1>1, <1>2 DEF Tunnel, TunnelZone, ZoneNames
<1>5. \A r \in Items(cfg.rules) : Named(r.src) /\ Named(r.dst)
  BY <1>1, <1>2 DEF FirewallRule
<1>6. \A z \in ZoneNames(cfg) : Named(z)
  BY <1>3, <1>4, <1>5 DEF ZoneNames
<1>7. \A i \in 1..Len(cfg.networks) :
         cfg.networks[i] \in Network /\ cfg.networks[i] \in Items(cfg.networks)
  BY <1>1, PartsListed DEF Items, ToSet
<1>8. ASSUME NEW z \in Trusted(cfg)
      PROVE  /\ Named(z) /\ z \in ZoneNames(cfg)
             /\ \/ \E t \in Items(cfg.tunnels) : z = TunnelZone(t)
                \/ z = "LAN" /\ \E n \in Items(cfg.networks) : n.lan /\ n.zone = "LAN"
  <2>1. \/ \E t \in Items(cfg.tunnels) : z = TunnelZone(t)
        \/ z = "LAN" /\ \E n \in Items(cfg.networks) : n.lan /\ n.zone = "LAN"
    BY DEF Trusted
  <2> QED
    BY <1>3, <1>4, <2>1
<1> QED
  BY <1>2, <1>3, <1>6, <1>7, <1>8

\* The rules of the forward chain, and of the input chain.
LEMMA ForwardRules ==
  ASSUME Valid(cfg), NEW b \in Range(ForwardChain(cfg)), NEW r \in b
  PROVE  \/ r \in Conntrack[1] \cup Conntrack[2] \/ r = Drop("WAN", Anywhere) \/ r \in Rest[1]
         \/ \E i \in 1..Len(cfg.rules) : cfg.rules[i].enabled /\ r = RuleLine(cfg.rules[i])
         \/ \E i \in 1..Len(cfg.networks) :
               /\ \/ cfg.networks[i].zone \in Trusted(cfg)
                  \/ cfg.networks[i].lan \/ cfg.networks[i].internet
               /\ r = Accept(cfg.networks[i].zone, "WAN")
         \/ \E y \in Trusted(cfg) : \E z \in ZoneNames(cfg) \ {"WAN"} : r = Accept(y, z)
         \/ \E i \in 1..Len(cfg.networks) :
               cfg.networks[i].lan /\ r = Accept(cfg.networks[i].zone, "LAN")
<1>1. b \in {Conntrack[1], Conntrack[2], {Drop("WAN", Anywhere)}}
               \cup Range(UserRules(cfg)) \cup Range(ToInternet(cfg))
               \cup {BetweenZones(cfg)} \cup Range(ToLan(cfg)) \cup {Rest[1]}
  BY ForwardBlocks DEF ForwardLayout
<1>2. CASE b \in Range(UserRules(cfg))
  <2>1. PICK i \in DOMAIN UserRules(cfg) : b = UserRules(cfg)[i]
    BY <1>2 DEF Range
  <2>2. i \in 1..Len(cfg.rules) /\ b = {RuleLine(q) : q \in {q \in {cfg.rules[i]} : q.enabled}}
    BY <2>1, PartsListed DEF UserRules
  <2> QED
    BY <2>2
<1>3. CASE b \in Range(ToInternet(cfg))
  <2>1. PICK i \in DOMAIN ToInternet(cfg) : b = ToInternet(cfg)[i]
    BY <1>3 DEF Range
  <2>2. /\ i \in 1..Len(cfg.networks)
        /\ b = {Accept(n.zone, "WAN") : n \in {n \in {cfg.networks[i]} :
                       n.zone \in Trusted(cfg) \/ n.lan \/ n.internet}}
    BY <2>1, PartsListed DEF ToInternet
  <2> QED
    BY <2>2
<1>4. CASE b = BetweenZones(cfg)
  BY <1>4 DEF BetweenZones
<1>5. CASE b \in Range(ToLan(cfg))
  <2>1. PICK i \in DOMAIN ToLan(cfg) : b = ToLan(cfg)[i]
    BY <1>5 DEF Range
  <2>2. /\ i \in 1..Len(cfg.networks)
        /\ b = {Accept(n.zone, "LAN") : n \in {n \in {cfg.networks[i]} :
                       n.lan /\ n.zone \notin Trusted(cfg)}}
    BY <2>1, PartsListed DEF ToLan
  <2> QED
    BY <2>2
<1>6. CASE b \in {Conntrack[1], Conntrack[2], {Drop("WAN", Anywhere)}, Rest[1]}
  BY <1>6
<1> QED
  BY <1>1, <1>2, <1>3, <1>4, <1>5, <1>6

LEMMA InputRules ==
  ASSUME Valid(cfg), NEW b \in Range(InputChain(cfg)), NEW r \in b
  PROVE  \/ r \in Conntrack[1] \cup Conntrack[2]
         \/ r \in {Accept("lo", Anywhere), DhcpReply, WanIcmpv6, LocalServices, Drop("WAN", Anywhere)}
         \/ \E i \in 1..Len(cfg.tunnels) : r = ListenPort(cfg.tunnels[i])
  BY InputBlocks DEF InputLayout

LEMMA CrossesByGrantHere ==
  ASSUME Valid(cfg)
  PROVE  CrossesByGrant
<1> SUFFICES ASSUME NEW in, NEW out, NEW svc, "accept" \in Forwarded(New(in, out, svc))
             PROVE  \/ \E i \in Covering(New(in, out, svc)) : cfg.rules[i].action = "accept"
                    \/ \E t \in Items(cfg.tunnels) : InZone(in, TunnelZone(t))
                    \/ \E n \in {n \in Items(cfg.networks) : InZone(in, n.zone)} :
                          /\ n.lan
                          /\ out \in WanIfaces(cfg) \/ n.zone = "LAN" \/ InZone(out, "LAN")
                    \/ \E n \in {n \in Items(cfg.networks) : InZone(in, n.zone)} :
                          n.internet /\ out \in WanIfaces(cfg)
  BY DEF CrossesByGrant
<1> DEFINE p == New(in, out, svc)
           Goal == \/ \E i \in Covering(New(in, out, svc)) : cfg.rules[i].action = "accept"
                   \/ \E t \in Items(cfg.tunnels) : InZone(in, TunnelZone(t))
                   \/ \E n \in {n \in Items(cfg.networks) : InZone(in, n.zone)} :
                         /\ n.lan
                         /\ out \in WanIfaces(cfg) \/ n.zone = "LAN" \/ InZone(out, "LAN")
                   \/ \E n \in {n \in Items(cfg.networks) : InZone(in, n.zone)} :
                         n.internet /\ out \in WanIfaces(cfg)
<1>1. PICK b \in Range(ForwardChain(cfg)) : \E r \in b : Matches(cfg, r, p) /\ r.verdict = "accept"
  BY AcceptedBy DEF Forwarded
<1>2. PICK r \in b : Matches(cfg, r, p) /\ r.verdict = "accept"
  BY <1>1
<1>3. \A i, o : r = Accept(i, o) /\ Named(i) /\ Named(o) => InZone(in, i) /\ InZone(out, o)
  <2> SUFFICES ASSUME NEW i, NEW o, r = Accept(i, o), Named(i), Named(o)
               PROVE  InZone(in, i) /\ InZone(out, o)
    OBVIOUS
  <2>1. i \notin {Anywhere, "lo"} /\ o # Anywhere
    BY DEF Named
  <2> QED
    BY <1>2, <2>1, ZoneMatches DEF InZone
<1>4. InZone(out, "WAN") <=> out \in WanIfaces(cfg)
  BY DEF InZone, Elements
<1>5. ASSUME NEW z \in Trusted(cfg), InZone(in, z)
      PROVE  \/ \E t \in Items(cfg.tunnels) : InZone(in, TunnelZone(t))
             \/ \E n \in {n \in Items(cfg.networks) : InZone(in, n.zone)} : n.lan /\ n.zone = "LAN"
  BY <1>5, ZonesNamed
<1>6. CASE r \in Conntrack[1] \cup Conntrack[2]
  BY <1>2, <1>6, ConntrackNew
<1>7. CASE r = Drop("WAN", Anywhere) \/ r \in Rest[1]
  BY <1>2, <1>7, WanMatches, RestFields
<1>8. CASE \E i \in 1..Len(cfg.rules) : cfg.rules[i].enabled /\ r = RuleLine(cfg.rules[i])
  <2>1. PICK i \in 1..Len(cfg.rules) : cfg.rules[i].enabled /\ r = RuleLine(cfg.rules[i])
    BY <1>8
  <2>2. i \in DOMAIN cfg.rules /\ cfg.rules[i] \in FirewallRule
    BY PartsListed, ElementOfSeq DEF Valid
  <2>3. Covers(cfg.rules[i], p)
    BY <1>2, <2>1, <2>2, RuleMatches
  <2>4. cfg.rules[i].action = "accept"
    BY <1>2, <2>1, <2>2, RuleLineFields
  <2> QED
    BY <2>1, <2>2, <2>3, <2>4 DEF Covering
<1>9. CASE \E i \in 1..Len(cfg.networks) :
              /\ \/ cfg.networks[i].zone \in Trusted(cfg)
                 \/ cfg.networks[i].lan \/ cfg.networks[i].internet
              /\ r = Accept(cfg.networks[i].zone, "WAN")
  <2>1. PICK i \in 1..Len(cfg.networks) :
              /\ \/ cfg.networks[i].zone \in Trusted(cfg)
                 \/ cfg.networks[i].lan \/ cfg.networks[i].internet
              /\ r = Accept(cfg.networks[i].zone, "WAN")
    BY <1>9
  <2>2. Named(cfg.networks[i].zone) /\ cfg.networks[i] \in Items(cfg.networks) /\ Named("WAN")
    BY ZonesNamed
  <2>3. InZone(in, cfg.networks[i].zone) /\ out \in WanIfaces(cfg)
    BY <1>3, <1>4, <2>1, <2>2
  <2> QED
    BY <1>5, <2>1, <2>2, <2>3
<1>10. CASE \E y \in Trusted(cfg) : \E z \in ZoneNames(cfg) \ {"WAN"} : r = Accept(y, z)
  <2>1. PICK y \in Trusted(cfg), z \in ZoneNames(cfg) \ {"WAN"} : r = Accept(y, z)
    BY <1>10
  <2>2. InZone(in, y)
    BY <1>3, <2>1, ZonesNamed
  <2> QED
    BY <1>5, <2>2
<1>11. CASE \E i \in 1..Len(cfg.networks) :
               cfg.networks[i].lan /\ r = Accept(cfg.networks[i].zone, "LAN")
  <2>1. PICK i \in 1..Len(cfg.networks) :
               cfg.networks[i].lan /\ r = Accept(cfg.networks[i].zone, "LAN")
    BY <1>11
  <2>2. Named(cfg.networks[i].zone) /\ cfg.networks[i] \in Items(cfg.networks) /\ Named("LAN")
    BY ZonesNamed
  <2>3. InZone(in, cfg.networks[i].zone) /\ InZone(out, "LAN")
    BY <1>3, <2>1, <2>2
  <2> QED
    BY <2>1, <2>2, <2>3
<1> QED
  BY <1>2, <1>6, <1>7, <1>8, <1>9, <1>10, <1>11, ForwardRules

\* What the router answers itself.
LEMMA LocalServed ==
  ASSUME Valid(cfg), NEW dev, dev \notin WanIfaces(cfg), NEW svc \in {"dns", "dhcp"}
  PROVE  Admitted(dev, svc) = {"accept"}
<1> DEFINE F == InputChain(cfg)
           p == New(dev, Anywhere, svc)
           n == Len(cfg.tunnels)
           k == 5 + n + 1
<1>1. InputLayout(F, cfg) /\ Admitted(dev, svc) = Verdicts(cfg, F, p) /\ n \in Nat
  BY InputBlocks, PartsListed DEF Admitted
<1> HIDE DEF F
<1>2. /\ F \in Seq(Range(F)) /\ Len(F) = n + 7
      /\ F[1] = {Accept("lo", Anywhere)} /\ F[2] = {DhcpReply}
      /\ F[3] = Conntrack[1] /\ F[4] = Conntrack[2] /\ F[5] = {WanIcmpv6}
      /\ \A i \in 1..n : F[5 + i] = {ListenPort(cfg.tunnels[i])}
      /\ F[k] = {LocalServices}
  BY <1>1 DEF InputLayout
<1>3. Deciding(cfg, F[k], p)
  <2>1. Matches(cfg, LocalServices, p)
    BY LocalMatches
  <2>2. ~LocalServices.limited
    BY InputFields
  <2> QED
    BY <1>2, <2>1, <2>2 DEF Deciding
<1>4. ASSUME NEW j \in 1..k PROVE Agreeing(cfg, F[j], p, "accept")
  <2>1. CASE j \in {1, 2, 5}
    <3>1. /\ Reads(Accept("lo", Anywhere), "lo", Anywhere, Services, "accept")
          /\ Reads(DhcpReply, "WAN", Anywhere, {"dhcp-reply"}, "accept")
          /\ Reads(WanIcmpv6, "WAN", Anywhere, {"icmpv6"}, "accept")
      BY AcceptFields, InputFields
    <3>2. /\ Accept("lo", Anywhere).verdict = "accept" /\ DhcpReply.verdict = "accept"
          /\ WanIcmpv6.verdict = "accept"
      BY <3>1 DEF Reads
    <3> QED
      BY <1>2, <2>1, <3>2 DEF Agreeing
  <2>2. CASE j \in {3, 4}
    BY <1>2, <2>2, ConntrackNew DEF Agreeing
  <2>3. CASE j = k
    BY <1>2, <2>3, InputFields DEF Agreeing
  <2>4. CASE j \notin {1, 2, 3, 4, 5, k}
    <3> HIDE DEF n
    <3>1. PICK i \in 1..n : j = 5 + i
      <4>1. j - 5 \in 1..n /\ j = 5 + (j - 5)
        BY <1>1, <2>4
      <4> QED
        BY <4>1
    <3>2. F[j] = {ListenPort(cfg.tunnels[i])}
      BY <1>2, <3>1
    <3>3. ListenPort(cfg.tunnels[i]).verdict = "accept"
      BY InputFields DEF Reads
    <3> QED
      BY <3>2, <3>3 DEF Agreeing
  <2> QED
    BY <2>1, <2>2, <2>3, <2>4
<1>5. k \in 1..Len(F)
  <2> HIDE DEF n
  <2> QED
    BY <1>1, <1>2
<1>6. DecidedAt(cfg, F, p, "accept", k)
  BY <1>2, <1>3, <1>4, <1>5 DEF DecidedAt
<1> HIDE DEF k, p
<1>7. Verdicts(cfg, F, p) = {"accept"}
  BY <1>6, Decides
<1> QED
  BY <1>1, <1>7

\* What is allowed out when no rule of the user is about it.
LEMMA Outward ==
  ASSUME Valid(cfg), NEW i \in 1..Len(cfg.networks), cfg.networks[i].internet,
         cfg.networks[i].zone # "WAN", cfg.networks[i].dev \notin WanIfaces(cfg),
         NEW dev \in WanIfaces(cfg), NEW svc \in Services,
         Covering(New(cfg.networks[i].dev, dev, svc)) = {}
  PROVE  Forwarded(New(cfg.networks[i].dev, dev, svc)) = {"accept"}
<1> DEFINE F == ForwardChain(cfg)
           net == cfg.networks[i]
           p == New(net.dev, dev, svc)
           nr == Len(cfg.rules)
           nn == Len(cfg.networks)
           k == 3 + nr + i
<1>1. /\ nr \in Nat /\ nn \in Nat /\ DOMAIN cfg.rules = 1..nr /\ DOMAIN cfg.networks = 1..nn
      /\ \A l \in 1..nr : cfg.rules[l] \in FirewallRule
  BY PartsListed, ElementOfSeq DEF Valid
<1>2. ForwardLayout(F, cfg) /\ Forwarded(p) = Verdicts(cfg, F, p)
  BY ForwardBlocks DEF Forwarded
<1> HIDE DEF F
<1>3. /\ \A l \in 1..nr : F[3 + l] = {RuleLine(r) : r \in {r \in {cfg.rules[l]} : r.enabled}}
      /\ \A l \in 1..nn : F[3 + nr + l] =
            {Accept(n.zone, "WAN") : n \in {n \in {cfg.networks[l]} :
                 n.zone \in Trusted(cfg) \/ n.lan \/ n.internet}}
  BY <1>1, <1>2 DEF ForwardLayout, UserRules, ToInternet
<1>4. Deciding(cfg, F[k], p)
  <2>1. Accept(net.zone, "WAN") \in F[k]
    <3>1. F[k] = {Accept(n.zone, "WAN") : n \in {n \in {net} :
                     n.zone \in Trusted(cfg) \/ n.lan \/ n.internet}}
      BY <1>3
    <3> HIDE DEF net, k
    <3>2. net.internet
      BY DEF net
    <3> QED
      BY <3>1, <3>2
  <2>2. Named(net.zone) /\ Named("WAN") /\ net \in Items(cfg.networks)
    BY ZonesNamed
  <2>3. net.dev \in Elements(cfg, net.zone) /\ dev \in Elements(cfg, "WAN")
    BY <2>2 DEF Elements
  <2>4. Matches(cfg, Accept(net.zone, "WAN"), p)
    BY <2>2, <2>3, ZoneMatches DEF Named
  <2>5. ~Accept(net.zone, "WAN").limited
    BY AcceptFields DEF Reads
  <2> QED
    BY <2>1, <2>4, <2>5 DEF Deciding
<1>5. ASSUME NEW j \in 1..k PROVE Agreeing(cfg, F[j], p, "accept")
  <2>1. CASE j \in 1..3
    BY <1>2, <2>1, FromInside DEF Agreeing
  <2>2. CASE j \in 4..(3 + nr)
    <3>1. PICK l \in 1..nr : j = 3 + l
      <4> HIDE DEF nr
      <4>1. j - 3 \in 1..nr /\ j = 3 + (j - 3)
        BY <1>1, <2>2
      <4> QED
        BY <4>1
    <3> SUFFICES ASSUME NEW r \in F[3 + l] PROVE ~Matches(cfg, r, p)
      BY <3>1 DEF Agreeing
    <3>2. r = RuleLine(cfg.rules[l]) /\ cfg.rules[l].enabled
      BY <1>3
    <3>3. ~Covers(cfg.rules[l], p)
      BY <1>1, <3>2 DEF Covering
    <3> QED
      BY <1>1, <3>2, <3>3, RuleMatches
  <2>3. CASE j \in (3 + nr + 1)..k
    <3>1. PICK l \in 1..nn : j = 3 + nr + l
      <4> HIDE DEF nr, nn
      <4>1. j - (3 + nr) \in 1..nn /\ j = 3 + nr + (j - (3 + nr))
        BY <1>1, <2>3 DEF nn
      <4> QED
        BY <4>1
    <3> SUFFICES ASSUME NEW r \in F[3 + nr + l] PROVE r.verdict = "accept"
      BY <3>1 DEF Agreeing
    <3>2. r = Accept(cfg.networks[l].zone, "WAN")
      <4>1. F[3 + nr + l] = {Accept(n.zone, "WAN") : n \in {n \in {cfg.networks[l]} :
                 n.zone \in Trusted(cfg) \/ n.lan \/ n.internet}}
        BY <1>3
      <4> QED
        BY <4>1
    <3> QED
      BY <3>2, AcceptFields DEF Reads
  <2>4. j \in 1..3 \/ j \in 4..(3 + nr) \/ j \in (3 + nr + 1)..k
    <3> HIDE DEF nr
    <3> QED
      BY <1>1
  <2> QED
    BY <2>1, <2>2, <2>3, <2>4
<1>6. k \in 1..Len(F) /\ F \in Seq(Range(F))
  BY <1>2, LayoutDomain
<1>7. DecidedAt(cfg, F, p, "accept", k)
  BY <1>4, <1>5, <1>6 DEF DecidedAt
<1> HIDE DEF k, p
<1>8. Verdicts(cfg, F, p) = {"accept"}
  BY <1>7, Decides
<1> QED
  BY <1>2, <1>8 DEF p

\* Answers are packets of a connection that is tracked.
LEMMA AnswersPass ==
  ASSUME Valid(cfg), NEW in, NEW out, NEW svc \in Services
  PROVE  Forwarded([New(in, out, svc) EXCEPT !.ct = "established"]) = {"accept"}
<1> DEFINE F == ForwardChain(cfg)
           p == [New(in, out, svc) EXCEPT !.ct = "established"]
<1>1. ForwardLayout(F, cfg) /\ Forwarded(p) = Verdicts(cfg, F, p)
  BY ForwardBlocks DEF Forwarded
<1> HIDE DEF F
<1>2. F[1] = Conntrack[1] /\ 1 \in 1..Len(F) /\ F \in Seq(Range(F))
  BY <1>1, LayoutDomain DEF ForwardLayout
<1>3. p.ct = "established" /\ p.svc = svc
  BY DEF New
<1> HIDE DEF p
<1>4. \A r \in Conntrack[1] : Matches(cfg, r, p)
  BY <1>3, ConntrackFields DEF Matches, Anywhere
<1>5. Deciding(cfg, F[1], p) /\ Agreeing(cfg, F[1], p, "accept")
  BY <1>2, <1>4, ConntrackFields DEF Deciding, Agreeing
<1>6. DecidedAt(cfg, F, p, "accept", 1)
  BY <1>2, <1>5 DEF DecidedAt
<1>7. Verdicts(cfg, F, p) = {"accept"}
  BY <1>6, Decides
<1> QED
  BY <1>1, <1>7 DEF p

LEMMA InternetWorksHere ==
  ASSUME Valid(cfg)
  PROVE  InternetWorks
<1> SUFFICES ASSUME NEW n \in Items(cfg.networks), NEW dev \in WanIfaces(cfg), NEW svc \in Services,
                    n.internet, n.zone # "WAN", n.dev \notin WanIfaces(cfg)
             PROVE  /\ Admitted(n.dev, "dns") = {"accept"} /\ Admitted(n.dev, "dhcp") = {"accept"}
                    /\ Covering(New(n.dev, dev, svc)) = {} =>
                          Forwarded(New(n.dev, dev, svc)) = {"accept"}
                    /\ n.dev \in Masqueraded(cfg, dev)
                    /\ Forwarded([New(dev, n.dev, svc) EXCEPT !.ct = "established"]) = {"accept"}
  BY DEF InternetWorks
<1>1. PICK i \in 1..Len(cfg.networks) : n = cfg.networks[i]
  BY PartsListed DEF Items, ToSet
<1>2. Admitted(n.dev, "dns") = {"accept"} /\ Admitted(n.dev, "dhcp") = {"accept"}
  BY LocalServed
<1>3. Covering(New(n.dev, dev, svc)) = {} => Forwarded(New(n.dev, dev, svc)) = {"accept"}
  BY <1>1, Outward
<1>4. n.dev \in Masqueraded(cfg, dev)
  BY DEF Masqueraded
<1>5. Forwarded([New(dev, n.dev, svc) EXCEPT !.ct = "established"]) = {"accept"}
  BY AnswersPass
<1> QED
  BY <1>2, <1>3, <1>4, <1>5

LEMMA SetsDeclaredHere ==
  ASSUME Valid(cfg)
  PROVE  SetsDeclared
<1> DEFINE Fine(x) == \/ x \in {Anywhere, "lo"} \/ x \in Declared(cfg)
                      \/ x = "LAN" /\ \E n \in Items(cfg.networks) : n.lan
<1>1. ASSUME NEW i, NEW o, Fine(i), Fine(o), NEW r, r = Accept(i, o)
      PROVE  Fine(r.in) /\ Fine(r.out)
  <2>1. Reads(Accept(i, o), i, o, Services, "accept")
    BY AcceptFields
  <2>2. r.in = i /\ r.out = o
    BY <1>1, <2>1 DEF Reads
  <2> HIDE DEF Fine
  <2> QED
    BY <1>1, <2>2
<1>2. Fine("WAN") /\ Fine("lo") /\ Fine(Anywhere)
  BY DEF Declared
<1>3. \A z \in ZoneNames(cfg) : Fine(z)
  BY DEF Declared
<1>4. \A r \in Conntrack[1] \cup Conntrack[2] \cup Rest[1] : Fine(r.in) /\ Fine(r.out)
  <2>1. \A r \in Conntrack[1] \cup Conntrack[2] \cup Rest[1] : r.in = Anywhere /\ r.out = Anywhere
    BY DEF Conntrack, Rest, Drop, Accept, All
  <2> QED
    BY <1>2, <2>1
<1>5. \A r \in {Accept("lo", Anywhere), DhcpReply, WanIcmpv6, LocalServices, Drop("WAN", Anywhere)} :
          Fine(r.in) /\ Fine(r.out)
  <2>1. \A r \in {Accept("lo", Anywhere), DhcpReply, WanIcmpv6, LocalServices, Drop("WAN", Anywhere)} :
            r.in \in {"lo", "WAN"} /\ r.out = Anywhere
    BY DEF DhcpReply, WanIcmpv6, LocalServices, Drop, Accept, All
  <2> QED
    BY <1>2, <2>1
<1>6. ASSUME NEW b \in Range(ForwardChain(cfg)), NEW r \in b
      PROVE  Fine(r.in) /\ Fine(r.out)
  <2>1. CASE \E i \in 1..Len(cfg.rules) : cfg.rules[i].enabled /\ r = RuleLine(cfg.rules[i])
    <3>1. PICK i \in 1..Len(cfg.rules) : r = RuleLine(cfg.rules[i])
      BY <2>1
    <3>2. cfg.rules[i] \in FirewallRule /\ cfg.rules[i] \in Items(cfg.rules)
      BY PartsListed, ElementOfSeq DEF Valid, Items, ToSet
    <3>3. r.in = cfg.rules[i].src /\ r.out = cfg.rules[i].dst
      BY <3>1, <3>2, RuleLineFields
    <3>4. \A z \in {cfg.rules[i].src, cfg.rules[i].dst} : z = "WAN" \/ z \in ZoneNames(cfg)
      BY <3>2 DEF ZoneNames
    <3> QED
      BY <1>2, <1>3, <3>3, <3>4
  <2>2. CASE \E i \in 1..Len(cfg.networks) :
                /\ \/ cfg.networks[i].zone \in Trusted(cfg)
                   \/ cfg.networks[i].lan \/ cfg.networks[i].internet
                /\ r = Accept(cfg.networks[i].zone, "WAN")
    <3>1. PICK i \in 1..Len(cfg.networks) : r = Accept(cfg.networks[i].zone, "WAN")
      BY <2>2
    <3>2. Fine(cfg.networks[i].zone)
      BY <1>3, ZonesNamed
    <3> HIDE DEF Fine
    <3> QED
      BY <1>1, <1>2, <3>1, <3>2
  <2>3. CASE \E y \in Trusted(cfg) : \E z \in ZoneNames(cfg) \ {"WAN"} : r = Accept(y, z)
    <3>1. PICK y \in Trusted(cfg), z \in ZoneNames(cfg) : r = Accept(y, z)
      BY <2>3
    <3>2. Fine(y) /\ Fine(z)
      BY <1>3, ZonesNamed
    <3> HIDE DEF Fine
    <3> QED
      BY <1>1, <3>1, <3>2
  <2>4. CASE \E i \in 1..Len(cfg.networks) :
                cfg.networks[i].lan /\ r = Accept(cfg.networks[i].zone, "LAN")
    <3>1. PICK i \in 1..Len(cfg.networks) :
                cfg.networks[i].lan /\ r = Accept(cfg.networks[i].zone, "LAN")
      BY <2>4
    <3>2. Fine(cfg.networks[i].zone) /\ Fine("LAN")
      BY <1>3, <3>1, ZonesNamed
    <3> HIDE DEF Fine
    <3> QED
      BY <1>1, <3>1, <3>2
  <2>5. CASE r \in Conntrack[1] \cup Conntrack[2] \/ r = Drop("WAN", Anywhere) \/ r \in Rest[1]
    <3> HIDE DEF Fine
    <3> QED
      BY <1>4, <1>5, <2>5
  <2> HIDE DEF Fine
  <2> QED
    BY <2>1, <2>2, <2>3, <2>4, <2>5, ForwardRules
<1>7. ASSUME NEW b \in Range(InputChain(cfg)), NEW r \in b
      PROVE  Fine(r.in) /\ Fine(r.out)
  <2>1. CASE \E i \in 1..Len(cfg.tunnels) : r = ListenPort(cfg.tunnels[i])
    <3>1. r.in = Anywhere /\ r.out = Anywhere
      BY <2>1, InputFields DEF Reads
    <3> QED
      BY <1>2, <3>1
  <2> HIDE DEF Fine
  <2> QED
    BY <1>4, <1>5, <2>1, InputRules
<1>8. \A x \in Referenced(cfg) : Fine(x) /\ x \notin {Anywhere, "lo"}
  <2>1. ASSUME NEW x \in Referenced(cfg)
        PROVE  /\ x \notin {Anywhere, "lo"}
               /\ \E b \in Range(ForwardChain(cfg)) \cup Range(InputChain(cfg)) :
                     \E r \in b : x = r.in \/ x = r.out
    BY DEF Referenced
  <2> HIDE DEF Fine
  <2> QED
    BY <1>6, <1>7, <2>1
<1> QED
  BY <1>8 DEF SetsDeclared

-----------------------------------------------------------------------------
(* The invariant: an edit replaces a list by one of those that are allowed. *)

Typed ==
    cfg \in [wans : WanLists, networks : NetworkLists, tunnels : TunnelLists,
             rules : RuleLists \cup {<<>>}, forwards : ForwardLists \cup {<<>>}]

LEMMA TypedValid == Typed => Valid(cfg)
<1> SUFFICES ASSUME Typed PROVE Valid(cfg)
  OBVIOUS
<1>1. /\ cfg.wans \in WanLists /\ cfg.networks \in NetworkLists
      /\ cfg.tunnels \in TunnelLists /\ cfg.rules \in RuleLists \cup {<<>>}
  BY DEF Typed
<1>2. <<>> \in Seq(FirewallRule)
  BY EmptySeq
<1>3. /\ WanLists \subseteq Seq(WAN) /\ NetworkLists \subseteq Seq(Network)
      /\ TunnelLists \subseteq Seq(Tunnel) /\ RuleLists \subseteq Seq(FirewallRule)
  BY FirewallAssumption
<1> QED
  BY <1>1, <1>2, <1>3 DEF Valid

LEMMA TypedInvariant == Spec => []Typed
<1>1. Init => Typed
  BY DEF Init, Typed
<1>2. Typed /\ [Next]_cfg => Typed'
  BY DEF Typed, Next, SetWans, SetNetworks, SetTunnels, SetRules, SetForwards
<1> QED
  BY <1>1, <1>2, PTL DEF Spec

-----------------------------------------------------------------------------
(* Theorems *)

\* What a WAN initiates is neither forwarded nor admitted, for any lists of
\* rules, networks, tunnels and port forwards.
THEOREM NothingFromTheWan == Spec => []WanClosed
<1>1. Typed => WanClosed
  BY TypedValid, WanClosedHere
<1> QED
  BY <1>1, TypedInvariant, PTL

\* The first rule of the user that is about a packet decides it, wherever it
\* stands among any number of rules.
THEOREM FirstRuleDecides == Spec => []RulesDecide
<1>1. Typed => RulesDecide
  BY TypedValid, RulesDecideHere
<1> QED
  BY <1>1, TypedInvariant, PTL

\* Every packet between zones is allowed by an item of the configuration, for
\* any number of zones, networks and tunnels.
THEOREM GrantedCrossing == Spec => []CrossesByGrant
<1>1. Typed => CrossesByGrant
  BY TypedValid, CrossesByGrantHere
<1> QED
  BY <1>1, TypedInvariant, PTL

\* Every network with Internet access has it at every WAN.
THEOREM InternetForAll == Spec => []InternetWorks
<1>1. Typed => InternetWorks
  BY TypedValid, InternetWorksHere
<1> QED
  BY <1>1, TypedInvariant, PTL

\* No chain refers to a set that is not declared, but for lan_ifaces.
THEOREM ScriptLoads == Spec => []SetsDeclared
<1>1. Typed => SetsDeclared
  BY TypedValid, SetsDeclaredHere
<1> QED
  BY <1>1, TypedInvariant, PTL

=============================================================================
