------------------------------ MODULE MCRegistry ------------------------------
(***************************************************************************)
(* Instances of Registry for TLC: what is on the network, and who reports  *)
(* it.  Each configuration picks one of the fleets below as Announcements. *)
(***************************************************************************)
EXTENDS Registry

CONSTANTS a1, a2, a3,        \* addresses, in Compare order
          m1, m2,            \* MACs
          s1, s2,            \* their endings
          gen1, gen2, node, cloud1, cloud2  \* labels

MCCompare == SelectSeq(<<a1, a2, a3>>, LAMBDA a : a \in Addrs)

\* Plain private IPv4 addresses.
MCAttr == [a \in Addrs |->
              [v4 |-> TRUE, special |-> FALSE, denied |-> FALSE, allowed |-> FALSE]]

\* The first one IPv4, the second IPv6, the third in a denied prefix.
MixedAttr == [a \in Addrs |->
                [v4 |-> a # a2, special |-> FALSE, denied |-> a = a3, allowed |-> FALSE]]

\* Each MAC has its own ending.
DistinctSuffix == [m \in Macs |-> IF m = m1 THEN s1 ELSE s2]

\* A Gen1 Shelly's name ends in three MAC bytes, a Gen2 device id in all six; the name
\* of a node, and the cloud's bare id, carry none.
MCLabelHex ==
    [l \in Labels |-> IF l = gen1 THEN s1 ELSE IF l = gen2 THEN m2 ELSE NoHex]

\* An unremarkable observation, to be overridden.
Plain ==
    [source |-> "avahi", id |-> NoHandle, kind |-> "shelly", label |-> gen1,
     unnamed |-> FALSE, txtMac |-> NoHex, txtId |-> NoHex, key |-> "http",
     addr |-> a1, port |-> 80, trusted |-> FALSE]

Gen1(a) == [Plain EXCEPT !.addr = a]

Cloud(l, m, a) ==
    [Plain EXCEPT !.source = "shelly_cloud", !.label = l, !.unnamed = TRUE,
                  !.txtMac = m, !.key = "shelly_cloud", !.addr = a]

\* A Gen2 Shelly with a name of its own: only its _shelly._tcp record tells the id.
Gen2HTTP(a)   == [Plain EXCEPT !.label = node, !.addr = a]
Gen2Shelly(a) == [Plain EXCEPT !.label = node, !.addr = a, !.txtId = gen2,
                               !.key = "shelly"]

\* That Shelly and a Gen1 one, both also reported by the cloud under their MACs.
MixedFleet == {Gen1(a1), Cloud(cloud1, m1, a2),
               Gen2HTTP(a3), Gen2Shelly(a3), Cloud(cloud2, m2, a3)}

\* The Gen2 Shelly alone, on three slots; the cloud's address of it changes.
Gen2Fleet == {Gen2HTTP(a1), Gen2Shelly(a1), Cloud(cloud2, m2, a2), Cloud(cloud2, m2, a3)}

\* What the operator lists is dialled wherever it is.
Static(l, a) ==
    [Plain EXCEPT !.source = "static", !.id = <<"static", l>>, !.label = l,
                  !.kind = "esphome", !.key = "static", !.addr = a, !.port = 6053,
                  !.trusted = TRUE]

\* A Shelly seen by mDNS alone, and a node that the operator lists.
ListedAndFound == {Gen1(a1), Static(node, a3)}

\* That Shelly on two networks, renamed while its old name, the id, is still announced.
RenamedFleet == {[Gen2HTTP(a1) EXCEPT !.label = gen2], Gen2HTTP(a1), Gen2Shelly(a2)}

\* The Gen1 Shelly and its entry in the cloud are one board, the rest is the other.
MCBoard == [l \in Labels |-> IF l \in {gen1, cloud1} THEN m1 ELSE m2]

ASSUME FleetHypotheses ==
    /\ OnlyCloudUnnamed
    /\ OneBoardEach(MCBoard)
    /\ Gen1ByNameOrMAC(MCBoard)
    /\ IdentitiesApart
=============================================================================
