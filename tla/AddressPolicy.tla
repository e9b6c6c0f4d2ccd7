---------------------------- MODULE AddressPolicy ----------------------------
(***************************************************************************)
(* Which of a device's observed addresses the collectors dial, and in what *)
(* order: internal/registry/address.go.  Pure operators, no state.         *)
(*                                                                         *)
(* An address is abstract.  What the policy reads of it is a record of     *)
(* attributes, and `Compare' lists every address in netip.Addr.Compare     *)
(* order, which the code uses to break ties.  Addresses are already        *)
(* unmapped: an IPv4-mapped IPv6 address and its IPv4 form are one value.  *)
(***************************************************************************)
EXTENDS Integers, Sequences, FiniteSets

CONSTANTS
    Addrs,      \* every address a source may report or a probe may dial
    NoAddr,     \* the zero netip.Addr: no address
    Attr,       \* [Addrs -> AddressAttributes], what score() inspects
    AllowIPv6,  \* discovery.ipv6
    Allowlist,  \* whether discovery.allow_cidrs is non-empty
    Compare     \* the addresses in netip.Addr.Compare order

AddressAttributes ==
    [v4      : BOOLEAN,   \* Is4()
     special : BOOLEAN,   \* loopback, multicast, unspecified or link-local
     denied  : BOOLEAN,   \* inside some deny_cidrs prefix
     allowed : BOOLEAN]   \* inside some allow_cidrs prefix

ASSUME AddressAssumption ==
    /\ NoAddr \notin Addrs
    /\ Attr \in [Addrs -> AddressAttributes]
    /\ AllowIPv6 \in BOOLEAN
    /\ Allowlist \in BOOLEAN
    /\ Compare \in Seq(Addrs)

-----------------------------------------------------------------------------
\* The members of S in Compare order.
Listed(S) ==
    LET upTo[i \in 0 .. Len(Compare)] ==
            IF i = 0 THEN <<>>
            ELSE IF Compare[i] \in S THEN Append(upTo[i - 1], Compare[i]) ELSE upTo[i - 1]
    IN  IF S = {} THEN <<>> ELSE upTo[Len(Compare)]

\* AddressPolicy.score: negative means the address cannot be dialled.
Score(a) ==
    LET attr == Attr[a] IN
    IF attr.special \/ attr.denied \/ (~attr.v4 /\ ~AllowIPv6) THEN -1
    ELSE IF Allowlist /\ ~attr.allowed THEN IF attr.v4 THEN 10 ELSE 5
    ELSE IF ~attr.v4 THEN 40
    ELSE IF Allowlist THEN 100 ELSE 80

Usable(a) == Score(a) >= 0

\* The scores a usable address can have, best first.
Tiers == <<100, 80, 40, 10, 5>>

\* Position of the first occurrence of a in s, 0 when there is none.
IndexOf(s, a) ==
    IF \E i \in DOMAIN s : s[i] = a
    THEN CHOOSE i \in DOMAIN s : s[i] = a /\ \A j \in 1 .. i - 1 : s[j] # a
    ELSE 0

\* slices.Insert(slices.Delete(s, i, i+1), 0, a): only the first occurrence moves.
MoveToFront(s, a) ==
    LET i == IndexOf(s, a) IN
    IF i > 1
    THEN <<a>> \o SubSeq(s, 1, i - 1) \o SubSeq(s, i + 1, Len(s))
    ELSE s

\* Order: usable candidates by descending score then by Compare, the pinned one first.
Order(candidates, pinned) ==
    LET Tier(n) == Listed({a \in candidates : Score(a) = n})
    IN  MoveToFront(Tier(Tiers[1]) \o Tier(Tiers[2]) \o Tier(Tiers[3])
                    \o Tier(Tiers[4]) \o Tier(Tiers[5]), pinned)

\* OrderCandidates, the dialling order.  `trusted' is the de-duplicated sequence of
\* operator-supplied addresses in the order the caller listed them; `discovered' is the
\* set of the other candidates.
OrderCandidates(trusted, discovered, pinned) ==
    MoveToFront(trusted \o Order({a \in discovered : Usable(a)}, pinned), pinned)

\* OrderCandidates, the addresses refused.
RejectedCandidates(discovered) == {a \in discovered : ~Usable(a)}
=============================================================================
