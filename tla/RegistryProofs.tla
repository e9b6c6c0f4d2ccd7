---------------------------- MODULE RegistryProofs ----------------------------
(***************************************************************************)
(* What the registry actor promises, for every set of devices, sources,    *)
(* observations and time limits.                                           *)
(***************************************************************************)
EXTENDS Registry, FiniteSetTheorems, SequenceTheorems, WellFoundedInduction, TLAPS

-----------------------------------------------------------------------------
(* Devices keep their type *)

\* What the policy returns for a device's endpoints is an address list.
LEMMA DiallingType ==
    ASSUME NEW eps, EndpointMap(eps), NEW pinned \in Addrs \cup {NoAddr}
    PROVE  /\ AddrsWhere(eps, TRUE) \subseteq Addrs
           /\ AddrsWhere(eps, FALSE) \subseteq Addrs
           /\ Dialling(eps, pinned) \in AddrLists
           /\ Rejected(eps) \subseteq Addrs
<1>1. \A trust : AddrsWhere(eps, trust) \subseteq Addrs
  BY DEF AddrsWhere, EndpointMap, Endpoint
<1>2. Dialling(eps, pinned) \in AddrLists
  <2> DEFINE T == AddrsWhere(eps, TRUE)
             D == AddrsWhere(eps, FALSE)
  <2>1. T \in SUBSET Addrs /\ D \in SUBSET Addrs
    BY <1>1
  <2> HIDE DEF T, D
  <2> DEFINE c == <<T, D, pinned>>
  <2>2. c \in (SUBSET Addrs) \X (SUBSET Addrs) \X (Addrs \cup {NoAddr})
    BY <2>1
  <2>3. c[1] = T /\ c[2] = D /\ c[3] = pinned
    OBVIOUS
  <2> HIDE DEF c
  <2>4. OrderCandidates(Listed(T), D, pinned) \in AddrLists
    BY <2>2, <2>3, Zenon DEF AddrLists
  <2> QED BY <2>4 DEF Dialling, T, D
<1> QED BY <1>1, <1>2 DEF Rejected, RejectedCandidates

\* What only an announcement changes of a device: its kind, who reports it, and whether
\* its name is provisional.
Alike(dev, r) ==
    r.kind = dev.kind /\ r.sources = dev.sources /\ r.provisional = dev.provisional

\* recomputeAddrs derives the list, the refusals and the epoch; the rest it only fills in.
LEMMA RecomputeType ==
    ASSUME NEW dev, DeviceState(dev)
    PROVE  LET r == RecomputeAddrs(dev) IN
           /\ DeviceState(r)
           /\ r.endpoints = dev.endpoints /\ r.pinned = dev.pinned
           /\ r.static = dev.static /\ r.unverified = dev.unverified
           /\ r.lastSeen = dev.lastSeen
           /\ r.lastDiscovery = dev.lastDiscovery /\ r.lastSuccess = dev.lastSuccess
           /\ r.addrs = Dialling(dev.endpoints, dev.pinned)
           /\ r.rejected = Rejected(dev.endpoints)
           /\ r.epoch >= dev.epoch
           /\ r.addrs # dev.addrs => r.epoch > dev.epoch
           /\ Alike(dev, r)
<1> DEFINE next  == Dialling(dev.endpoints, dev.pinned)
           ports == {dev.endpoints[k].port : k \in DOMAIN dev.endpoints} \ {0}
           p     == IF dev.port = 0 /\ ports # {} THEN CHOOSE x \in ports : TRUE ELSE dev.port
           n     == IF next # dev.addrs THEN dev.epoch + 1 ELSE dev.epoch
<1>1. EndpointMap(dev.endpoints) /\ dev.pinned \in Addrs \cup {NoAddr}
  BY DEF DeviceState
<1>2. next \in AddrLists /\ Rejected(dev.endpoints) \subseteq Addrs
  BY <1>1, DiallingType
<1>3. ports \subseteq Ports
  BY <1>1 DEF EndpointMap, Endpoint
<1>4. p \in Ports \cup {0}
  <2>1. dev.port \in Ports \cup {0}
    BY DEF DeviceState
  <2> HIDE DEF ports
  <2> QED BY <2>1, <1>3
<1>5. n \in Nat /\ n >= dev.epoch /\ (next # dev.addrs => n > dev.epoch)
  <2>1. dev.epoch \in Nat
    BY DEF DeviceState
  <2> QED BY <2>1
<1>6. RecomputeAddrs(dev) = [dev EXCEPT !.port = p, !.rejected = Rejected(dev.endpoints),
                                       !.addrs = next, !.epoch = n]
  BY DEF RecomputeAddrs
<1>7. next = Dialling(dev.endpoints, dev.pinned)
  OBVIOUS
<1> HIDE DEF next, ports, p, n
<1> DEFINE r == RecomputeAddrs(dev)
<1>8. /\ r.endpoints = dev.endpoints /\ r.pinned = dev.pinned
      /\ r.static = dev.static /\ r.unverified = dev.unverified
      /\ r.lastSeen = dev.lastSeen
      /\ r.lastDiscovery = dev.lastDiscovery /\ r.lastSuccess = dev.lastSuccess
      /\ r.addrs = next /\ r.rejected = Rejected(dev.endpoints) /\ r.epoch = n
      /\ Alike(dev, r)
  BY <1>6 DEF DeviceState, Alike
<1>9. DeviceState(r)
  <2>1. EndpointMap(r.endpoints)
    BY <1>1, <1>8
  <2>2. r.epoch \in Nat /\ r.addrs \in AddrLists /\ r.rejected \subseteq Addrs
    BY <1>2, <1>5, <1>8
  <2> QED BY <1>4, <1>6, <1>8, <2>1, <2>2 DEF DeviceState
<1> QED BY <1>5, <1>7, <1>8, <1>9

\* touch changes lastSeen and nothing else.
LEMMA TouchType ==
    ASSUME NEW dev, DeviceState(dev)
    PROVE  LET r == Touch(dev) IN
           /\ DeviceState(r)
           /\ r = [dev EXCEPT !.lastSeen = r.lastSeen]
           /\ r.lastSeen = LaterOf(r.lastDiscovery, r.lastSuccess)
<1>1. LaterOf(dev.lastDiscovery, dev.lastSuccess) \in Time
  BY DEF DeviceState, LaterOf
<1> DEFINE t == LaterOf(dev.lastDiscovery, dev.lastSuccess)
<1>2. Touch(dev) = [dev EXCEPT !.lastSeen = t]
  BY DEF Touch
<1> HIDE DEF t
<1>3. Touch(dev).lastSeen = t
  BY <1>2 DEF DeviceState
<1>4. DeviceState(Touch(dev))
  BY <1>1, <1>2 DEF DeviceState, t
<1>5. /\ Touch(dev).lastDiscovery = dev.lastDiscovery
      /\ Touch(dev).lastSuccess = dev.lastSuccess
  BY <1>2 DEF DeviceState
<1> QED BY <1>2, <1>3, <1>4, <1>5 DEF t

\* The flag of a device does not outlive the hints on its endpoints.
Flagged(dev) ==
    dev.unverified => \A k \in DOMAIN dev.endpoints : dev.endpoints[k].unverified

\* What every device the actor holds satisfies, and what a step may do to one.
Derived(dev) ==
    /\ DeviceState(dev)
    /\ dev.addrs = Dialling(dev.endpoints, dev.pinned)
    /\ dev.rejected = Rejected(dev.endpoints)
    /\ dev.lastSeen = LaterOf(dev.lastDiscovery, dev.lastSuccess)
    /\ Flagged(dev)

Follows(dev, r) ==
    /\ r.epoch >= dev.epoch
    /\ r.addrs # dev.addrs => r.epoch > dev.epoch

\* recomputeAddrs and touch bring a device up to date and never lower its epoch.
LEMMA RefreshDerived ==
    ASSUME NEW dev, DeviceState(dev), Flagged(dev)
    PROVE  LET r == Touch(RecomputeAddrs(dev)) IN
           /\ Derived(r) /\ Follows(dev, r) /\ Alike(dev, r)
           /\ r.endpoints = dev.endpoints /\ r.pinned = dev.pinned
           /\ r.static = dev.static
           /\ r.lastDiscovery = dev.lastDiscovery /\ r.lastSuccess = dev.lastSuccess
<1> DEFINE c == RecomputeAddrs(dev)
           r == Touch(c)
<1>1. /\ DeviceState(c) /\ Follows(dev, c) /\ Alike(dev, c)
      /\ c.endpoints = dev.endpoints /\ c.pinned = dev.pinned /\ c.static = dev.static
      /\ c.unverified = dev.unverified
      /\ c.lastDiscovery = dev.lastDiscovery /\ c.lastSuccess = dev.lastSuccess
      /\ c.addrs = Dialling(dev.endpoints, dev.pinned)
      /\ c.rejected = Rejected(dev.endpoints)
  BY RecomputeType DEF Follows
<1> HIDE DEF c
<1>2. /\ DeviceState(r)
      /\ r = [c EXCEPT !.lastSeen = r.lastSeen]
      /\ r.lastSeen = LaterOf(r.lastDiscovery, r.lastSuccess)
  BY <1>1, TouchType
<1>3. /\ r.endpoints = c.endpoints /\ r.pinned = c.pinned /\ r.static = c.static
      /\ r.unverified = c.unverified
      /\ r.lastDiscovery = c.lastDiscovery /\ r.lastSuccess = c.lastSuccess
      /\ r.addrs = c.addrs /\ r.rejected = c.rejected /\ r.epoch = c.epoch
      /\ Alike(c, r)
  <2> HIDE DEF r
  <2> QED BY <1>1, <1>2 DEF DeviceState, Alike
<1> HIDE DEF r
<1>4. Derived(r) /\ Follows(dev, r)
  BY <1>1, <1>2, <1>3 DEF Derived, Follows, Flagged
<1> QED BY <1>1, <1>3, <1>4 DEF r, c, Alike

\* Folding an observation in leaves the device up to date (applyAdd).
LEMMA ObserveDerived ==
    ASSUME NEW dev, DeviceState(dev), NEW ev \in Announcements, NEW at \in Time
    PROVE  LET r == Observe(dev, ev, at) IN
           /\ Derived(r) /\ Follows(dev, r)
           /\ r.kind = IF dev.kind = "unknown" THEN ev.kind ELSE dev.kind
           /\ r.sources = dev.sources \cup {ev.source}
           /\ r.provisional = (dev.provisional /\ ev.unnamed)
           /\ r.pinned = dev.pinned /\ r.lastSuccess = dev.lastSuccess
           /\ \A k \in DOMAIN r.endpoints :
                 \/ k \in DOMAIN dev.endpoints /\ r.endpoints[k] = dev.endpoints[k]
                 \/ r.endpoints[k].observedAt = at
<1> DEFINE ep == [addr |-> ev.addr, port |-> ev.port, trusted |-> ev.trusted,
                  observedAt |-> at, source |-> ev.source,
                  unverified |-> FALSE, hintAt |-> 0]
           eps  == [k \in DOMAIN dev.endpoints \cup {ev.key} |->
                       IF k = ev.key THEN ep ELSE dev.endpoints[k]]
           name == IF dev.provisional /\ ~ev.unnamed THEN ev.label ELSE dev.name
           kind == IF dev.kind = "unknown" THEN ev.kind ELSE dev.kind
           port == IF ev.port # 0 THEN ev.port ELSE dev.port
           prov == dev.provisional /\ ev.unnamed
           stat == dev.static \/ ev.source = "static"
           srcs == dev.sources \cup {ev.source}
           d    == [dev EXCEPT !.name = name, !.provisional = prov, !.static = stat,
                               !.kind = kind, !.sources = srcs, !.endpoints = eps,
                               !.lastDiscovery = at, !.unverified = FALSE, !.port = port]
<1>1. ev \in Announcement
  BY RegistryAssumption
<1>2. ep \in Endpoint
  <2>1. 0 \in Time
    BY RegistryAssumption DEF Time
  <2> QED BY <1>1, <2>1 DEF Announcement, Endpoint
<1>3. EndpointMap(dev.endpoints)
  BY DEF DeviceState
<1>4. EndpointMap(eps)
  <2> HIDE DEF ep
  <2> QED BY <1>1, <1>2, <1>3 DEF EndpointMap, Announcement
<1>5. /\ name \in Labels /\ kind \in Kinds /\ port \in Ports \cup {0}
      /\ srcs \subseteq Sources /\ prov \in BOOLEAN /\ stat \in BOOLEAN
  BY <1>1 DEF Announcement, DeviceState
<1> HIDE DEF eps, name, kind, port, prov, stat, srcs
<1>6. Observe(dev, ev, at) = Touch(RecomputeAddrs(d))
  BY DEF Observe, eps, name, kind, port, prov, stat, srcs
<1>7. /\ d.endpoints = eps /\ d.addrs = dev.addrs /\ d.epoch = dev.epoch
      /\ d.unverified = FALSE
      /\ d.kind = kind /\ d.sources = srcs /\ d.provisional = prov
      /\ d.pinned = dev.pinned /\ d.lastSuccess = dev.lastSuccess
  BY DEF DeviceState
<1>8. DeviceState(d)
  <2> DEFINE Fields(X) == [kind : Kinds, name : Labels, provisional : BOOLEAN, static : BOOLEAN,
                           addrs : AddrLists, rejected : SUBSET Addrs, port : Ports \cup {0},
                           epoch : Nat, lastSeen : Time, unverified : BOOLEAN,
                           lastDiscovery : Time, lastSuccess : Time, pinned : Addrs \cup {NoAddr},
                           sources : SUBSET Sources, endpoints : X]
  <2>1. dev \in Fields({dev.endpoints})
    BY DEF DeviceState
  <2>2. d \in Fields({eps})
    BY <1>5, <2>1
  <2> HIDE DEF d
  <2> QED BY <1>4, <1>7, <2>2 DEF DeviceState
<1> HIDE DEF d
<1>9. Derived(Observe(dev, ev, at)) /\ Follows(dev, Observe(dev, ev, at))
  BY <1>6, <1>7, <1>8, RefreshDerived DEF Follows, Flagged
<1> DEFINE r == Observe(dev, ev, at)
<1>10. /\ Alike(d, r) /\ r.endpoints = d.endpoints
       /\ r.pinned = d.pinned /\ r.lastSuccess = d.lastSuccess
  BY <1>6, <1>7, <1>8, RefreshDerived DEF Flagged
<1>11. Derived(r) /\ Follows(dev, r)
  BY <1>9
<1> HIDE DEF r
<1>12. r.kind = kind /\ r.sources = srcs /\ r.provisional = prov
  BY <1>7, <1>10 DEF Alike
<1>13. \A k \in DOMAIN eps : \/ k \in DOMAIN dev.endpoints /\ eps[k] = dev.endpoints[k]
                            \/ eps[k].observedAt = at
  BY DEF eps
<1>14. /\ r.pinned = dev.pinned /\ r.lastSuccess = dev.lastSuccess
       /\ \A k \in DOMAIN r.endpoints :
             \/ k \in DOMAIN dev.endpoints /\ r.endpoints[k] = dev.endpoints[k]
             \/ r.endpoints[k].observedAt = at
  BY <1>7, <1>10, <1>13
<1> QED BY <1>11, <1>12, <1>14 DEF r, kind, srcs, prov

\* What a hint and ageing leave of a device: its pin, its last success, and of each
\* endpoint that stays the address and the time it was observed.
Keeps(dev, r) ==
    /\ r.pinned = dev.pinned /\ r.lastSuccess = dev.lastSuccess
    /\ DOMAIN r.endpoints \subseteq DOMAIN dev.endpoints
    /\ \A k \in DOMAIN r.endpoints :
          /\ r.endpoints[k].addr = dev.endpoints[k].addr
          /\ r.endpoints[k].observedAt = dev.endpoints[k].observedAt

\* So does hinting some of its endpoints (applyRemoveHint, markSourceUnverified).
LEMMA UnverifyDerived ==
    ASSUME NEW dev, Derived(dev), NEW source, NEW which, NEW at \in Time
    PROVE  LET r == Unverify(dev, source, which, at) IN
           Derived(r) /\ Follows(dev, r) /\ Alike(dev, r) /\ Keeps(dev, r)
<1> DEFINE hit == {k \in DOMAIN dev.endpoints \cap which :
                      dev.endpoints[k].source = source /\ ~dev.endpoints[k].unverified}
           eps == [k \in DOMAIN dev.endpoints |->
                      IF k \in hit
                      THEN [dev.endpoints[k] EXCEPT !.unverified = TRUE, !.hintAt = at]
                      ELSE dev.endpoints[k]]
           h   == [dev EXCEPT !.endpoints = eps]
           r   == [h EXCEPT !.unverified = AllUnverified(h)]
<1>1. EndpointMap(dev.endpoints) /\ DeviceState(dev)
  BY DEF Derived, DeviceState
<1>2. EndpointMap(eps)
  <2>1. ASSUME NEW k \in DOMAIN dev.endpoints
        PROVE  [dev.endpoints[k] EXCEPT !.unverified = TRUE, !.hintAt = at] \in Endpoint
    BY <1>1 DEF EndpointMap, Endpoint
  <2> HIDE DEF hit
  <2> QED BY <1>1, <2>1 DEF EndpointMap
<1>3. \A t : AddrsWhere(eps, t) = AddrsWhere(dev.endpoints, t)
  <2>1. DOMAIN eps = DOMAIN dev.endpoints
    OBVIOUS
  <2>2. \A k \in DOMAIN eps : /\ eps[k].addr = dev.endpoints[k].addr
                             /\ eps[k].trusted = dev.endpoints[k].trusted
    <3> HIDE DEF hit
    <3> QED BY <1>1 DEF EndpointMap, Endpoint
  <2> HIDE DEF eps
  <2> QED BY <2>1, <2>2 DEF AddrsWhere
<1>6. DOMAIN eps = DOMAIN dev.endpoints
  OBVIOUS
<1>7. \A k \in DOMAIN eps : /\ eps[k].addr = dev.endpoints[k].addr
                           /\ eps[k].observedAt = dev.endpoints[k].observedAt
  <2> HIDE DEF hit
  <2> QED BY <1>1 DEF EndpointMap, Endpoint
<1> HIDE DEF eps, hit
<1>4. CASE hit = {}
  <2>1. Unverify(dev, source, which, at) = dev
    BY <1>4 DEF Unverify, hit
  <2>2. dev.epoch \in Nat
    BY <1>1 DEF DeviceState
  <2> QED BY <2>1, <2>2 DEF Follows, Alike, Keeps
<1>5. CASE hit # {}
  <2>1. /\ h.endpoints = eps /\ Alike(dev, h)
        /\ DeviceState(h) /\ h.addrs = dev.addrs /\ h.rejected = dev.rejected
        /\ h.epoch = dev.epoch /\ h.pinned = dev.pinned /\ h.lastSeen = dev.lastSeen
        /\ h.lastDiscovery = dev.lastDiscovery /\ h.lastSuccess = dev.lastSuccess
    BY <1>1, <1>2 DEF DeviceState, Alike
  <2>2. Unverify(dev, source, which, at) = r
    BY <1>5 DEF Unverify, eps, hit
  <2> HIDE DEF h
  <2>3. /\ AllUnverified(h) \in BOOLEAN
        /\ AllUnverified(h) => \A k \in DOMAIN eps : eps[k].unverified
    BY <2>1 DEF AllUnverified
  <2>4. /\ DeviceState(r) /\ r.endpoints = eps /\ Alike(dev, r)
        /\ r.addrs = dev.addrs /\ r.rejected = dev.rejected
        /\ r.epoch = dev.epoch /\ r.pinned = dev.pinned /\ r.lastSeen = dev.lastSeen
        /\ r.lastDiscovery = dev.lastDiscovery /\ r.lastSuccess = dev.lastSuccess
    BY <2>1, <2>3 DEF DeviceState, Alike
  <2>7. Flagged(r)
    <3>1. r.unverified = AllUnverified(h)
      BY <2>1, <2>3 DEF DeviceState
    <3> HIDE DEF r
    <3> QED BY <2>3, <2>4, <3>1 DEF Flagged
  <2> HIDE DEF r
  <2>5. /\ Dialling(r.endpoints, r.pinned) = Dialling(dev.endpoints, dev.pinned)
        /\ Rejected(r.endpoints) = Rejected(dev.endpoints)
    BY <1>3, <2>4 DEF Dialling, Rejected
  <2>6. dev.epoch \in Nat
    BY <1>1 DEF DeviceState
  <2>8. Keeps(dev, r)
    BY <1>6, <1>7, <2>4 DEF Keeps
  <2> QED BY <2>2, <2>4, <2>5, <2>6, <2>7, <2>8 DEF Derived, Follows
<1> QED BY <1>4, <1>5

\* So does a successful scrape, pin and renewal included (applyScrapeResult).
LEMMA ScrapedDerived ==
    ASSUME NEW dev, Derived(dev), NEW addr \in Addrs, NEW at \in Time
    PROVE  LET r == Scraped(dev, addr, at) IN
           /\ Derived(r) /\ Follows(dev, r) /\ Alike(dev, r)
           /\ r.pinned = addr /\ r.lastSuccess = at
           /\ r.endpoints = Renewed(dev.endpoints, addr, at)
<1> DEFINE eps == Renewed(dev.endpoints, addr, at)
           p   == IF dev.pinned = addr THEN dev
                  ELSE RecomputeAddrs([dev EXCEPT !.pinned = addr])
           s   == [p EXCEPT !.lastSuccess = at, !.endpoints = eps]
           u   == [s EXCEPT !.unverified = AllUnverified(s)]
<1>1. EndpointMap(dev.endpoints) /\ DeviceState(dev)
  BY DEF Derived, DeviceState
<1>2. EndpointMap(eps)
  <2>1. \A k \in DOMAIN dev.endpoints : dev.endpoints[k] \in Endpoint
    BY <1>1 DEF EndpointMap
  <2>2. \A e \in Endpoint : [e EXCEPT !.unverified = FALSE, !.observedAt = at] \in Endpoint
    BY DEF Endpoint
  <2> QED BY <1>1, <2>1, <2>2 DEF EndpointMap, Renewed
<1>3. \A t : AddrsWhere(eps, t) = AddrsWhere(dev.endpoints, t)
  <2>1. DOMAIN eps = DOMAIN dev.endpoints
    BY DEF Renewed
  <2>2. \A k \in DOMAIN eps : /\ eps[k].addr = dev.endpoints[k].addr
                             /\ eps[k].trusted = dev.endpoints[k].trusted
    BY <1>1 DEF EndpointMap, Endpoint, Renewed
  <2> HIDE DEF eps
  <2> QED BY <2>1, <2>2 DEF AddrsWhere
<1> HIDE DEF eps
<1>4. /\ DeviceState(p) /\ Follows(dev, p) /\ Alike(dev, p)
      /\ p.pinned = addr /\ p.endpoints = dev.endpoints
      /\ p.addrs = Dialling(dev.endpoints, addr) /\ p.rejected = Rejected(dev.endpoints)
  <2>1. CASE dev.pinned = addr
    <3>1. dev.epoch \in Nat
      BY <1>1 DEF DeviceState
    <3> QED BY <1>1, <2>1, <3>1 DEF Derived, Follows, Alike
  <2>2. CASE dev.pinned # addr
    <3> DEFINE q == [dev EXCEPT !.pinned = addr]
    <3>1. /\ q.pinned = addr /\ q.endpoints = dev.endpoints
          /\ q.addrs = dev.addrs /\ q.epoch = dev.epoch /\ Alike(dev, q)
      BY <1>1 DEF DeviceState, Alike
    <3>2. DeviceState(q)
      BY <1>1, <3>1 DEF DeviceState
    <3>3. p = RecomputeAddrs(q)
      BY <2>2
    <3> HIDE DEF q, p
    <3> QED BY <3>1, <3>2, <3>3, RecomputeType DEF Follows, Alike
  <2> QED BY <2>1, <2>2
<1> HIDE DEF p
<1>5. /\ s.endpoints = eps /\ s.pinned = addr /\ s.addrs = p.addrs
      /\ s.rejected = p.rejected /\ s.epoch = p.epoch /\ Alike(p, s)
      /\ s.lastSuccess = at
  BY <1>4 DEF DeviceState, Alike
<1>6. DeviceState(s)
  BY <1>2, <1>4, <1>5 DEF DeviceState
<1> HIDE DEF s
<1>7. /\ AllUnverified(s) \in BOOLEAN
      /\ AllUnverified(s) => \A k \in DOMAIN eps : eps[k].unverified
  BY <1>5 DEF AllUnverified
<1>8. /\ u.endpoints = eps /\ u.pinned = addr /\ u.addrs = p.addrs
      /\ u.rejected = p.rejected /\ u.epoch = p.epoch /\ u.unverified = AllUnverified(s)
      /\ Alike(p, u) /\ u.lastSuccess = at
  BY <1>5, <1>6 DEF DeviceState, Alike
<1>9. DeviceState(u)
  BY <1>6, <1>7, <1>8, <1>5 DEF DeviceState
<1>10. Scraped(dev, addr, at) = Touch(u)
  BY DEF Scraped, p, s, u, eps
<1> HIDE DEF u
<1> DEFINE r == Touch(u)
<1>11. /\ DeviceState(r) /\ r = [u EXCEPT !.lastSeen = r.lastSeen]
       /\ r.lastSeen = LaterOf(r.lastDiscovery, r.lastSuccess)
  BY <1>9, TouchType
<1> HIDE DEF r
<1>12. /\ r.endpoints = eps /\ r.pinned = addr /\ r.addrs = p.addrs
       /\ r.rejected = p.rejected /\ r.epoch = p.epoch /\ r.unverified = u.unverified
       /\ Alike(u, r) /\ r.lastSuccess = at
  BY <1>8, <1>9, <1>11 DEF DeviceState, Alike
<1>13. /\ Dialling(eps, addr) = Dialling(dev.endpoints, addr)
       /\ Rejected(eps) = Rejected(dev.endpoints)
  BY <1>3 DEF Dialling, Rejected
<1>14. Flagged(r)
  BY <1>7, <1>8, <1>12 DEF Flagged
<1>15. Alike(dev, r)
  BY <1>4, <1>8, <1>12 DEF Alike
<1> QED BY <1>4, <1>10, <1>11, <1>12, <1>13, <1>14, <1>15 DEF Derived, Follows, r, eps

\* So does ageing its endpoints out (expire).
LEMMA AgedDerived ==
    ASSUME NEW dev, Derived(dev)
    PROVE  /\ Derived(Aged(dev)) /\ Follows(dev, Aged(dev))
           /\ Alike(dev, Aged(dev)) /\ Keeps(dev, Aged(dev))
           /\ Aged(dev).lastSeen = dev.lastSeen
           /\ \A k \in DOMAIN dev.endpoints :
                 ~Outlived(dev, dev.endpoints[k]) => k \in DOMAIN Aged(dev).endpoints
           /\ \A k \in DOMAIN Aged(dev).endpoints : Aged(dev).endpoints[k] = dev.endpoints[k]
<1> DEFINE kept == {k \in DOMAIN dev.endpoints : ~Outlived(dev, dev.endpoints[k])}
           eps  == Restrict(dev.endpoints, kept)
           d    == [dev EXCEPT !.endpoints = eps]
<1>1. EndpointMap(dev.endpoints) /\ DeviceState(dev)
  BY DEF Derived, DeviceState
<1>2. /\ EndpointMap(eps) /\ DOMAIN eps \subseteq DOMAIN dev.endpoints
      /\ \A k \in DOMAIN eps : eps[k] = dev.endpoints[k]
      /\ DOMAIN eps = kept
  BY <1>1 DEF EndpointMap, Restrict
<1>5. \A k \in DOMAIN dev.endpoints : ~Outlived(dev, dev.endpoints[k]) => k \in kept
  OBVIOUS
<1> HIDE DEF kept
<1>3. CASE dev.static \/ kept = DOMAIN dev.endpoints
  <2>1. Aged(dev) = dev
    BY <1>3 DEF Aged, kept
  <2>2. dev.epoch \in Nat
    BY <1>1 DEF DeviceState
  <2> QED BY <2>1, <2>2 DEF Follows, Alike, Keeps
<1>4. CASE ~(dev.static \/ kept = DOMAIN dev.endpoints)
  <2>1. Aged(dev) = Touch(RecomputeAddrs(d))
    BY <1>4 DEF Aged, kept
  <2> HIDE DEF eps
  <2>2. /\ d.endpoints = eps /\ d.addrs = dev.addrs /\ d.epoch = dev.epoch
        /\ d.unverified = dev.unverified /\ Alike(dev, d)
        /\ d.lastDiscovery = dev.lastDiscovery /\ d.lastSuccess = dev.lastSuccess
        /\ d.pinned = dev.pinned
    BY <1>1 DEF DeviceState, Alike
  <2>3. DeviceState(d)
    BY <1>1, <1>2, <2>2 DEF DeviceState
  <2> HIDE DEF d
  <2>4. Flagged(d)
    BY <1>2, <2>2 DEF Flagged, Derived
  <2> DEFINE r == Touch(RecomputeAddrs(d))
  <2>5. /\ Derived(r) /\ Follows(d, r) /\ Alike(d, r)
        /\ r.endpoints = eps /\ r.pinned = dev.pinned
        /\ r.lastDiscovery = dev.lastDiscovery /\ r.lastSuccess = dev.lastSuccess
    BY <2>2, <2>3, <2>4, RefreshDerived
  <2> HIDE DEF r
  <2>6. Follows(dev, r) /\ Alike(dev, r) /\ r.lastSeen = dev.lastSeen
    BY <2>2, <2>5 DEF Derived, Follows, Alike
  <2>7. Keeps(dev, r)
    BY <1>2, <2>5 DEF Keeps
  <2> QED BY <1>2, <1>5, <2>1, <2>5, <2>6, <2>7 DEF r
<1> QED BY <1>3, <1>4

\* A merge keeps the survivor's type and its epoch (promote).
LEMMA MergeDerived ==
    ASSUME NEW target, DeviceState(target), NEW old, DeviceState(old)
    PROVE  LET r == MergeInto(target, old) IN
           /\ DeviceState(r) /\ Follows(target, r)
           /\ r.sources = target.sources \cup old.sources
           /\ r.provisional = (target.provisional /\ old.provisional)
<1> DEFINE eps  == [k \in DOMAIN target.endpoints \cup DOMAIN old.endpoints |->
                       IF k \in DOMAIN old.endpoints
                       THEN old.endpoints[k] ELSE target.endpoints[k]]
           srcs == target.sources \cup old.sources
           ld   == LaterOf(target.lastDiscovery, old.lastDiscovery)
           ls   == LaterOf(target.lastSuccess, old.lastSuccess)
           name == IF target.provisional /\ ~old.provisional THEN old.name ELSE target.name
           prov == target.provisional /\ old.provisional
           d    == [target EXCEPT !.endpoints = eps, !.sources = srcs,
                                  !.lastDiscovery = ld, !.lastSuccess = ls,
                                  !.name = name, !.provisional = prov]
<1>1. EndpointMap(target.endpoints) /\ EndpointMap(old.endpoints)
  BY DEF DeviceState
<1>2. EndpointMap(eps)
  BY <1>1 DEF EndpointMap
<1>3. /\ srcs \subseteq Sources /\ ld \in Time /\ ls \in Time
      /\ name \in Labels /\ prov \in BOOLEAN
  BY DEF DeviceState, LaterOf
<1>4. MergeInto(target, old) = RecomputeAddrs(d)
  BY DEF MergeInto
<1> HIDE DEF eps, srcs, ld, ls, name, prov
<1>5. /\ d.endpoints = eps /\ d.addrs = target.addrs /\ d.epoch = target.epoch
      /\ d.sources = srcs /\ d.provisional = prov
  BY DEF DeviceState
<1>6. DeviceState(d)
  BY <1>2, <1>3, <1>5 DEF DeviceState
<1> HIDE DEF d
<1> QED BY <1>4, <1>5, <1>6, RecomputeType DEF Follows, Alike, srcs, prov

-----------------------------------------------------------------------------
(* Handles *)

\* Promotion redirects every handle of the old identity to the new one, so no handle is
\* left without a device but those of the device that is about to be observed.
LEMMA PromoteHandles ==
    ASSUME NEW reg, NEW old, NEW new,
           \A h \in DOMAIN reg.aliases : reg.aliases[h] \in DOMAIN reg.devices
    PROVE  \A h \in DOMAIN Promote(reg, old, new).aliases :
              Promote(reg, old, new).aliases[h]
                  \in DOMAIN Promote(reg, old, new).devices \cup {new}
<1>1. CASE old = new \/ old \notin DOMAIN reg.devices
  BY <1>1 DEF Promote
<1>2. CASE ~(old = new \/ old \notin DOMAIN reg.devices)
  BY <1>2 DEF Promote
<1> QED BY <1>1, <1>2

\* No action leaves a handle without its device.
LEMMA HandlesStep ==
    ASSUME NoDanglingHandle, [Next]_vars
    PROVE  NoDanglingHandle'
<1> USE DEF NoDanglingHandle
<1>1. ASSUME NEW ev \in Announcements, NEW at \in Stamps, Add(ev, at)
      PROVE  NoDanglingHandle'
  <2> DEFINE target == ResolveID(ev)
             reg == Promote([devices |-> devices, aliases |-> aliases],
                            target.old, target.id)
  <2>1. \A h \in DOMAIN reg.aliases : reg.aliases[h] \in DOMAIN reg.devices \cup {target.id}
    BY PromoteHandles
  <2>2. DOMAIN devices' = DOMAIN reg.devices \cup {target.id}
    BY <1>1 DEF Add
  <2>3. aliases' = Bind(reg.aliases, target.id, ev)
    BY <1>1 DEF Add
  <2> HIDE DEF target, reg
  <2> QED BY <2>1, <2>2, <2>3 DEF Bind
<1>2. ASSUME NEW ev \in Announcements, NEW at \in Stamps, RemoveHint(ev, at)
      PROVE  NoDanglingHandle'
  BY <1>2 DEF RemoveHint
<1>3. ASSUME NEW source \in Hinting, NEW at \in Stamps, SourceReset(source, at)
      PROVE  NoDanglingHandle'
  BY <1>3 DEF SourceReset
<1>4. ASSUME NEW o \in offered, NEW at \in Stamps, ScrapeSuccess(o[1], o[3], at)
      PROVE  NoDanglingHandle'
  BY <1>4 DEF ScrapeSuccess
<1>5. CASE Expire
  BY <1>5 DEF Expire, Restrict
<1>6. CASE Refresh \/ CoalesceFires \/ Publish \/ Tick \/ UNCHANGED vars
  BY <1>6 DEF Refresh, CoalesceFires, Publish, Tick, vars
<1> QED BY <1>1, <1>2, <1>3, <1>4, <1>5, <1>6 DEF Next

\* Through promotions, merges and expiry, no handle names a device that is gone: an
\* observation is never attributed to a forgotten device.
THEOREM HandlesAlive == Spec => []NoDanglingHandle
<1>1. Init => NoDanglingHandle
  BY DEF Init, NoDanglingHandle
<1>2. NoDanglingHandle /\ [Next]_vars => NoDanglingHandle'
  BY HandlesStep
<1> QED BY <1>1, <1>2, PTL DEF Spec

-----------------------------------------------------------------------------
(* Publication *)

\* An action that leaves dirty set cannot hide a change from readers.
LEMMA PublishStep ==
    ASSUME NoLostUpdate, [Next]_vars
    PROVE  NoLostUpdate'
<1>1. CASE dirty' = TRUE
  BY <1>1 DEF NoLostUpdate
<1>2. CASE Publish
  BY <1>2 DEF Publish, NoLostUpdate, View
<1>3. CASE UNCHANGED <<devices, snapshot, dirty>>
  BY <1>3 DEF NoLostUpdate, View
<1> QED
  BY <1>1, <1>2, <1>3
  DEF Next, vars, Add, RemoveHint, SourceReset, ScrapeSuccess, Expire, Refresh,
      CoalesceFires, Tick, MarkDirty

\* Whenever no publication is pending, the snapshot readers hold is what the actor knows.
THEOREM NoUpdateIsLost == Spec => []NoLostUpdate
<1>1. Init => NoLostUpdate
  BY DEF Init, NoLostUpdate, View
<1>2. NoLostUpdate /\ [Next]_vars => NoLostUpdate'
  BY PublishStep
<1> QED BY <1>1, <1>2, PTL DEF Spec
-----------------------------------------------------------------------------
(* The invariant behind the rest *)

\* TypeOK says what the published and the private state look like; Derived says that no
\* path forgets recomputeAddrs or touch.  Publication enters through the type of the
\* snapshot, and results through the type of the endpoints offered.
AllDerived == \A id \in DOMAIN devices : Derived(devices[id])

RegistryInv == TypeOK /\ AllDerived

\* Every derived identity and every handle is an ID.
LEMMA DeriveIDType ==
    ASSUME NEW ev \in Announcements
    PROVE  DeriveID(ev) \in ID /\ HandleSet(ev) \subseteq ID
<1>1. ev \in Announcement
  BY RegistryAssumption
<1>2. DeriveID(ev) \in ID
  BY <1>1 DEF DeriveID, ID, Announcement
<1>3. ASSUME NEW i \in 1 .. 4
      PROVE  EventHandles(ev)[i] \in ID \cup {NoHandle}
  BY <1>1, <1>2, <1>3 DEF EventHandles, ID, Announcement
<1> QED BY <1>2, <1>3 DEF HandleSet

\* The first of the four handles that is bound.
LEMMA FirstOfFour ==
    ASSUME NEW S, S \subseteq 1 .. 4, S # {}
    PROVE  LET first == CHOOSE i \in S : \A j \in S : i <= j
           IN  first \in S /\ \A j \in S : first <= j
<1>1. S \subseteq {1, 2, 3, 4}
  OBVIOUS
<1>2. \E i \in S : \A j \in S : i <= j
  <2>1. CASE 1 \in S
    BY <1>1, <2>1
  <2>2. CASE 1 \notin S /\ 2 \in S
    BY <1>1, <2>2
  <2>3. CASE 1 \notin S /\ 2 \notin S /\ 3 \in S
    BY <1>1, <2>3
  <2>4. CASE 1 \notin S /\ 2 \notin S /\ 3 \notin S /\ 4 \in S
    BY <1>1, <2>4
  <2> QED BY <1>1, <2>1, <2>2, <2>3, <2>4
<1> QED BY <1>2

\* resolveID answers with IDs.
LEMMA ResolveIDType ==
    ASSUME TypeOK, NEW ev \in Announcements
    PROVE  ResolveID(ev).id \in ID /\ ResolveID(ev).old \in ID
<1> DEFINE derived == DeriveID(ev)
           bound   == {i \in 1 .. 4 : EventHandles(ev)[i] \in DOMAIN aliases}
           first   == CHOOSE i \in bound : \A j \in bound : i <= j
           owner   == aliases[EventHandles(ev)[first]]
           matches == ShortIDMatches(ev, derived)
           match   == CHOOSE id \in matches : TRUE
<1>1. ev \in Announcement /\ derived \in ID
  BY RegistryAssumption, DeriveIDType
<1>2. bound # {} => owner \in ID
  <2>1. bound # {} => first \in bound
    BY FirstOfFour
  <2>2. aliases \in [DOMAIN aliases -> ID]
    BY DEF TypeOK
  <2> HIDE DEF first
  <2> QED BY <2>1, <2>2
<1>3. Cardinality(matches) = 1 => match \in ID
  <2>1. matches \subseteq ID
    BY DEF ShortIDMatches, TypeOK
  <2> HIDE DEF matches
  <2>2. Cardinality(matches) = 1 => matches # {}
    BY FS_EmptySet
  <2> QED BY <2>1, <2>2
<1>4. ev.id # NoID => ev.id \in ID
  BY <1>1 DEF Announcement, ID
<1>5. ResolveID(ev) = IF ev.id # NoID THEN [id |-> ev.id, old |-> ev.id]
        ELSE IF bound # {}
             THEN IF IsMACID(derived) /\ ~IsMACID(owner)
                  THEN [id |-> derived, old |-> owner]
                  ELSE [id |-> owner, old |-> owner]
        ELSE IF Cardinality(matches) = 1
             THEN IF IsMACID(derived)
                  THEN [id |-> derived, old |-> match]
                  ELSE [id |-> match, old |-> match]
        ELSE [id |-> derived, old |-> derived]
  BY DEF ResolveID
<1> HIDE DEF derived, bound, owner, matches, match
<1> QED BY <1>1, <1>2, <1>3, <1>4, <1>5

\* A new device is well typed before anything is folded into it.
LEMMA NewDeviceType ==
    ASSUME NEW ev \in Announcements, NEW at \in Time
    PROVE  DeviceState(NewDevice(ev))
<1>1. ev \in Announcement
  BY RegistryAssumption
<1>2. 0 \in Time
  BY RegistryAssumption DEF Time
<1>3. <<>> \in AddrLists
  BY DEF AddrLists
<1>4. EndpointMap([k \in {} |-> k])
  BY DEF EndpointMap
<1> QED BY <1>1, <1>2, <1>3, <1>4 DEF NewDevice, DeviceState, Announcement

\* promote keeps every device up to date and every alias an ID.
LEMMA PromoteType ==
    ASSUME NEW reg, NEW old \in ID, NEW new \in ID,
           DOMAIN reg.devices \subseteq ID,
           \A i \in DOMAIN reg.devices : Derived(reg.devices[i]),
           DOMAIN reg.aliases \subseteq ID, reg.aliases \in [DOMAIN reg.aliases -> ID]
    PROVE  LET r == Promote(reg, old, new) IN
           /\ DOMAIN r.devices \subseteq ID
           /\ \A i \in DOMAIN r.devices : DeviceState(r.devices[i])
           /\ \A i \in DOMAIN r.devices \ {new} : Derived(r.devices[i])
           /\ \A i \in DOMAIN reg.devices \cap DOMAIN r.devices :
                 Follows(reg.devices[i], r.devices[i])
           /\ \A i \in DOMAIN reg.devices \ DOMAIN r.devices :
                 i \in DOMAIN r.aliases /\ r.aliases[i] = new
           /\ DOMAIN r.aliases \subseteq ID /\ r.aliases \in [DOMAIN r.aliases -> ID]
<1> DEFINE r == Promote(reg, old, new)
           survivor == IF new \in DOMAIN reg.devices
                       THEN MergeInto(reg.devices[new], reg.devices[old])
                       ELSE RecomputeAddrs(reg.devices[old])
<1>1. \A i \in DOMAIN reg.devices : Follows(reg.devices[i], reg.devices[i])
  BY DEF Derived, DeviceState, Follows
<1>2. CASE old = new \/ old \notin DOMAIN reg.devices
  <2>1. r = reg
    BY <1>2 DEF Promote
  <2> QED BY <1>1, <2>1 DEF Derived
<1>3. CASE ~(old = new \/ old \notin DOMAIN reg.devices)
  <2>1. /\ r.devices = [i \in (DOMAIN reg.devices \ {old}) \cup {new} |->
                           IF i = new THEN survivor ELSE reg.devices[i]]
        /\ r.aliases = [h \in DOMAIN reg.aliases \cup {old} |->
                           IF h = old \/ reg.aliases[h] = old THEN new
                           ELSE reg.aliases[h]]
    BY <1>3 DEF Promote
  <2>2. DeviceState(survivor)
    BY <1>3, MergeDerived, RecomputeType DEF Derived
  <2>3. new \in DOMAIN reg.devices => Follows(reg.devices[new], survivor)
    BY <1>3, MergeDerived DEF Derived
  <2> HIDE DEF r, survivor
  <2>4. r.aliases \in [DOMAIN r.aliases -> ID] /\ DOMAIN r.aliases \subseteq ID
    BY <2>1
  <2>5. \A i \in DOMAIN reg.devices \ DOMAIN r.devices :
           i \in DOMAIN r.aliases /\ r.aliases[i] = new
    BY <2>1
  <2>6. /\ DOMAIN r.devices \subseteq ID
        /\ \A i \in DOMAIN r.devices : DeviceState(r.devices[i])
        /\ \A i \in DOMAIN r.devices \ {new} : Derived(r.devices[i])
    BY <2>1, <2>2 DEF Derived
  <2>7. \A i \in DOMAIN reg.devices \cap DOMAIN r.devices :
           Follows(reg.devices[i], r.devices[i])
    BY <1>1, <2>1, <2>3
  <2> QED BY <2>4, <2>5, <2>6, <2>7 DEF r
<1> QED BY <1>2, <1>3

\* What a step does to the devices: each stays derived, follows what it was, and leaves
\* only into another device or for silence.
Quiet(id) ==
    \/ id \in DOMAIN aliases' /\ aliases'[id] \in DOMAIN devices'
    \/ /\ ~devices[id].static
       /\ now - devices[id].lastDiscovery > DeviceTTL
       /\ now - devices[id].lastSuccess > DeviceTTL

DevicesStep ==
    /\ DOMAIN devices' \subseteq ID
    /\ devices' = [i \in DOMAIN devices' |-> devices'[i]]
    /\ \A i \in DOMAIN devices' : Derived(devices'[i])
    /\ \A i \in DOMAIN devices \cap DOMAIN devices' : Follows(devices[i], devices'[i])
    /\ \A i \in DOMAIN devices \ DOMAIN devices' : Quiet(i)

\* No step but an announcement adds a device or a handle, or changes what a handle names,
\* and the handles of a device go with it.
OnlyAges ==
    /\ DOMAIN devices' \subseteq DOMAIN devices
    /\ \A i \in DOMAIN devices' : Alike(devices[i], devices'[i])
    /\ DOMAIN aliases' \subseteq DOMAIN aliases
    /\ \A h \in DOMAIN aliases' : aliases'[h] = aliases[h]
    /\ \A h \in DOMAIN aliases : aliases[h] \in DOMAIN devices' => h \in DOMAIN aliases'

AliasesType == DOMAIN aliases \subseteq ID /\ aliases \in [DOMAIN aliases -> ID]

\* A stamp is a time.
LEMMA StampsInTime == now \in Time => Stamps \subseteq Time
BY RegistryAssumption DEF Stamps, Time

\* applyAdd keeps the invariant of the devices and the aliases.
LEMMA AddStep ==
    ASSUME RegistryInv, NEW ev \in Announcements, NEW at \in Stamps, Add(ev, at)
    PROVE  DevicesStep /\ AliasesType'
<1> DEFINE target == ResolveID(ev)
           id  == target.id
           old == target.old
           reg0 == [devices |-> devices, aliases |-> aliases]
           reg == Promote(reg0, old, id)
           known == IF id \in DOMAIN reg.devices THEN reg.devices[id] ELSE NewDevice(ev)
<1>1. id \in ID /\ old \in ID
  BY ResolveIDType DEF RegistryInv
<1>2. at \in Time
  BY StampsInTime DEF RegistryInv, TypeOK
<1>3. /\ DOMAIN reg0.devices \subseteq ID
      /\ \A i \in DOMAIN reg0.devices : Derived(reg0.devices[i])
      /\ DOMAIN reg0.aliases \subseteq ID /\ reg0.aliases \in [DOMAIN reg0.aliases -> ID]
      /\ reg0.devices = devices
  BY DEF RegistryInv, TypeOK, AllDerived
<1>4. /\ devices' = [i \in DOMAIN reg.devices \cup {id} |->
                        IF i = id THEN Observe(known, ev, at) ELSE reg.devices[i]]
      /\ aliases' = Bind(reg.aliases, id, ev)
  BY DEF Add
<1> HIDE DEF reg0, target
<1>5. /\ DOMAIN reg.devices \subseteq ID
      /\ \A i \in DOMAIN reg.devices : DeviceState(reg.devices[i])
      /\ \A i \in DOMAIN reg.devices \ {id} : Derived(reg.devices[i])
      /\ \A i \in DOMAIN devices \cap DOMAIN reg.devices :
            Follows(devices[i], reg.devices[i])
      /\ \A i \in DOMAIN devices \ DOMAIN reg.devices :
            i \in DOMAIN reg.aliases /\ reg.aliases[i] = id
      /\ DOMAIN reg.aliases \subseteq ID /\ reg.aliases \in [DOMAIN reg.aliases -> ID]
  <2> HIDE DEF id, old
  <2>1. /\ DOMAIN reg.devices \subseteq ID
        /\ \A i \in DOMAIN reg.devices : DeviceState(reg.devices[i])
        /\ \A i \in DOMAIN reg.devices \ {id} : Derived(reg.devices[i])
        /\ \A i \in DOMAIN reg0.devices \cap DOMAIN reg.devices :
              Follows(reg0.devices[i], reg.devices[i])
        /\ \A i \in DOMAIN reg0.devices \ DOMAIN reg.devices :
              i \in DOMAIN reg.aliases /\ reg.aliases[i] = id
        /\ DOMAIN reg.aliases \subseteq ID /\ reg.aliases \in [DOMAIN reg.aliases -> ID]
    BY <1>1, <1>3, PromoteType, Zenon
  <2> HIDE DEF reg
  <2> QED BY <1>3, <2>1
<1> HIDE DEF id, old, reg
<1>6. DeviceState(known)
  BY <1>2, <1>5, NewDeviceType
<1>7. Derived(Observe(known, ev, at)) /\ Follows(known, Observe(known, ev, at))
  BY <1>2, <1>6, ObserveDerived
<1>8. AliasesType'
  <2>1. HandleSet(ev) \subseteq ID
    BY DeriveIDType
  <2> QED BY <1>1, <1>4, <1>5, <2>1 DEF AliasesType, Bind
<1>9. id \in DOMAIN devices \cap DOMAIN reg.devices =>
          Follows(devices[id], Observe(known, ev, at))
  <2> SUFFICES ASSUME id \in DOMAIN devices \cap DOMAIN reg.devices
               PROVE  Follows(devices[id], Observe(known, ev, at))
    OBVIOUS
  <2>1. known = reg.devices[id]
    OBVIOUS
  <2> HIDE DEF known
  <2>2. Follows(devices[id], known) /\ Follows(known, Observe(known, ev, at))
    BY <1>5, <1>7, <2>1
  <2>3. devices[id].epoch \in Nat /\ known.epoch \in Nat
    BY <1>6, <1>3 DEF Derived, DeviceState
  <2>4. Observe(known, ev, at).epoch \in Nat
    BY <1>7 DEF Derived, DeviceState
  <2> QED BY <2>2, <2>3, <2>4 DEF Follows
<1> HIDE DEF known
<1>10. \A i \in DOMAIN devices \ DOMAIN devices' : Quiet(i)
  <2> SUFFICES ASSUME NEW i \in DOMAIN devices \ DOMAIN devices'
               PROVE  Quiet(i)
    OBVIOUS
  <2>1. i \in DOMAIN reg.aliases /\ reg.aliases[i] = id
    BY <1>4, <1>5
  <2>2. i \in DOMAIN aliases' /\ aliases'[i] = id
    BY <1>4, <2>1 DEF Bind
  <2>3. id \in DOMAIN devices'
    BY <1>4
  <2> QED BY <2>2, <2>3 DEF Quiet
<1>11. \A i \in DOMAIN devices \cap DOMAIN devices' : Follows(devices[i], devices'[i])
  <2>1. id \in DOMAIN devices => id \in DOMAIN reg.devices
    BY DEF id, reg, reg0, Promote
  <2> QED BY <1>4, <1>5, <1>9, <2>1
<1> QED BY <1>1, <1>4, <1>5, <1>7, <1>8, <1>10, <1>11 DEF DevicesStep

\* applyRemoveHint keeps it.
LEMMA HintStep ==
    ASSUME RegistryInv, NEW ev \in Announcements, NEW at \in Stamps, RemoveHint(ev, at)
    PROVE  DevicesStep /\ OnlyAges
<1> DEFINE hint == WithoutTXT(ev)
           handle == IF DeriveID(hint) \in DOMAIN aliases THEN DeriveID(hint)
                     ELSE <<"name", hint.label>>
           id == aliases[handle]
           r == Unverify(devices[id], hint.source, {hint.key}, at)
<1>1. /\ id \in DOMAIN devices /\ devices' = [devices EXCEPT ![id] = r]
      /\ aliases' = aliases
  BY DEF RemoveHint
<1>2. at \in Time
  BY StampsInTime DEF RegistryInv, TypeOK
<1> HIDE DEF hint, id
<1>3. Derived(r) /\ Follows(devices[id], r) /\ Alike(devices[id], r)
  BY <1>1, <1>2, UnverifyDerived DEF RegistryInv, AllDerived
<1> HIDE DEF r
<1>4. \A i \in DOMAIN devices :
         Derived(devices[i]) /\ Follows(devices[i], devices[i]) /\ Alike(devices[i], devices[i])
  BY DEF RegistryInv, AllDerived, Derived, DeviceState, Follows, Alike
<1> QED BY <1>1, <1>3, <1>4 DEF DevicesStep, OnlyAges, RegistryInv, TypeOK

\* A source reset keeps it.
LEMMA ResetStep ==
    ASSUME RegistryInv, NEW source, NEW at \in Stamps, SourceReset(source, at)
    PROVE  DevicesStep /\ OnlyAges
<1> DEFINE r(i) == Unverify(devices[i], source, Keys, at)
<1>1. devices' = [i \in DOMAIN devices |-> r(i)] /\ aliases' = aliases
  BY DEF SourceReset
<1>2. at \in Time
  BY StampsInTime DEF RegistryInv, TypeOK
<1>3. \A i \in DOMAIN devices :
         Derived(r(i)) /\ Follows(devices[i], r(i)) /\ Alike(devices[i], r(i))
  BY <1>2, UnverifyDerived DEF RegistryInv, AllDerived
<1> HIDE DEF r
<1> QED BY <1>1, <1>3 DEF DevicesStep, OnlyAges, RegistryInv, TypeOK

\* A reported success keeps it.
LEMMA ScrapeStep ==
    ASSUME RegistryInv, NEW o \in offered, NEW at \in Stamps, ScrapeSuccess(o[1], o[3], at)
    PROVE  DevicesStep /\ OnlyAges
<1> DEFINE id == o[1]
           r  == Scraped(devices[id], o[3], at)
<1>1. /\ id \in DOMAIN devices /\ devices' = [devices EXCEPT ![id] = r]
      /\ aliases' = aliases
  BY DEF ScrapeSuccess
<1>2. at \in Time /\ o[3] \in Addrs
  BY StampsInTime DEF RegistryInv, TypeOK
<1> HIDE DEF id
<1>3. Derived(r) /\ Follows(devices[id], r) /\ Alike(devices[id], r)
  BY <1>1, <1>2, ScrapedDerived DEF RegistryInv, AllDerived
<1> HIDE DEF r
<1>4. \A i \in DOMAIN devices :
         Derived(devices[i]) /\ Follows(devices[i], devices[i]) /\ Alike(devices[i], devices[i])
  BY DEF RegistryInv, AllDerived, Derived, DeviceState, Follows, Alike
<1> QED BY <1>1, <1>3, <1>4 DEF DevicesStep, OnlyAges, RegistryInv, TypeOK

\* expire keeps it.
LEMMA ExpireStep ==
    ASSUME RegistryInv, Expire
    PROVE  DevicesStep /\ AliasesType' /\ OnlyAges
<1> DEFINE kept == {id \in DOMAIN devices : ~Silent(devices[id])}
<1>1. /\ devices' = [id \in kept |-> Aged(devices[id])]
      /\ aliases' = Restrict(aliases, {h \in DOMAIN aliases :
                        aliases[h] \in DOMAIN devices => aliases[h] \in kept})
  <2>1. devices' = [id \in kept |-> Aged(devices[id])]
    BY DEF Expire
  <2>2. DOMAIN devices' = kept
    BY <2>1
  <2> QED BY <2>1, <2>2 DEF Expire
<1>2. \A id \in DOMAIN devices :
         /\ Derived(Aged(devices[id])) /\ Follows(devices[id], Aged(devices[id]))
         /\ Alike(devices[id], Aged(devices[id]))
         /\ Aged(devices[id]).lastSeen = devices[id].lastSeen
  BY AgedDerived DEF RegistryInv, AllDerived
<1>3. \A id \in DOMAIN devices \ kept : Quiet(id)
  <2> SUFFICES ASSUME NEW id \in DOMAIN devices, Silent(devices[id])
               PROVE  Quiet(id)
    OBVIOUS
  <2> DEFINE dev == devices[id]
  <2>1. ~dev.static /\ now - dev.lastSeen > DeviceTTL
    BY <1>2 DEF Silent
  <2>2. dev.lastSeen = LaterOf(dev.lastDiscovery, dev.lastSuccess)
    BY DEF RegistryInv, AllDerived, Derived
  <2>3. /\ dev.lastDiscovery \in Int /\ dev.lastSuccess \in Int
        /\ now \in Int /\ DeviceTTL \in Int
    BY RegistryAssumption
    DEF RegistryInv, AllDerived, Derived, DeviceState, TypeOK, Time
  <2> HIDE DEF dev
  <2>4. /\ now - dev.lastDiscovery > DeviceTTL
        /\ now - dev.lastSuccess > DeviceTTL
    BY <2>1, <2>2, <2>3 DEF LaterOf
  <2> QED BY <2>1, <2>4 DEF Quiet, dev
<1>4. AliasesType'
  BY <1>1 DEF AliasesType, RegistryInv, TypeOK, Restrict
<1>5. /\ DOMAIN aliases' \subseteq DOMAIN aliases
      /\ \A h \in DOMAIN aliases' : aliases'[h] = aliases[h]
  BY <1>1 DEF Restrict
<1> HIDE DEF kept
<1>6. kept \subseteq DOMAIN devices
  BY DEF kept
<1>7. \A h \in DOMAIN aliases : aliases[h] \in DOMAIN devices' => h \in DOMAIN aliases'
  BY <1>1 DEF Restrict
<1>8. OnlyAges
  BY <1>1, <1>2, <1>5, <1>6, <1>7 DEF OnlyAges
<1> QED BY <1>1, <1>2, <1>3, <1>4, <1>6, <1>8 DEF DevicesStep, RegistryInv, TypeOK

\* The published part of a device is a Device.
LEMMA ExportType ==
    ASSUME NEW dev, DeviceState(dev)
    PROVE  Export(dev) \in Device
BY DEF DeviceState, Export, Device

\* Publication keeps the snapshot and what was offered well typed.
LEMMA PublishType ==
    ASSUME RegistryInv, Publish
    PROVE  /\ DOMAIN snapshot' \subseteq ID
           /\ snapshot' \in [DOMAIN snapshot' -> Device]
           /\ offered' \subseteq ID \X Nat \X Addrs
<1>1. \A id \in DOMAIN devices : Export(devices[id]) \in Device
  BY ExportType DEF RegistryInv, AllDerived, Derived
<1>2. /\ View = [id \in DOMAIN devices |-> Export(devices[id])]
      /\ DOMAIN View = DOMAIN devices
  BY DEF View
<1>3. \A id \in DOMAIN View : View[id] \in Device
  BY <1>1, <1>2
<1>4. DOMAIN View \subseteq ID
  BY <1>2 DEF RegistryInv, TypeOK
<1>5. \A id \in DOMAIN View : View[id].epoch \in Nat
  BY <1>3 DEF Device
<1>6. View \in [DOMAIN View -> Device]
  BY <1>2, <1>3
<1> HIDE DEF View
<1>7. ASSUME NEW x \in {<<id, View[id].epoch, Primary(View[id])>> :
                          id \in {i \in DOMAIN View : Primary(View[i]) \in Addrs}}
      PROVE  x \in ID \X Nat \X Addrs
  BY <1>4, <1>5
<1>8. /\ snapshot' = View
      /\ offered' = offered \cup
            {<<id, View[id].epoch, Primary(View[id])>> :
                id \in {i \in DOMAIN View : Primary(View[i]) \in Addrs}}
  BY DEF Publish
<1>9. offered \subseteq ID \X Nat \X Addrs
  BY DEF RegistryInv, TypeOK
<1> QED BY <1>4, <1>6, <1>7, <1>8, <1>9

\* Every step keeps the invariant and moves epochs forward only.
LEMMA RegistryStep ==
    ASSUME RegistryInv, [Next]_vars
    PROVE  /\ DevicesStep /\ RegistryInv'
           /\ OnlyAges \/ \E ev \in Announcements, at \in Stamps : Add(ev, at)
<1> DEFINE Added == \E ev \in Announcements, at \in Stamps : Add(ev, at)
<1>1. DevicesStep /\ AliasesType' /\ (OnlyAges \/ Added)
  <2>1. CASE UNCHANGED <<devices, aliases>>
    <3>1. /\ devices' = devices /\ aliases' = aliases
      BY <2>1
    <3>2. \A i \in DOMAIN devices :
             Derived(devices[i]) /\ Follows(devices[i], devices[i]) /\ Alike(devices[i], devices[i])
      BY DEF RegistryInv, AllDerived, Derived, DeviceState, Follows, Alike
    <3> QED BY <3>1, <3>2 DEF DevicesStep, OnlyAges, AliasesType, RegistryInv, TypeOK
  <2>2. ASSUME aliases' = aliases
        PROVE  AliasesType'
    BY <2>2 DEF AliasesType, RegistryInv, TypeOK
  <2>3. ASSUME NEW ev \in Announcements, NEW at \in Stamps, Add(ev, at)
        PROVE  DevicesStep /\ AliasesType' /\ Added
    BY <2>3, AddStep
  <2>4. ASSUME NEW ev \in Announcements, NEW at \in Stamps, RemoveHint(ev, at)
        PROVE  DevicesStep /\ AliasesType' /\ OnlyAges
    BY <2>2, <2>4, HintStep DEF RemoveHint
  <2>5. ASSUME NEW source \in Hinting, NEW at \in Stamps, SourceReset(source, at)
        PROVE  DevicesStep /\ AliasesType' /\ OnlyAges
    BY <2>2, <2>5, ResetStep DEF SourceReset
  <2>6. ASSUME NEW o \in offered, NEW at \in Stamps, ScrapeSuccess(o[1], o[3], at)
        PROVE  DevicesStep /\ AliasesType' /\ OnlyAges
    BY <2>2, <2>6, ScrapeStep DEF ScrapeSuccess
  <2>7. CASE Expire
    BY <2>7, ExpireStep
  <2>8. CASE Refresh \/ CoalesceFires \/ Publish \/ Tick \/ UNCHANGED vars
    BY <2>1, <2>8 DEF Refresh, CoalesceFires, Publish, Tick, vars
  <2> QED BY <2>3, <2>4, <2>5, <2>6, <2>7, <2>8 DEF Next
<1>2. /\ DOMAIN snapshot' \subseteq ID
      /\ snapshot' \in [DOMAIN snapshot' -> Device]
      /\ offered' \subseteq ID \X Nat \X Addrs
  <2>1. CASE UNCHANGED <<snapshot, offered>>
    BY <2>1 DEF RegistryInv, TypeOK
  <2>2. CASE Publish
    BY <2>2, PublishType
  <2> QED
    BY <2>1, <2>2
    DEF Next, vars, Add, RemoveHint, SourceReset, ScrapeSuccess, Expire, Refresh,
        CoalesceFires, Tick
<1>3. dirty' \in BOOLEAN /\ coalesce' \in {"idle", "armed", "fired"} /\ now' \in Time
  <2>1. dirty \in BOOLEAN /\ coalesce \in {"idle", "armed", "fired"} /\ now \in Time
    BY DEF RegistryInv, TypeOK
  <2>2. MarkDirty => dirty' \in BOOLEAN /\ coalesce' \in {"idle", "armed", "fired"}
    BY <2>1 DEF MarkDirty
  <2>3. Tick => now' \in Time
    BY <2>1, RegistryAssumption DEF Tick, Time
  <2> QED
    BY <2>1, <2>2, <2>3
    DEF Next, vars, Add, RemoveHint, SourceReset, ScrapeSuccess, Expire, Refresh,
        CoalesceFires, Publish, Tick
<1>4. TypeOK'
  BY <1>1, <1>2, <1>3 DEF TypeOK, DevicesStep, AliasesType, Derived
<1>5. AllDerived'
  BY <1>1 DEF AllDerived, DevicesStep
<1> QED BY <1>1, <1>4, <1>5 DEF RegistryInv

\* Every device the actor holds is well typed and up to date with its endpoints.
THEOREM RegistryInvariant == Spec => []RegistryInv
<1>1. Init => RegistryInv
  <2>1. 1 \in Time
    BY RegistryAssumption DEF Time
  <2> QED BY <2>1 DEF Init, RegistryInv, TypeOK, AllDerived
<1>2. RegistryInv /\ [Next]_vars => RegistryInv'
  BY RegistryStep
<1> QED BY <1>1, <1>2, PTL DEF Spec
\* Every variable of the registry holds a value of its kind, whatever the announcements.
THEOREM TypeCorrect == Spec => []TypeOK
<1>1. RegistryInv => TypeOK
  BY DEF RegistryInv
<1> QED BY <1>1, RegistryInvariant, PTL

\* The addresses a collector dials, the LastSeen that expiry reads and the unverified flag
\* are what the endpoints and the evidence say: no path that adds, merges, pins or ages out
\* an endpoint forgets recomputeAddrs, touch or allUnverified.
THEOREM SummariesStayCurrent == Spec => []SummariesCurrent
<1>1. RegistryInv => AddrsCurrent
  BY DEF RegistryInv, AllDerived, Derived, AddrsCurrent
<1>2. RegistryInv => LastSeenIsLatest
  BY DEF RegistryInv, AllDerived, Derived, LastSeenIsLatest
<1>3. RegistryInv => UnverifiedSound
  BY DEF RegistryInv, AllDerived, Derived, Flagged, UnverifiedSound
<1>4. RegistryInv => SummariesCurrent
  BY <1>1, <1>2, <1>3 DEF SummariesCurrent
<1> QED BY <1>4, RegistryInvariant, PTL

\* While a device is known its epoch never falls, and rises with every change of address.
THEOREM EpochsMove == Spec => EpochMovesWithAddrs
<1> DEFINE Moves == \A id \in DOMAIN devices \cap DOMAIN devices' :
                       /\ devices'[id].epoch >= devices[id].epoch
                       /\ devices'[id].addrs # devices[id].addrs =>
                             devices'[id].epoch > devices[id].epoch
<1>1. RegistryInv /\ [Next]_vars => [Moves]_vars
  BY RegistryStep DEF DevicesStep, Follows
<1>2. EpochMovesWithAddrs <=> [][Moves]_vars
  BY DEF EpochMovesWithAddrs
<1> HIDE DEF Moves
<1> QED BY <1>1, <1>2, RegistryInvariant, PTL DEF Spec

\* A device leaves the registry only folded into another one or for silence.
THEOREM NothingLostQuietly == Spec => NeverLostQuietly
<1> DEFINE Explained == \A id \in DOMAIN devices \ DOMAIN devices' : Quiet(id)
<1>1. RegistryInv /\ [Next]_vars => [Explained]_vars
  BY RegistryStep DEF DevicesStep
<1>2. NeverLostQuietly <=> [][Explained]_vars
  BY DEF NeverLostQuietly, Quiet
<1> HIDE DEF Explained
<1> QED BY <1>1, <1>2, RegistryInvariant, PTL DEF Spec

-----------------------------------------------------------------------------
(* Names and identities *)

\* A provisional name is one that only the cloud has given.
Named(dev) == dev.provisional <=> dev.sources \subseteq {"shelly_cloud"}

\* promote merges names and sources alike.
LEMMA PromoteNamed ==
    ASSUME NEW reg, NEW old, NEW new,
           \A i \in DOMAIN reg.devices : Derived(reg.devices[i]) /\ Named(reg.devices[i])
    PROVE  LET r == Promote(reg, old, new) IN
           \A i \in DOMAIN r.devices : Named(r.devices[i])
<1> DEFINE r == Promote(reg, old, new)
           survivor == IF new \in DOMAIN reg.devices
                       THEN MergeInto(reg.devices[new], reg.devices[old])
                       ELSE RecomputeAddrs(reg.devices[old])
<1>1. CASE old = new \/ old \notin DOMAIN reg.devices
  BY <1>1 DEF Promote
<1>2. CASE ~(old = new \/ old \notin DOMAIN reg.devices)
  <2>1. r.devices = [i \in (DOMAIN reg.devices \ {old}) \cup {new} |->
                        IF i = new THEN survivor ELSE reg.devices[i]]
    BY <1>2 DEF Promote
  <2>2. Named(survivor)
    <3>1. ASSUME new \in DOMAIN reg.devices
          PROVE  Named(MergeInto(reg.devices[new], reg.devices[old]))
      <4> DEFINE d == reg.devices[new]
                 e == reg.devices[old]
                 m == MergeInto(d, e)
      <4>1. Derived(d) /\ Named(d) /\ Derived(e) /\ Named(e)
        BY <1>2, <3>1
      <4> HIDE DEF d, e
      <4>2. /\ m.sources = d.sources \cup e.sources
            /\ m.provisional = (d.provisional /\ e.provisional)
        BY <4>1, MergeDerived DEF Derived
      <4>3. d.provisional \in BOOLEAN /\ e.provisional \in BOOLEAN
        BY <4>1 DEF Derived, DeviceState
      <4> HIDE DEF m
      <4>4. m.provisional <=> d.provisional /\ e.provisional
        BY <4>2, <4>3
      <4>5. Named(m)
        BY <4>1, <4>2, <4>4 DEF Named
      <4> QED BY <4>5 DEF m, d, e
    <3>2. Named(RecomputeAddrs(reg.devices[old]))
      <4>1. Derived(reg.devices[old]) /\ Named(reg.devices[old])
        BY <1>2
      <4>2. Alike(reg.devices[old], RecomputeAddrs(reg.devices[old]))
        BY <4>1, RecomputeType DEF Derived
      <4> QED BY <4>1, <4>2 DEF Named, Alike
    <3> QED BY <3>1, <3>2
  <2> HIDE DEF r, survivor
  <2>3. \A i \in DOMAIN r.devices : Named(r.devices[i])
    BY <2>1, <2>2
  <2> QED BY <2>3 DEF r
<1> QED BY <1>1, <1>2

\* What applyAdd does, by name: the device it is for, the registry after promotion, and
\* what is folded into.
Target(ev) == ResolveID(ev).id
Folded(ev) == ResolveID(ev).old
Promoted(ev) == Promote([devices |-> devices, aliases |-> aliases], Folded(ev), Target(ev))
Known(ev) ==
    IF Target(ev) \in DOMAIN Promoted(ev).devices
    THEN Promoted(ev).devices[Target(ev)] ELSE NewDevice(ev)

LEMMA AddParts ==
    ASSUME RegistryInv, NEW ev \in Announcements, NEW at \in Stamps, Add(ev, at)
    PROVE  /\ Target(ev) \in ID /\ Folded(ev) \in ID
           /\ devices' = [i \in DOMAIN Promoted(ev).devices \cup {Target(ev)} |->
                             IF i = Target(ev) THEN Observe(Known(ev), ev, at)
                             ELSE Promoted(ev).devices[i]]
           /\ aliases' = Bind(Promoted(ev).aliases, Target(ev), ev)
           /\ DeviceState(Known(ev))
           /\ at \in Time
<1> USE DEF Target, Folded
<1>1. Target(ev) \in ID /\ Folded(ev) \in ID
  BY ResolveIDType DEF RegistryInv
<1>2. at \in Time
  BY StampsInTime DEF RegistryInv, TypeOK
<1>3. /\ devices' = [i \in DOMAIN Promoted(ev).devices \cup {Target(ev)} |->
                        IF i = Target(ev) THEN Observe(Known(ev), ev, at)
                        ELSE Promoted(ev).devices[i]]
      /\ aliases' = Bind(Promoted(ev).aliases, Target(ev), ev)
  BY DEF Add, Promoted, Known
<1>4. DeviceState(Known(ev))
  <2> DEFINE reg0 == [devices |-> devices, aliases |-> aliases]
  <2>1. /\ DOMAIN reg0.devices \subseteq ID
        /\ \A i \in DOMAIN reg0.devices : Derived(reg0.devices[i])
        /\ DOMAIN reg0.aliases \subseteq ID /\ reg0.aliases \in [DOMAIN reg0.aliases -> ID]
    BY DEF RegistryInv, TypeOK, AllDerived
  <2>2. Promoted(ev) = Promote(reg0, Folded(ev), Target(ev))
    BY DEF Promoted
  <2> DEFINE r == Promote(reg0, Folded(ev), Target(ev))
  <2> HIDE DEF reg0, Target, Folded
  <2>3. \A i \in DOMAIN Promoted(ev).devices : DeviceState(Promoted(ev).devices[i])
    <3>1. \A i \in DOMAIN r.devices : DeviceState(r.devices[i])
      BY <1>1, <2>1, PromoteType, Zenon
    <3> HIDE DEF r
    <3>2. Promoted(ev) = r
      BY <2>2 DEF r
    <3> QED BY <3>1, <3>2
  <2>4. DeviceState(NewDevice(ev))
    BY <1>2, NewDeviceType
  <2> QED BY <2>3, <2>4 DEF Known
<1> QED BY <1>1, <1>2, <1>3, <1>4

\* An announcement gives the device a name to keep, unless the cloud made it.
LEMMA AddNamed ==
    ASSUME OnlyCloudUnnamed, RegistryInv, NameIsAnnounced,
           NEW ev \in Announcements, NEW at \in Stamps, Add(ev, at)
    PROVE  NameIsAnnounced'
<1> DEFINE dev == Known(ev)
           r   == Observe(dev, ev, at)
<1>1. \A i \in DOMAIN Promoted(ev).devices : Named(Promoted(ev).devices[i])
  <2> DEFINE reg0 == [devices |-> devices, aliases |-> aliases]
  <2>1. \A i \in DOMAIN reg0.devices : Derived(reg0.devices[i]) /\ Named(reg0.devices[i])
    BY DEF RegistryInv, AllDerived, NameIsAnnounced, Named
  <2> HIDE DEF reg0
  <2> QED BY <2>1, PromoteNamed DEF Promoted, reg0
<1>2. Named(dev) \/ (dev.sources = {} /\ dev.provisional = ev.unnamed)
  BY <1>1 DEF Known, NewDevice
<1>3. DeviceState(dev) /\ at \in Time
  BY AddParts
<1> HIDE DEF dev
<1>4. r.sources = dev.sources \cup {ev.source} /\ r.provisional = (dev.provisional /\ ev.unnamed)
  BY <1>3, ObserveDerived
<1>5. dev.provisional \in BOOLEAN /\ ev.unnamed \in BOOLEAN
  BY <1>3, RegistryAssumption DEF DeviceState, Announcement
<1> HIDE DEF r
<1>6. r.provisional <=> dev.provisional /\ ev.unnamed
  BY <1>4, <1>5
<1>7. ev.unnamed <=> ev.source = "shelly_cloud"
  BY DEF OnlyCloudUnnamed
<1>8. Named(r)
  BY <1>2, <1>4, <1>5, <1>6, <1>7 DEF Named
<1>9. devices' = [i \in DOMAIN Promoted(ev).devices \cup {Target(ev)} |->
                     IF i = Target(ev) THEN r ELSE Promoted(ev).devices[i]]
  BY AddParts DEF r, dev
<1>10. \A i \in DOMAIN devices' : Named(devices'[i])
  BY <1>1, <1>8, <1>9
<1> QED BY <1>10 DEF NameIsAnnounced, Named

\* The name a device goes by does not depend on which source was first, provided that only
\* the cloud announces devices by something else than their name.
THEOREM NamesAreAnnounced ==
    ASSUME OnlyCloudUnnamed
    PROVE  Spec => []NameIsAnnounced
<1>1. Init => NameIsAnnounced
  BY DEF Init, NameIsAnnounced
<1>2. ASSUME RegistryInv, NameIsAnnounced, [Next]_vars
      PROVE  NameIsAnnounced'
  <2>1. CASE OnlyAges
    BY <1>2, <2>1 DEF OnlyAges, Alike, NameIsAnnounced
  <2>2. CASE \E ev \in Announcements, at \in Stamps : Add(ev, at)
    BY <1>2, <2>2, AddNamed
  <2> QED BY <1>2, <2>1, <2>2, RegistryStep
<1> QED BY <1>1, <1>2, RegistryInvariant, PTL DEF Spec

\* Every handle is of the board its device is of.
Attributed(board) ==
    \A h \in DOMAIN aliases : BoardOf(board, h) = BoardOf(board, aliases[h])

\* Short ids come from announcements: an operator's id or the cloud's is never one.
ShortNamed ==
    \A h \in DOMAIN aliases \cup DOMAIN devices :
        h[1] = "shortid" => \E g \in Announcements : h = DeriveID(g)

\* The handles of an observation are of its board.
LEMMA HandlesOfBoard ==
    ASSUME NEW board, OneBoardEach(board), NEW ev \in Announcements
    PROVE  /\ \A h \in HandleSet(ev) : /\ BoardOf(board, h) = board[ev.label]
                                       /\ h[1] = "shortid" => h = DeriveID(ev)
           /\ DeriveID(ev) \in HandleSet(ev)
           /\ DeriveID(ev)[1] = "shortid" => DeriveID(ev) = <<"shortid", ev.label>>
<1>1. ev \in Announcement
  BY RegistryAssumption
<1>2. /\ DeriveID(ev)[1] = "shortid" => DeriveID(ev) = <<"shortid", ev.label>>
      /\ BoardOf(board, DeriveID(ev)) = board[ev.label]
  BY <1>1 DEF DeriveID, BoardOf, IsMACID, OneBoardEach, Announcement
<1> DEFINE hs == EventHandles(ev)
<1>3. /\ hs[1] = <<"name", ev.label>>
      /\ hs[2] = IF ev.txtMac = NoHex THEN NoHandle ELSE <<"mac", ev.txtMac>>
      /\ hs[3] = IF ev.txtId = NoHex THEN NoHandle ELSE <<"name", ev.txtId>>
      /\ hs[4] = DeriveID(ev)
  BY DEF EventHandles
<1>4. DeriveID(ev) # NoHandle
  BY DeriveIDType, RegistryAssumption
<1> HIDE DEF hs
<1>5. /\ HandleSet(ev) = {hs[1], hs[2], hs[3], hs[4]} \ {NoHandle}
  <2>1. \A i \in 1 .. 4 : i \in {1, 2, 3, 4}
    OBVIOUS
  <2> QED BY <2>1 DEF HandleSet, hs
<1>6. ASSUME NEW h \in HandleSet(ev)
      PROVE  BoardOf(board, h) = board[ev.label] /\ (h[1] = "shortid" => h = DeriveID(ev))
  <2>1. CASE h = hs[1]
    BY <1>3, <2>1 DEF BoardOf, IsMACID
  <2>2. CASE h = hs[2]
    BY <1>3, <1>5, <2>2 DEF BoardOf, IsMACID, OneBoardEach
  <2>3. CASE h = hs[3]
    BY <1>3, <1>5, <2>3 DEF BoardOf, IsMACID, OneBoardEach
  <2>4. CASE h = hs[4]
    BY <1>2, <1>3, <2>4
  <2> QED BY <1>5, <2>1, <2>2, <2>3, <2>4
<1> QED BY <1>2, <1>3, <1>4, <1>5, <1>6

\* Short id and MAC match only on one board.
LEMMA MatchesOfBoard ==
    ASSUME NEW board, OneBoardEach(board), TypeOK, ShortNamed, NEW ev \in Announcements,
           NEW id \in ShortIDMatches(ev, DeriveID(ev))
    PROVE  id \in DOMAIN devices /\ BoardOf(board, id) = board[ev.label]
<1> DEFINE derived == DeriveID(ev)
<1>1. /\ id \in DOMAIN devices
      /\ \/ /\ IsMACID(derived) /\ id[1] = "shortid"
            /\ LabelHex[id[2]] = MacSuffix[derived[2]]
         \/ /\ derived[1] = "shortid" /\ IsMACID(id)
            /\ MacSuffix[id[2]] = LabelHex[derived[2]]
  BY DEF ShortIDMatches
<1>2. derived \in ID /\ id \in ID
  BY <1>1, DeriveIDType DEF TypeOK
<1>3. BoardOf(board, derived) = board[ev.label]
  BY HandlesOfBoard
<1>4. derived[1] = "shortid" => derived = <<"shortid", ev.label>>
  BY HandlesOfBoard
<1>5. CASE IsMACID(derived) /\ id[1] = "shortid" /\ LabelHex[id[2]] = MacSuffix[derived[2]]
  <2>1. PICK g \in Announcements : id = DeriveID(g)
    BY <1>1, <1>5 DEF ShortNamed
  <2>2. id = <<"shortid", g.label>> /\ BoardOf(board, id) = board[g.label]
    BY <1>5, <2>1, HandlesOfBoard
  <2>3. derived[2] \in Macs /\ BoardOf(board, derived) = derived[2]
    BY <1>2, <1>5 DEF ID, IsMACID, BoardOf
  <2>4. MacSuffix[derived[2]] = LabelHex[g.label] <=> derived[2] = board[g.label]
    BY <1>5, <2>1, <2>3 DEF OneBoardEach
  <2> HIDE DEF derived
  <2> QED BY <1>1, <1>3, <1>5, <2>2, <2>3, <2>4
<1>6. CASE derived[1] = "shortid" /\ IsMACID(id) /\ MacSuffix[id[2]] = LabelHex[derived[2]]
  <2>1. id[2] \in Macs /\ BoardOf(board, id) = id[2]
    BY <1>2, <1>6 DEF ID, IsMACID, BoardOf
  <2>2. derived[2] = ev.label
    BY <1>4, <1>6
  <2>3. MacSuffix[id[2]] = LabelHex[ev.label] <=> id[2] = board[ev.label]
    BY <1>6, <2>1 DEF OneBoardEach
  <2> HIDE DEF derived
  <2> QED BY <1>1, <1>6, <2>1, <2>2, <2>3
<1> QED BY <1>1, <1>5, <1>6

\* The four ways resolveID ends.
LEMMA ResolveIDCases ==
    ASSUME TypeOK, IsFiniteSet(DOMAIN devices), NEW ev \in Announcements
    PROVE  LET derived == DeriveID(ev)
               bound   == HandleSet(ev) \cap DOMAIN aliases
               matches == ShortIDMatches(ev, derived)
           IN  \/ /\ ev.id # NoID
                  /\ Target(ev) = ev.id /\ Folded(ev) = ev.id
               \/ /\ ev.id = NoID
                  /\ \E h \in bound : /\ Folded(ev) = aliases[h]
                                      /\ Target(ev) \in {aliases[h], derived}
               \/ /\ ev.id = NoID /\ bound = {}
                  /\ \E m \in matches : /\ matches = {m}
                                        /\ Folded(ev) = m
                                        /\ Target(ev) \in {m, derived}
               \/ /\ ev.id = NoID /\ bound = {}
                  /\ \A m \in matches : matches # {m}
                  /\ Target(ev) = derived /\ Folded(ev) = derived
<1> DEFINE derived == DeriveID(ev)
           bound   == {i \in 1 .. 4 : EventHandles(ev)[i] \in DOMAIN aliases}
           first   == CHOOSE i \in bound : \A j \in bound : i <= j
           owner   == aliases[EventHandles(ev)[first]]
           matches == ShortIDMatches(ev, derived)
           match   == CHOOSE id \in matches : TRUE
<1>1. bound # {} => first \in bound
  BY FirstOfFour
<1>2. \A i \in 1 .. 4 : i \in bound <=> EventHandles(ev)[i] \in HandleSet(ev) \cap DOMAIN aliases
  <2>1. NoHandle \notin DOMAIN aliases
    BY RegistryAssumption DEF TypeOK
  <2> QED BY <2>1 DEF HandleSet
<1>3. bound = {} <=> HandleSet(ev) \cap DOMAIN aliases = {}
  <2>1. \A h \in HandleSet(ev) : \E i \in 1 .. 4 : h = EventHandles(ev)[i]
    BY DEF HandleSet
  <2>2. bound \subseteq 1 .. 4
    OBVIOUS
  <2> HIDE DEF bound
  <2> QED BY <1>2, <2>1, <2>2
<1>4. /\ Cardinality(matches) = 1 => match \in matches /\ matches = {match}
      /\ (\E m \in matches : matches = {m}) => Cardinality(matches) = 1
  <2>1. IsFiniteSet(matches)
    <3>1. matches \subseteq DOMAIN devices
      BY DEF ShortIDMatches
    <3> HIDE DEF matches
    <3> QED BY <3>1, FS_Subset
  <2> HIDE DEF matches
  <2>2. Cardinality(matches) = 1 <=> \E m : matches = {m}
    BY <2>1, FS_Singleton
  <2> QED BY <2>2
<1>5. ResolveID(ev) =
        IF ev.id # NoID THEN [id |-> ev.id, old |-> ev.id]
        ELSE IF bound # {}
             THEN IF IsMACID(derived) /\ ~IsMACID(owner)
                  THEN [id |-> derived, old |-> owner]
                  ELSE [id |-> owner, old |-> owner]
        ELSE IF Cardinality(matches) = 1
             THEN IF IsMACID(derived)
                  THEN [id |-> derived, old |-> match]
                  ELSE [id |-> match, old |-> match]
        ELSE [id |-> derived, old |-> derived]
  BY DEF ResolveID
<1>6. bound # {} => \E h \in HandleSet(ev) \cap DOMAIN aliases : owner = aliases[h]
  <2>1. bound \subseteq 1 .. 4
    OBVIOUS
  <2> HIDE DEF bound, first
  <2> QED BY <1>1, <1>2, <2>1
<1> HIDE DEF derived, bound, owner, matches, match
<1>7. CASE ev.id # NoID
  BY <1>5, <1>7 DEF Target, Folded
<1>8. CASE ev.id = NoID /\ bound # {}
  BY <1>5, <1>6, <1>8 DEF Target, Folded, derived
<1>9. CASE ev.id = NoID /\ bound = {} /\ Cardinality(matches) = 1
  BY <1>3, <1>4, <1>5, <1>9 DEF Target, Folded, derived, matches
<1>10. CASE ev.id = NoID /\ bound = {} /\ Cardinality(matches) # 1
  <2>1. \A m \in matches : matches # {m}
    BY <1>4, <1>10
  <2>2. Target(ev) = derived /\ Folded(ev) = derived
    BY <1>5, <1>10 DEF Target, Folded
  <2> QED BY <1>3, <1>10, <2>1, <2>2 DEF derived, matches
<1> QED BY <1>7, <1>8, <1>9, <1>10

\* What promote leaves of the handles and of the devices.
LEMMA PromoteParts ==
    ASSUME NEW reg, NEW old, NEW new
    PROVE  LET r == Promote(reg, old, new) IN
           /\ \A h \in DOMAIN r.aliases :
                 \/ h \in DOMAIN reg.aliases /\ r.aliases[h] = reg.aliases[h]
                 \/ /\ r.aliases[h] = new
                    /\ \/ h = old /\ old \in DOMAIN reg.devices
                       \/ h \in DOMAIN reg.aliases /\ reg.aliases[h] = old
           /\ DOMAIN r.devices \subseteq DOMAIN reg.devices \cup {new}
           /\ old \in DOMAIN r.devices => old = new
           /\ \A i \in DOMAIN r.devices \ {new} : r.devices[i] = reg.devices[i]
<1>1. CASE old = new \/ old \notin DOMAIN reg.devices
  BY <1>1 DEF Promote
<1>2. CASE ~(old = new \/ old \notin DOMAIN reg.devices)
  BY <1>2 DEF Promote
<1> QED BY <1>1, <1>2

\* An announcement leaves of handles and devices what it found, and adds its own.
LEMMA AddEffect ==
    ASSUME RegistryInv, NEW ev \in Announcements, NEW at \in Stamps, Add(ev, at)
    PROVE  /\ \A h \in DOMAIN aliases' :
                 \/ h \in DOMAIN aliases /\ aliases'[h] = aliases[h]
                 \/ /\ aliases'[h] = Target(ev)
                    /\ \/ h \in HandleSet(ev) \cup {Target(ev)}
                       \/ h = Folded(ev) /\ Folded(ev) \in DOMAIN devices
                       \/ h \in DOMAIN aliases /\ aliases[h] = Folded(ev)
           /\ DOMAIN devices' \subseteq DOMAIN devices \cup {Target(ev)}
           /\ Folded(ev) \in DOMAIN devices' => Folded(ev) = Target(ev)
           /\ \A i \in DOMAIN devices' \ {Target(ev)} : devices'[i] = devices[i]
<1> DEFINE r == Promoted(ev)
<1>1. /\ \A h \in DOMAIN r.aliases :
            \/ h \in DOMAIN aliases /\ r.aliases[h] = aliases[h]
            \/ /\ r.aliases[h] = Target(ev)
               /\ \/ h = Folded(ev) /\ Folded(ev) \in DOMAIN devices
                  \/ h \in DOMAIN aliases /\ aliases[h] = Folded(ev)
      /\ DOMAIN r.devices \subseteq DOMAIN devices \cup {Target(ev)}
      /\ Folded(ev) \in DOMAIN r.devices => Folded(ev) = Target(ev)
      /\ \A i \in DOMAIN r.devices \ {Target(ev)} : r.devices[i] = devices[i]
  <2> DEFINE reg0 == [devices |-> devices, aliases |-> aliases]
  <2>1. reg0.devices = devices /\ reg0.aliases = aliases
    OBVIOUS
  <2>2. r = Promote(reg0, Folded(ev), Target(ev))
    BY DEF Promoted
  <2> HIDE DEF reg0, r
  <2> QED BY <2>1, <2>2, PromoteParts
<1>2. /\ devices' = [i \in DOMAIN r.devices \cup {Target(ev)} |->
                        IF i = Target(ev) THEN Observe(Known(ev), ev, at) ELSE r.devices[i]]
      /\ aliases' = Bind(r.aliases, Target(ev), ev)
  BY AddParts
<1> HIDE DEF r
<1>3. \A h \in DOMAIN aliases' :
         \/ h \in HandleSet(ev) \cup {Target(ev)} /\ aliases'[h] = Target(ev)
         \/ h \in DOMAIN r.aliases /\ aliases'[h] = r.aliases[h]
  BY <1>2 DEF Bind
<1>4. \A h \in DOMAIN aliases' :
         \/ h \in DOMAIN aliases /\ aliases'[h] = aliases[h]
         \/ /\ aliases'[h] = Target(ev)
            /\ \/ h \in HandleSet(ev) \cup {Target(ev)}
               \/ h = Folded(ev) /\ Folded(ev) \in DOMAIN devices
               \/ h \in DOMAIN aliases /\ aliases[h] = Folded(ev)
  BY <1>1, <1>3
<1>5. /\ DOMAIN devices' \subseteq DOMAIN devices \cup {Target(ev)}
      /\ Folded(ev) \in DOMAIN devices' => Folded(ev) = Target(ev)
      /\ \A i \in DOMAIN devices' \ {Target(ev)} : devices'[i] = devices[i]
  BY <1>1, <1>2
<1> QED BY <1>4, <1>5

\* The invariant behind attribution.
AttributionInv(board) ==
    /\ NoDanglingHandle
    /\ IsFiniteSet(DOMAIN devices)
    /\ Attributed(board)
    /\ ShortNamed

\* An observation goes to a device of its board, and folds in no other.
LEMMA TargetOfBoard ==
    ASSUME NEW board, OneBoardEach(board), TypeOK, AttributionInv(board),
           NEW ev \in Announcements
    PROVE  /\ BoardOf(board, Target(ev)) = board[ev.label]
           /\ BoardOf(board, Folded(ev)) = board[ev.label]
           /\ \A id \in {Target(ev), Folded(ev)} :
                 id[1] = "shortid" => \E g \in Announcements : id = DeriveID(g)
<1> DEFINE derived == DeriveID(ev)
           bound   == HandleSet(ev) \cap DOMAIN aliases
           matches == ShortIDMatches(ev, derived)
           OfBoard(id) == /\ BoardOf(board, id) = board[ev.label]
                          /\ id[1] = "shortid" => \E g \in Announcements : id = DeriveID(g)
<1>1. OfBoard(derived)
  BY HandlesOfBoard
<1>2. \A h \in bound : OfBoard(aliases[h])
  <2>1. \A h \in bound : BoardOf(board, aliases[h]) = board[ev.label]
    BY HandlesOfBoard DEF AttributionInv, Attributed
  <2>2. \A h \in bound : aliases[h] \in DOMAIN devices
    BY DEF AttributionInv, NoDanglingHandle
  <2> HIDE DEF bound
  <2> QED BY <2>1, <2>2 DEF AttributionInv, ShortNamed
<1>3. \A m \in matches : OfBoard(m)
  <2>1. \A m \in matches : m \in DOMAIN devices /\ BoardOf(board, m) = board[ev.label]
    BY MatchesOfBoard DEF AttributionInv
  <2> HIDE DEF matches
  <2> QED BY <2>1 DEF AttributionInv, ShortNamed
<1>4. ev.id # NoID => OfBoard(ev.id)
  <2>1. ev \in Announcement
    BY RegistryAssumption
  <2>2. ev.id # NoID => ev.id[1] = "static"
    BY <2>1 DEF Announcement
  <2> QED BY <2>2 DEF OneBoardEach, BoardOf, IsMACID
<1>5. \/ /\ ev.id # NoID
         /\ Target(ev) = ev.id /\ Folded(ev) = ev.id
      \/ \E h \in bound : Folded(ev) = aliases[h] /\ Target(ev) \in {aliases[h], derived}
      \/ \E m \in matches : Folded(ev) = m /\ Target(ev) \in {m, derived}
      \/ Target(ev) = derived /\ Folded(ev) = derived
  BY ResolveIDCases DEF AttributionInv
<1>6. OfBoard(Target(ev)) /\ OfBoard(Folded(ev))
  <2> HIDE DEF derived, bound, matches, OfBoard
  <2> QED BY <1>1, <1>2, <1>3, <1>4, <1>5
<1> QED BY <1>6

\* An announcement keeps every handle with the board it is of.
LEMMA AddAttributed ==
    ASSUME NEW board, OneBoardEach(board), RegistryInv, AttributionInv(board),
           NEW ev \in Announcements, NEW at \in Stamps, Add(ev, at)
    PROVE  IsFiniteSet(DOMAIN devices') /\ Attributed(board)' /\ ShortNamed'
<1> DEFINE b == board[ev.label]
<1>1. /\ BoardOf(board, Target(ev)) = b /\ BoardOf(board, Folded(ev)) = b
      /\ \A id \in {Target(ev), Folded(ev)} :
            id[1] = "shortid" => \E g \in Announcements : id = DeriveID(g)
  BY TargetOfBoard DEF RegistryInv
<1>2. \A h \in HandleSet(ev) : BoardOf(board, h) = b /\ (h[1] = "shortid" => h = DeriveID(ev))
  BY HandlesOfBoard
<1>3. /\ \A h \in DOMAIN aliases : BoardOf(board, h) = BoardOf(board, aliases[h])
      /\ \A h \in DOMAIN aliases \cup DOMAIN devices :
            h[1] = "shortid" => \E g \in Announcements : h = DeriveID(g)
  BY DEF AttributionInv, Attributed, ShortNamed
<1>4. \A h \in DOMAIN aliases' :
         \/ h \in DOMAIN aliases /\ aliases'[h] = aliases[h]
         \/ /\ aliases'[h] = Target(ev)
            /\ \/ h \in HandleSet(ev) \cup {Target(ev)}
               \/ h = Folded(ev) /\ Folded(ev) \in DOMAIN devices
               \/ h \in DOMAIN aliases /\ aliases[h] = Folded(ev)
  BY AddEffect
<1>5. DOMAIN devices' \subseteq DOMAIN devices \cup {Target(ev)}
  BY AddEffect
<1> HIDE DEF b
<1>6. \A h \in DOMAIN aliases' : BoardOf(board, h) = BoardOf(board, aliases'[h])
  BY <1>1, <1>2, <1>3, <1>4
<1>7. \A h \in DOMAIN aliases' \cup DOMAIN devices' :
         h[1] = "shortid" => \E g \in Announcements : h = DeriveID(g)
  BY <1>1, <1>2, <1>3, <1>4, <1>5
<1>8. IsFiniteSet(DOMAIN devices')
  <2>1. IsFiniteSet(DOMAIN devices \cup {Target(ev)})
    BY FS_AddElement DEF AttributionInv
  <2> QED BY <1>5, <2>1, FS_Subset
<1> QED BY <1>6, <1>7, <1>8 DEF Attributed, ShortNamed, BoardOf, IsMACID

\* Every step keeps attribution.
LEMMA AttributionStep ==
    ASSUME NEW board, OneBoardEach(board), RegistryInv, AttributionInv(board), [Next]_vars
    PROVE  AttributionInv(board)'
<1>1. NoDanglingHandle'
  BY HandlesStep DEF AttributionInv
<1>2. CASE OnlyAges
  <2>1. IsFiniteSet(DOMAIN devices')
    BY <1>2, FS_Subset DEF OnlyAges, AttributionInv
  <2>2. Attributed(board)' /\ ShortNamed'
    BY <1>2 DEF OnlyAges, AttributionInv, Attributed, ShortNamed, BoardOf, IsMACID
  <2> QED BY <1>1, <2>1, <2>2 DEF AttributionInv
<1>3. ASSUME NEW ev \in Announcements, NEW at \in Stamps, Add(ev, at)
      PROVE  AttributionInv(board)'
  BY <1>1, <1>3, AddAttributed DEF AttributionInv
<1> QED BY <1>2, <1>3, RegistryStep

\* Wherever a name belongs to one board, every handle leads to a device of its board.
THEOREM AttributionInvariant ==
    ASSUME NEW board, OneBoardEach(board)
    PROVE  Spec => []AttributionInv(board)
<1>1. Init => AttributionInv(board)
  BY FS_EmptySet DEF Init, AttributionInv, NoDanglingHandle, Attributed, ShortNamed
<1>2. RegistryInv /\ AttributionInv(board) /\ [Next]_vars => AttributionInv(board)'
  BY AttributionStep
<1> QED BY <1>1, <1>2, RegistryInvariant, PTL DEF Spec

\* An observation that carries MAC bytes is never filed under another MAC.
THEOREM MacsStayAttributed ==
    ASSUME NEW board, OneBoardEach(board)
    PROVE  Spec => []MacAttribution
<1>1. RegistryInv /\ AttributionInv(board) => MacAttribution
  <2> SUFFICES ASSUME RegistryInv, AttributionInv(board), NEW h \in DOMAIN aliases,
                      Contradicts(h, aliases[h])
               PROVE  FALSE
    BY DEF MacAttribution
  <2> DEFINE id == aliases[h]
  <2>1. id \in ID /\ h \in ID /\ IsMACID(id) /\ id[2] \in Macs /\ BoardOf(board, h) = id[2]
    BY DEF RegistryInv, TypeOK, Contradicts, ID, IsMACID, AttributionInv, Attributed, BoardOf
  <2>2. CASE IsMACID(h) /\ h # id
    BY <2>1, <2>2 DEF BoardOf, IsMACID, ID
  <2>3. CASE h[1] = "shortid" /\ LabelHex[h[2]] # MacSuffix[id[2]]
    <3>1. PICK g \in Announcements : h = DeriveID(g)
      BY <2>3 DEF AttributionInv, ShortNamed
    <3>2. h = <<"shortid", g.label>> /\ BoardOf(board, h) = board[g.label]
      BY <2>3, <3>1, HandlesOfBoard
    <3>3. MacSuffix[id[2]] = LabelHex[g.label] <=> id[2] = board[g.label]
      BY <2>1, <2>3, <3>1 DEF OneBoardEach
    <3> HIDE DEF id
    <3> QED BY <2>1, <2>3, <3>2, <3>3
  <2> QED BY <2>2, <2>3 DEF Contradicts
<1> QED BY <1>1, AttributionInvariant, RegistryInvariant, PTL

\* A board that goes by a Gen1 name, and everything it is announced as.
Gen1Board(board, b) ==
    \E g \in Announcements : DeriveID(g)[1] = "shortid" /\ board[g.label] = b

AnnouncedAs(board, b) == {DeriveID(ev) : ev \in {e \in Announcements : board[e.label] = b}}

\* Such a board is one Shelly, under an identity it is announced as.
Gen1Single(board) ==
    \A i \in DOMAIN devices : Gen1Board(board, BoardOf(board, i)) =>
        /\ devices[i].kind = "shelly"
        /\ i \in AnnouncedAs(board, BoardOf(board, i))
        /\ \A j \in DOMAIN devices : BoardOf(board, j) = BoardOf(board, i) => j = i

\* What is announced of a Gen1 board: one short id and the MAC, of one ending.
LEMMA Gen1Forms ==
    ASSUME NEW board, OneBoardEach(board), Gen1ByNameOrMAC(board),
           NEW g \in Announcements, DeriveID(g)[1] = "shortid",
           NEW ev \in Announcements, board[ev.label] = board[g.label]
    PROVE  /\ ev.kind = "shelly" /\ ev.id = NoID
           /\ DeriveID(ev) \in {<<"shortid", g.label>>, <<"mac", board[g.label]>>}
           /\ MacSuffix[board[g.label]] = LabelHex[g.label]
<1>1. DeriveID(g) = <<"shortid", g.label>>
  BY HandlesOfBoard
<1>2. board[g.label] \in Macs
  BY RegistryAssumption DEF OneBoardEach, Announcement
<1>3. MacSuffix[board[g.label]] = LabelHex[g.label]
  BY <1>2 DEF OneBoardEach
<1> QED BY <1>1, <1>3 DEF Gen1ByNameOrMAC

\* An announcement of a Gen1 board is for the device the board is known as, or folds it in.
LEMMA Gen1Folded ==
    ASSUME NEW board, OneBoardEach(board), Gen1ByNameOrMAC(board),
           TypeOK, AttributionInv(board), Gen1Single(board),
           NEW ev \in Announcements, Gen1Board(board, board[ev.label])
    PROVE  /\ Target(ev) \in AnnouncedAs(board, board[ev.label])
           /\ \A j \in DOMAIN devices : BoardOf(board, j) = board[ev.label] => j = Folded(ev)
<1> DEFINE b       == board[ev.label]
           derived == DeriveID(ev)
           bound   == HandleSet(ev) \cap DOMAIN aliases
           matches == ShortIDMatches(ev, derived)
<1>1. PICK g \in Announcements : DeriveID(g)[1] = "shortid" /\ board[g.label] = b
  BY DEF Gen1Board
<1> DEFINE short == <<"shortid", g.label>>
           full  == <<"mac", b>>
<1>2. /\ ev.kind = "shelly" /\ ev.id = NoID /\ derived \in {short, full}
      /\ MacSuffix[b] = LabelHex[g.label]
  BY <1>1, Gen1Forms
<1>3. derived \in AnnouncedAs(board, b) /\ AnnouncedAs(board, b) \subseteq {short, full}
  BY <1>1, Gen1Forms DEF AnnouncedAs
<1>4. ASSUME NEW j \in DOMAIN devices, BoardOf(board, j) = b
      PROVE  /\ j \in AnnouncedAs(board, b) /\ devices[j].kind = "shelly"
             /\ \A i \in DOMAIN devices : BoardOf(board, i) = b => i = j
  BY <1>4 DEF Gen1Single
<1>5. \A h \in bound : aliases[h] \in DOMAIN devices /\ BoardOf(board, aliases[h]) = b
  BY HandlesOfBoard DEF AttributionInv, NoDanglingHandle, Attributed
<1>6. \A m \in matches : m \in DOMAIN devices /\ BoardOf(board, m) = b
  BY MatchesOfBoard DEF AttributionInv
<1>7. ASSUME NEW j \in DOMAIN devices, BoardOf(board, j) = b, j # derived
      PROVE  j \in matches
  <2>1. j \in {short, full} /\ devices[j].kind = "shelly"
    BY <1>3, <1>4, <1>7
  <2>2. CASE derived = full
    <3>1. j = short
      BY <1>7, <2>1, <2>2
    <3>2. IsMACID(derived) /\ j[1] = "shortid" /\ LabelHex[j[2]] = MacSuffix[derived[2]]
      BY <1>2, <2>2, <3>1 DEF IsMACID
    <3> QED BY <1>2, <2>1, <3>2 DEF ShortIDMatches
  <2>3. CASE derived = short
    <3>1. j = full
      BY <1>7, <2>1, <2>3
    <3>2. derived[1] = "shortid" /\ IsMACID(j) /\ MacSuffix[j[2]] = LabelHex[derived[2]]
      BY <1>2, <2>3, <3>1 DEF IsMACID
    <3> QED BY <1>2, <2>1, <3>2 DEF ShortIDMatches
  <2> QED BY <1>2, <2>2, <2>3
<1>8. \/ \E h \in bound : Folded(ev) = aliases[h] /\ Target(ev) \in {aliases[h], derived}
      \/ \E m \in matches : Folded(ev) = m /\ Target(ev) \in {m, derived}
      \/ /\ \A m \in matches : matches # {m}
         /\ Target(ev) = derived /\ Folded(ev) = derived
  BY <1>2, ResolveIDCases DEF AttributionInv
<1> HIDE DEF b, derived, bound, matches, short, full
<1>9. CASE \E h \in bound : Folded(ev) = aliases[h] /\ Target(ev) \in {aliases[h], derived}
  BY <1>3, <1>4, <1>5, <1>9 DEF b
<1>10. CASE \E m \in matches : Folded(ev) = m /\ Target(ev) \in {m, derived}
  BY <1>3, <1>4, <1>6, <1>10 DEF b
<1>11. CASE /\ \A m \in matches : matches # {m}
            /\ Target(ev) = derived /\ Folded(ev) = derived
  <2>1. ASSUME NEW j \in DOMAIN devices, BoardOf(board, j) = b
        PROVE  j = derived
    <3> SUFFICES ASSUME j # derived
                 PROVE  FALSE
      OBVIOUS
    <3>1. j \in matches
      BY <1>7, <2>1
    <3>2. \A m \in matches : m = j
      BY <1>4, <1>6, <2>1
    <3> QED BY <1>11, <3>1, <3>2
  <2> QED BY <1>3, <1>11, <2>1 DEF b
<1> QED BY <1>8, <1>9, <1>10, <1>11

\* The device an announcement of a Gen1 board is folded into is a Shelly.
LEMMA Gen1Kind ==
    ASSUME NEW board, OneBoardEach(board), Gen1ByNameOrMAC(board),
           RegistryInv, AttributionInv(board), Gen1Single(board),
           NEW ev \in Announcements, Gen1Board(board, board[ev.label]),
           NEW at \in Stamps, Add(ev, at)
    PROVE  devices'[Target(ev)].kind = "shelly"
<1> DEFINE b    == board[ev.label]
           reg0 == [devices |-> devices, aliases |-> aliases]
           old  == Folded(ev)
           new  == Target(ev)
<1>1. ev.kind = "shelly"
  BY Gen1Forms DEF Gen1Board
<1>2. /\ BoardOf(board, new) = b /\ BoardOf(board, old) = b
  BY TargetOfBoard DEF RegistryInv
<1>3. \A j \in DOMAIN devices : BoardOf(board, j) = b => j = old
  BY Gen1Folded DEF RegistryInv
<1>4. old \in DOMAIN devices => devices[old].kind = "shelly" /\ DeviceState(devices[old])
  BY <1>2 DEF Gen1Single, RegistryInv, AllDerived, Derived
<1>5. Promoted(ev) = Promote(reg0, old, new) /\ reg0.devices = devices
  BY DEF Promoted
<1> HIDE DEF b, reg0, old, new
<1>6. new \in DOMAIN Promoted(ev).devices => Promoted(ev).devices[new].kind = "shelly"
  <2>1. CASE old = new \/ old \notin DOMAIN devices
    BY <1>2, <1>3, <1>4, <1>5, <2>1 DEF Promote
  <2>2. CASE ~(old = new \/ old \notin DOMAIN devices)
    <3>1. new \notin DOMAIN devices
      BY <1>2, <1>3, <2>2
    <3>2. Promoted(ev).devices = [i \in (DOMAIN devices \ {old}) \cup {new} |->
                                     IF i = new THEN RecomputeAddrs(devices[old]) ELSE devices[i]]
      BY <1>5, <2>2, <3>1 DEF Promote
    <3>3. RecomputeAddrs(devices[old]).kind = "shelly"
      BY <1>4, <2>2, RecomputeType DEF Alike
    <3> QED BY <3>2, <3>3
  <2> QED BY <2>1, <2>2
<1>7. Known(ev).kind = "shelly"
  BY <1>1, <1>6 DEF Known, NewDevice, new
<1>8. DeviceState(Known(ev)) /\ at \in Time
  BY AddParts
<1>9. Observe(Known(ev), ev, at).kind = "shelly"
  BY <1>7, <1>8, ObserveDerived
<1>10. devices'[Target(ev)] = Observe(Known(ev), ev, at)
  BY AddParts
<1> QED BY <1>9, <1>10

\* An announcement keeps a Gen1 board one device.
LEMMA AddSingle ==
    ASSUME NEW board, OneBoardEach(board), Gen1ByNameOrMAC(board),
           RegistryInv, AttributionInv(board), Gen1Single(board),
           NEW ev \in Announcements, NEW at \in Stamps, Add(ev, at)
    PROVE  Gen1Single(board)'
<1> DEFINE b == board[ev.label]
<1>1. BoardOf(board, Target(ev)) = b /\ BoardOf(board, Folded(ev)) = b
  BY TargetOfBoard DEF RegistryInv
<1>2. /\ DOMAIN devices' \subseteq DOMAIN devices \cup {Target(ev)}
      /\ Folded(ev) \in DOMAIN devices' => Folded(ev) = Target(ev)
      /\ \A i \in DOMAIN devices' \ {Target(ev)} : devices'[i] = devices[i]
  BY AddEffect
<1>3. Gen1Board(board, b) =>
         /\ devices'[Target(ev)].kind = "shelly"
         /\ Target(ev) \in AnnouncedAs(board, b)
         /\ \A j \in DOMAIN devices : BoardOf(board, j) = b => j = Folded(ev)
  BY Gen1Kind, Gen1Folded DEF RegistryInv
<1> HIDE DEF b
<1>4. ASSUME NEW i \in DOMAIN devices', Gen1Board(board, BoardOf(board, i))
      PROVE  /\ devices'[i].kind = "shelly"
             /\ i \in AnnouncedAs(board, BoardOf(board, i))
             /\ \A j \in DOMAIN devices' : BoardOf(board, j) = BoardOf(board, i) => j = i
  <2>1. CASE BoardOf(board, i) = b
    <3>1. \A j \in DOMAIN devices' : BoardOf(board, j) = b => j = Target(ev)
      BY <1>2, <1>3, <1>4, <2>1
    <3> QED BY <1>3, <1>4, <2>1, <3>1
  <2>2. CASE BoardOf(board, i) # b
    <3>1. i \in DOMAIN devices /\ devices'[i] = devices[i]
      BY <1>1, <1>2, <2>2
    <3>2. \A j \in DOMAIN devices' : BoardOf(board, j) = BoardOf(board, i) => j \in DOMAIN devices
      BY <1>1, <1>2, <2>2
    <3> QED BY <1>4, <3>1, <3>2 DEF Gen1Single
  <2> QED BY <2>1, <2>2
<1> QED BY <1>4 DEF Gen1Single, Gen1Board, AnnouncedAs, BoardOf, IsMACID

\* Where a handle is bound, the first one decides, and the name is looked up first.
LEMMA OwnerFirst ==
    ASSUME TypeOK, NEW ev \in Announcements, ev.id = NoID,
           HandleSet(ev) \cap DOMAIN aliases # {}
    PROVE  \E h \in HandleSet(ev) \cap DOMAIN aliases :
              /\ Folded(ev) = aliases[h]
              /\ Target(ev) = IF IsMACID(DeriveID(ev)) /\ ~IsMACID(aliases[h])
                              THEN DeriveID(ev) ELSE aliases[h]
              /\ <<"name", ev.label>> \in DOMAIN aliases => h = <<"name", ev.label>>
<1> DEFINE derived == DeriveID(ev)
           bound   == {i \in 1 .. 4 : EventHandles(ev)[i] \in DOMAIN aliases}
           first   == CHOOSE i \in bound : \A j \in bound : i <= j
           h       == EventHandles(ev)[first]
           matches == ShortIDMatches(ev, derived)
           match   == CHOOSE id \in matches : TRUE
<1>1. NoHandle \notin DOMAIN aliases
  BY RegistryAssumption DEF TypeOK
<1>2. \A i \in bound : i \in 1 .. 4 /\ EventHandles(ev)[i] \in HandleSet(ev) \cap DOMAIN aliases
  BY <1>1 DEF HandleSet
<1>3. bound # {}
  BY DEF HandleSet
<1>4. first \in bound /\ \A j \in bound : first <= j
  BY <1>3, FirstOfFour
<1>5. EventHandles(ev)[1] = <<"name", ev.label>>
  BY DEF EventHandles
<1>6. <<"name", ev.label>> \in DOMAIN aliases => h = <<"name", ev.label>>
  <2> SUFFICES ASSUME <<"name", ev.label>> \in DOMAIN aliases
               PROVE  first = 1
    BY <1>5
  <2>1. 1 \in bound
    BY <1>5
  <2> HIDE DEF bound, first
  <2> QED BY <1>2, <1>4, <2>1
<1>7. ResolveID(ev) = IF IsMACID(derived) /\ ~IsMACID(aliases[h])
                      THEN [id |-> derived, old |-> aliases[h]]
                      ELSE [id |-> aliases[h], old |-> aliases[h]]
  <2>1. ResolveID(ev) =
          IF ev.id # NoID THEN [id |-> ev.id, old |-> ev.id]
          ELSE IF bound # {}
               THEN IF IsMACID(derived) /\ ~IsMACID(aliases[h])
                    THEN [id |-> derived, old |-> aliases[h]]
                    ELSE [id |-> aliases[h], old |-> aliases[h]]
          ELSE IF Cardinality(matches) = 1
               THEN IF IsMACID(derived)
                    THEN [id |-> derived, old |-> match]
                    ELSE [id |-> match, old |-> match]
          ELSE [id |-> derived, old |-> derived]
    BY DEF ResolveID
  <2> HIDE DEF bound, h, derived, matches, match
  <2> QED BY <1>3, <2>1
<1>8. h \in HandleSet(ev) \cap DOMAIN aliases
  BY <1>2, <1>4
<1> HIDE DEF bound, h, matches, match
<1>9. /\ Folded(ev) = aliases[h]
      /\ Target(ev) = IF IsMACID(derived) /\ ~IsMACID(aliases[h]) THEN derived ELSE aliases[h]
  <2> HIDE DEF derived
  <2> QED BY <1>7 DEF Target, Folded
<1> QED BY <1>6, <1>8, <1>9

\* A device the operator did not list goes by what some backend identifies it by.
Identified ==
    \A i \in DOMAIN devices :
        i[1] = "static" \/ \E g \in Announcements : g.id = NoID /\ i = DeriveID(g)

\* The forms a derived identity takes, and the handles of an observation.
LEMMA HandleForms ==
    ASSUME NEW ev \in Announcements
    PROVE  /\ \/ IsMACID(DeriveID(ev))
              \/ DeriveID(ev) = <<"shortid", ev.label>>
              \/ DeriveID(ev) = <<"name", ev.label>> /\ LabelHex[ev.label] \notin Macs
           /\ \A x \in HandleSet(ev) :
                 \/ x = <<"name", ev.label>>
                 \/ IsMACID(x) /\ x = DeriveID(ev)
                 \/ ev.txtId # NoHex /\ x = <<"name", ev.txtId>>
                 \/ x = DeriveID(ev)
<1>1. /\ \/ IsMACID(DeriveID(ev))
         \/ DeriveID(ev) = <<"shortid", ev.label>>
         \/ DeriveID(ev) = <<"name", ev.label>> /\ LabelHex[ev.label] \notin Macs
      /\ ev.txtMac # NoHex => DeriveID(ev) = <<"mac", ev.txtMac>>
  BY DEF DeriveID, IsMACID
<1> DEFINE hs == EventHandles(ev)
<1>2. /\ hs[1] = <<"name", ev.label>>
      /\ hs[2] = IF ev.txtMac = NoHex THEN NoHandle ELSE <<"mac", ev.txtMac>>
      /\ hs[3] = IF ev.txtId = NoHex THEN NoHandle ELSE <<"name", ev.txtId>>
      /\ hs[4] = DeriveID(ev)
  BY DEF EventHandles
<1>3. \A x \in HandleSet(ev) : x # NoHandle /\ x \in {hs[1], hs[2], hs[3], hs[4]}
  <2>1. \A i \in 1 .. 4 : i \in {1, 2, 3, 4}
    OBVIOUS
  <2> QED BY <2>1 DEF HandleSet
<1> HIDE DEF hs
<1> QED BY <1>1, <1>2, <1>3 DEF IsMACID

\* A device whose own ID an observation carries is the one the observation is for, or is
\* folded into it.
LEMMA HandleTaken ==
    ASSUME NEW board, OneBoardEach(board), Gen1ByNameOrMAC(board), IdentitiesApart,
           TypeOK, AttributionInv(board), Gen1Single(board), Identified, OwnHandle,
           NEW ev \in Announcements, NEW x \in HandleSet(ev), x \in DOMAIN devices
    PROVE  x \in {Target(ev), Folded(ev)}
<1> DEFINE b       == board[ev.label]
           derived == DeriveID(ev)
<1>1. x \in DOMAIN aliases /\ aliases[x] = x
  BY DEF OwnHandle
<1>2. /\ BoardOf(board, x) = b /\ BoardOf(board, derived) = b
      /\ derived[1] = "shortid" => derived = <<"shortid", ev.label>>
  BY HandlesOfBoard
<1>3. derived \in ID /\ x \in ID
  BY DeriveIDType DEF TypeOK
<1>4. CASE ev.id # NoID
  <2>1. PICK g \in Announcements : g.id = NoID /\ x = DeriveID(g)
    <3>1. x[1] # "static"
      <4>1. x = <<"name", ev.label>> \/ IsMACID(x) \/ x = <<"name", ev.txtId>> \/ x = derived
        BY HandleForms
      <4>2. derived[1] # "static"
        BY HandleForms DEF IsMACID
      <4> HIDE DEF derived
      <4> QED BY <4>1, <4>2 DEF IsMACID
    <3> QED BY <3>1 DEF Identified
  <2> QED BY <1>4, <2>1 DEF IdentitiesApart
<1>5. CASE ev.id = NoID
  <2>1. PICK h \in HandleSet(ev) \cap DOMAIN aliases :
              /\ Folded(ev) = aliases[h]
              /\ Target(ev) = IF IsMACID(derived) /\ ~IsMACID(aliases[h])
                              THEN derived ELSE aliases[h]
              /\ <<"name", ev.label>> \in DOMAIN aliases => h = <<"name", ev.label>>
    <3>1. HandleSet(ev) \cap DOMAIN aliases # {}
      BY <1>1
    <3> QED BY <1>5, <3>1, OwnerFirst
  <2> DEFINE owner == aliases[h]
  <2>2. owner \in DOMAIN devices /\ owner \in ID /\ BoardOf(board, owner) = b
    BY HandlesOfBoard DEF AttributionInv, NoDanglingHandle, Attributed, TypeOK
  <2>3. CASE x = <<"name", ev.label>>
    BY <1>1, <2>1, <2>3
  <2>4. CASE IsMACID(x) /\ x = derived
    <3>1. IsMACID(owner) => owner = x
      BY <1>2, <1>3, <2>2, <2>4 DEF BoardOf, IsMACID, ID
    <3> QED BY <2>1, <2>4, <3>1
  <2>5. CASE derived[1] = "shortid" /\ x = derived
    <3>1. Gen1Board(board, b)
      BY <2>5 DEF Gen1Board
    <3>2. owner = x
      BY <1>2, <2>2, <3>1 DEF Gen1Single
    <3> QED BY <2>1, <3>2
  <2>6. CASE ev.txtId # NoHex /\ x = <<"name", ev.txtId>> /\ ev.txtId # ev.label
    <3>1. LabelHex[ev.txtId] \in Macs
      BY <2>6 DEF IdentitiesApart
    <3>2. PICK g \in Announcements : x = DeriveID(g)
      BY <2>6 DEF Identified
    <3>3. x = <<"name", g.label>> /\ LabelHex[g.label] \notin Macs
      BY <2>6, <3>2, HandleForms DEF IsMACID
    <3>4. g.label = ev.txtId
      BY <2>6, <3>3
    <3> QED BY <3>1, <3>3, <3>4
  <2>7. \/ x = <<"name", ev.label>>
        \/ IsMACID(x) /\ x = derived
        \/ derived[1] = "shortid" /\ x = derived
        \/ ev.txtId # NoHex /\ x = <<"name", ev.txtId>> /\ ev.txtId # ev.label
    <3>1. IsMACID(derived) \/ derived[1] = "shortid" \/ derived = <<"name", ev.label>>
      BY HandleForms
    <3>2. \/ x = <<"name", ev.label>>
          \/ IsMACID(x) /\ x = derived
          \/ ev.txtId # NoHex /\ x = <<"name", ev.txtId>>
          \/ x = derived
      BY HandleForms
    <3> HIDE DEF derived
    <3> QED BY <3>1, <3>2
  <2> QED BY <2>3, <2>4, <2>5, <2>6, <2>7
<1> QED BY <1>4, <1>5

\* An announcement binds what it adds.
LEMMA AddBinds ==
    ASSUME RegistryInv, NEW ev \in Announcements, NEW at \in Stamps, Add(ev, at)
    PROVE  /\ DOMAIN aliases \subseteq DOMAIN aliases'
           /\ Target(ev) \in DOMAIN aliases' /\ aliases'[Target(ev)] = Target(ev)
<1>1. aliases' = Bind(Promoted(ev).aliases, Target(ev), ev)
  BY AddParts
<1>2. DOMAIN aliases \subseteq DOMAIN Promoted(ev).aliases
  <2> DEFINE reg0 == [devices |-> devices, aliases |-> aliases]
  <2>1. reg0.aliases = aliases /\ Promoted(ev) = Promote(reg0, Folded(ev), Target(ev))
    BY DEF Promoted
  <2> HIDE DEF reg0
  <2> QED BY <2>1 DEF Promote
<1> QED BY <1>1, <1>2 DEF Bind

\* An announcement leaves every device its own ID.
LEMMA AddOwned ==
    ASSUME NEW board, OneBoardEach(board), Gen1ByNameOrMAC(board), IdentitiesApart,
           RegistryInv, AttributionInv(board), Gen1Single(board), Identified, OwnHandle,
           NEW ev \in Announcements, NEW at \in Stamps, Add(ev, at)
    PROVE  Identified' /\ OwnHandle'
<1>1. /\ DOMAIN devices' \subseteq DOMAIN devices \cup {Target(ev)}
      /\ Folded(ev) \in DOMAIN devices' => Folded(ev) = Target(ev)
      /\ \A h \in DOMAIN aliases' :
            \/ h \in DOMAIN aliases /\ aliases'[h] = aliases[h]
            \/ /\ aliases'[h] = Target(ev)
               /\ \/ h \in HandleSet(ev) \cup {Target(ev)}
                  \/ h = Folded(ev) /\ Folded(ev) \in DOMAIN devices
                  \/ h \in DOMAIN aliases /\ aliases[h] = Folded(ev)
  BY AddEffect
<1>2. /\ DOMAIN aliases \subseteq DOMAIN aliases'
      /\ Target(ev) \in DOMAIN aliases' /\ aliases'[Target(ev)] = Target(ev)
  BY AddBinds
<1>3. \A x \in HandleSet(ev) \cap DOMAIN devices : x \in {Target(ev), Folded(ev)}
  BY HandleTaken DEF RegistryInv
<1>4. ASSUME NEW i \in DOMAIN devices'
      PROVE  i \in DOMAIN aliases' /\ aliases'[i] = i
  <2>1. CASE i = Target(ev)
    BY <1>2, <2>1
  <2>2. CASE i # Target(ev)
    <3>1. i \in DOMAIN devices /\ i # Folded(ev)
      BY <1>1, <2>2
    <3>2. i \notin HandleSet(ev) /\ i \in DOMAIN aliases /\ aliases[i] = i
      BY <1>3, <2>2, <3>1 DEF OwnHandle
    <3> QED BY <1>1, <1>2, <2>2, <3>1, <3>2
  <2> QED BY <2>1, <2>2
<1>5. \/ Target(ev)[1] = "static"
      \/ Target(ev) \in DOMAIN devices
      \/ ev.id = NoID /\ Target(ev) = DeriveID(ev)
  <2>1. ev.id # NoID => ev.id[1] = "static"
    BY RegistryAssumption DEF Announcement
  <2>2. \A h \in HandleSet(ev) \cap DOMAIN aliases : aliases[h] \in DOMAIN devices
    BY DEF AttributionInv, NoDanglingHandle
  <2>3. \A m \in ShortIDMatches(ev, DeriveID(ev)) : m \in DOMAIN devices
    BY DEF ShortIDMatches
  <2>4. \/ ev.id # NoID /\ Target(ev) = ev.id
        \/ /\ ev.id = NoID
           /\ \/ \E h \in HandleSet(ev) \cap DOMAIN aliases :
                    Target(ev) \in {aliases[h], DeriveID(ev)}
              \/ \E m \in ShortIDMatches(ev, DeriveID(ev)) : Target(ev) \in {m, DeriveID(ev)}
              \/ Target(ev) = DeriveID(ev)
    BY ResolveIDCases DEF RegistryInv, AttributionInv
  <2> QED BY <2>1, <2>2, <2>3, <2>4
<1>6. \A i \in DOMAIN devices' :
         i[1] = "static" \/ \E g \in Announcements : g.id = NoID /\ i = DeriveID(g)
  BY <1>1, <1>5 DEF Identified
<1> QED BY <1>4, <1>6 DEF OwnHandle, Identified

\* Every device is found under its own ID: once one observation carries two identities,
\* no device is left under the weaker of them.
LEMMA OwnHandleKept ==
    ASSUME NEW board, OneBoardEach(board), Gen1ByNameOrMAC(board), IdentitiesApart,
           RegistryInv, AttributionInv(board), Gen1Single(board), Identified, OwnHandle,
           [Next]_vars
    PROVE  Identified' /\ OwnHandle'
<1>1. CASE OnlyAges
  BY <1>1 DEF OnlyAges, Identified, OwnHandle
<1>2. CASE \E ev \in Announcements, at \in Stamps : Add(ev, at)
  BY <1>2, AddOwned
<1> QED BY <1>1, <1>2, RegistryStep

\* One physical device, one identity: a Gen1 Shelly known by its short id and by its MAC is
\* one device, no observation is filed under another MAC, and two identities that one
\* observation carries are one device from then on, in whatever order names, MACs, hints
\* and expiry come.
THEOREM IdentityIsOne ==
    ASSUME NEW board, OneBoardEach(board), Gen1ByNameOrMAC(board), IdentitiesApart
    PROVE  Spec => []OneIdentity
<1>1. Init => Gen1Single(board)
  BY DEF Init, Gen1Single
<1>2. ASSUME RegistryInv, AttributionInv(board), Gen1Single(board), [Next]_vars
      PROVE  Gen1Single(board)'
  <2>1. CASE OnlyAges
    BY <1>2, <2>1
    DEF OnlyAges, Alike, Gen1Single, Gen1Board, AnnouncedAs, BoardOf, IsMACID
  <2>2. CASE \E ev \in Announcements, at \in Stamps : Add(ev, at)
    BY <1>2, <2>2, AddSingle
  <2> QED BY <1>2, <2>1, <2>2, RegistryStep
<1>3. RegistryInv /\ AttributionInv(board) /\ Gen1Single(board) => OneDevicePerGen1Shelly
  <2> SUFFICES ASSUME RegistryInv, AttributionInv(board), Gen1Single(board),
                      NEW short \in DOMAIN devices, NEW full \in DOMAIN devices,
                      short[1] = "shortid", IsMACID(full),
                      LabelHex[short[2]] = MacSuffix[full[2]]
               PROVE  FALSE
    BY DEF OneDevicePerGen1Shelly
  <2>1. PICK g \in Announcements : short = DeriveID(g)
    BY DEF AttributionInv, ShortNamed
  <2>2. short = <<"shortid", g.label>> /\ BoardOf(board, short) = board[g.label]
    BY <2>1, HandlesOfBoard
  <2>3. full[2] \in Macs /\ BoardOf(board, full) = full[2]
    BY DEF RegistryInv, TypeOK, ID, IsMACID, BoardOf
  <2>4. full[2] = board[g.label]
    <3>1. short[2] = g.label
      BY <2>2
    <3>2. MacSuffix[full[2]] = LabelHex[g.label] <=> full[2] = board[g.label]
      BY <2>1, <2>3 DEF OneBoardEach
    <3> QED BY <3>1, <3>2
  <2>5. Gen1Board(board, BoardOf(board, short))
    BY <2>1, <2>2 DEF Gen1Board
  <2>6. full = short
    BY <2>2, <2>3, <2>4, <2>5 DEF Gen1Single
  <2> QED BY <2>6 DEF IsMACID
<1>4. Spec => []OneDevicePerGen1Shelly
  BY <1>1, <1>2, <1>3, RegistryInvariant, AttributionInvariant, PTL DEF Spec
<1>5. Init => Identified /\ OwnHandle
  BY DEF Init, Identified, OwnHandle
<1>6. RegistryInv /\ AttributionInv(board) /\ Gen1Single(board) /\ Identified /\ OwnHandle
        /\ [Next]_vars => (Identified /\ OwnHandle)'
  BY OwnHandleKept
<1>7. Spec => []OwnHandle
  BY <1>1, <1>2, <1>5, <1>6, RegistryInvariant, AttributionInvariant, PTL DEF Spec
<1>8. MacAttribution /\ OneDevicePerGen1Shelly /\ OwnHandle => OneIdentity
  BY DEF OneIdentity
<1> QED BY <1>4, <1>7, <1>8, MacsStayAttributed, PTL

-----------------------------------------------------------------------------
(* The address policy.  Listed is a recursion over Compare; what it computes follows by *)
(* induction, for which the least length that is an exception stands in.                *)

\* A set of naturals has a least element.
LEMMA LeastNat ==
    ASSUME NEW T, T \subseteq Nat, T # {}
    PROVE  \E x \in T : \A y \in T : x <= y
<1>1. PICK x \in T : \A y \in T : ~(<<y, x>> \in OpToRel(<, Nat))
  BY NatLessThanWellFounded, WFMin
<1>2. \A y \in T : ~(y < x)
  BY <1>1 DEF OpToRel
<1> QED BY <1>2

Occurs(a, s) == \E i \in DOMAIN s : s[i] = a

\* The members of S among the first i addresses, in their order.
Picks(f, S, n) ==
    \A i \in 0 .. n : f[i] = IF i = 0 THEN <<>>
                             ELSE IF Compare[i] \in S THEN Append(f[i - 1], Compare[i]) ELSE f[i - 1]

LEMMA PicksExist ==
    ASSUME NEW S, NEW n \in Nat
    PROVE  \E f : Picks(f, S, n)
<1> DEFINE Stuck == {k \in Nat : ~\E f : Picks(f, S, k)}
<1> SUFFICES ASSUME Stuck # {}
             PROVE  FALSE
  OBVIOUS
<1>1. PICK k \in Stuck : \A m \in Stuck : k <= m
  BY LeastNat
<1>2. k # 0
  <2>1. Picks([i \in {0} |-> <<>>], S, 0)
    BY DEF Picks
  <2> QED BY <2>1
<1>3. PICK f : Picks(f, S, k - 1)
  <2>1. k - 1 \in Nat /\ ~(k <= k - 1)
    BY <1>2
  <2>2. k - 1 \notin Stuck
    BY <1>1, <2>1
  <2> QED BY <2>1, <2>2
<1> DEFINE last == IF Compare[k] \in S THEN Append(f[k - 1], Compare[k]) ELSE f[k - 1]
           g == [i \in 0 .. k |-> IF i = k THEN last ELSE f[i]]
<1>4. Picks(g, S, k)
  <2> SUFFICES ASSUME NEW i \in 0 .. k
               PROVE  g[i] = IF i = 0 THEN <<>>
                             ELSE IF Compare[i] \in S THEN Append(g[i - 1], Compare[i]) ELSE g[i - 1]
    BY DEF Picks
  <2> HIDE DEF last
  <2>1. CASE i = k
    <3>1. g[i] = last /\ g[i - 1] = f[k - 1] /\ i # 0
      BY <1>2, <2>1
    <3> QED BY <2>1, <3>1 DEF last
  <2>2. CASE i # k
    <3>1. i \in 0 .. k - 1 /\ g[i] = f[i] /\ (i # 0 => g[i - 1] = f[i - 1])
      BY <2>2
    <3> HIDE DEF g
    <3> QED BY <1>3, <3>1 DEF Picks
  <2> QED BY <2>1, <2>2
<1> QED BY <1>4

\* Listed(S) lists the members of S that Compare lists, and nothing else.
LEMMA ListedIs ==
    ASSUME NEW S
    PROVE  /\ Listed(S) \in Seq(Addrs)
           /\ \A a : Occurs(a, Listed(S)) <=> a \in S /\ Occurs(a, Compare)
<1> DEFINE N == Len(Compare)
           Step(f, i) == IF i = 0 THEN <<>>
                         ELSE IF Compare[i] \in S THEN Append(f[i - 1], Compare[i]) ELSE f[i - 1]
           upTo == CHOOSE f : f = [i \in 0 .. N |-> Step(f, i)]
<1>1. Compare \in Seq(Addrs) /\ N \in Nat /\ DOMAIN Compare = 1 .. N
  BY AddressAssumption
<1>2. \E f : f = [i \in 0 .. N |-> Step(f, i)]
  <2>1. PICK f : Picks(f, S, N)
    BY <1>1, PicksExist
  <2> DEFINE g == [i \in 0 .. N |-> f[i]]
  <2>2. \A i \in 0 .. N : f[i] = Step(f, i)
    BY <2>1 DEF Picks
  <2>3. \A i \in 0 .. N : g[i] = Step(g, i)
    BY <1>1, <2>2
  <2>4. g = [i \in 0 .. N |-> Step(g, i)]
    BY <2>3
  <2> QED BY <2>4
<1>3. upTo = [i \in 0 .. N |-> Step(upTo, i)]
  BY <1>2
<1>4. Listed(S) = IF S = {} THEN <<>> ELSE upTo[N]
  BY DEF Listed
<1> HIDE DEF upTo
<1>5. \A i \in 0 .. N : upTo[i] = Step(upTo, i)
  BY <1>3
<1> DEFINE Right(i) == /\ upTo[i] \in Seq(Addrs)
                       /\ \A a : Occurs(a, upTo[i]) <=> a \in S /\ \E j \in 1 .. i : Compare[j] = a
           Wrong == {i \in 0 .. N : ~Right(i)}
<1>6. Wrong = {}
  <2> SUFFICES ASSUME Wrong # {}
               PROVE  FALSE
    OBVIOUS
  <2>1. PICK i \in Wrong : \A m \in Wrong : i <= m
    <3>1. Wrong \subseteq Nat
      BY <1>1
    <3> HIDE DEF Wrong
    <3> QED BY <3>1, LeastNat
  <2>2. i # 0
    <3>1. upTo[0] = <<>>
      BY <1>1, <1>5
    <3>2. Right(0)
      BY <3>1 DEF Occurs
    <3> QED BY <3>2
  <2>3. Right(i - 1)
    <3>1. i - 1 \in 0 .. N /\ ~(i <= i - 1)
      BY <1>1, <2>2
    <3> HIDE DEF Right
    <3> QED BY <2>1, <3>1
  <2> DEFINE s == upTo[i - 1]
             c == Compare[i]
  <2>4. i \in 1 .. N /\ c \in Addrs
    BY <1>1, <2>2
  <2>5. upTo[i] = IF c \in S THEN Append(s, c) ELSE s
    BY <1>5, <2>2
  <2>6. s \in Seq(Addrs) /\ \A a : Occurs(a, s) <=> a \in S /\ \E j \in 1 .. i - 1 : Compare[j] = a
    BY <2>3
  <2> HIDE DEF s
  <2>7. \A a : Occurs(a, Append(s, c)) <=> Occurs(a, s) \/ a = c
    <3>1. /\ DOMAIN Append(s, c) = 1 .. Len(s) + 1 /\ DOMAIN s = 1 .. Len(s) /\ Len(s) \in Nat
          /\ Append(s, c)[Len(s) + 1] = c /\ \A j \in 1 .. Len(s) : Append(s, c)[j] = s[j]
      BY <2>4, <2>6
    <3> HIDE DEF c
    <3> QED BY <3>1 DEF Occurs
  <2>8. \A a : (\E j \in 1 .. i : Compare[j] = a) <=> (\E j \in 1 .. i - 1 : Compare[j] = a) \/ a = c
    <3>1. \A j : j \in 1 .. i <=> j \in 1 .. i - 1 \/ j = i
      BY <2>4
    <3> QED BY <3>1
  <2>9. upTo[i] \in Seq(Addrs)
    BY <2>4, <2>5, <2>6
  <2> HIDE DEF c
  <2>10. \A a : Occurs(a, upTo[i]) <=> a \in S /\ \E j \in 1 .. i : Compare[j] = a
    BY <2>5, <2>6, <2>7, <2>8
  <2> QED BY <2>9, <2>10
<1>7. Right(N)
  <2>1. N \in 0 .. N
    BY <1>1
  <2> HIDE DEF Right, N
  <2> QED BY <1>6, <2>1
<1> QED BY <1>1, <1>4, <1>7 DEF Occurs

LEMMA OccursConcat ==
    ASSUME NEW S, NEW s \in Seq(S), NEW t \in Seq(S), NEW a
    PROVE  /\ s \o t \in Seq(S)
           /\ Occurs(a, s \o t) <=> Occurs(a, s) \/ Occurs(a, t)
<1> DEFINE u == s \o t
<1>1. /\ u \in Seq(S) /\ DOMAIN u = 1 .. Len(s) + Len(t)
      /\ DOMAIN s = 1 .. Len(s) /\ DOMAIN t = 1 .. Len(t) /\ Len(s) \in Nat /\ Len(t) \in Nat
      /\ \A i \in 1 .. Len(s) + Len(t) : u[i] = IF i <= Len(s) THEN s[i] ELSE t[i - Len(s)]
  BY ConcatProperties
<1> HIDE DEF u
<1>2. Occurs(a, u) => Occurs(a, s) \/ Occurs(a, t)
  <2> SUFFICES ASSUME NEW i \in 1 .. Len(s) + Len(t), u[i] = a
               PROVE  Occurs(a, s) \/ Occurs(a, t)
    BY <1>1 DEF Occurs
  <2>1. CASE i <= Len(s)
    BY <1>1, <2>1 DEF Occurs
  <2>2. CASE ~(i <= Len(s))
    <3>1. i - Len(s) \in 1 .. Len(t) /\ t[i - Len(s)] = a
      BY <1>1, <2>2
    <3> QED BY <1>1, <3>1 DEF Occurs
  <2> QED BY <2>1, <2>2
<1>3. Occurs(a, s) => Occurs(a, u)
  <2> SUFFICES ASSUME NEW i \in 1 .. Len(s), s[i] = a
               PROVE  Occurs(a, u)
    BY <1>1 DEF Occurs
  <2>1. i \in 1 .. Len(s) + Len(t) /\ u[i] = a
    BY <1>1
  <2> QED BY <1>1, <2>1 DEF Occurs
<1>4. Occurs(a, t) => Occurs(a, u)
  <2> SUFFICES ASSUME NEW i \in 1 .. Len(t), t[i] = a
               PROVE  Occurs(a, u)
    BY <1>1 DEF Occurs
  <2> DEFINE j == Len(s) + i
  <2>1. j \in 1 .. Len(s) + Len(t) /\ ~(j <= Len(s)) /\ j - Len(s) = i
    BY <1>1
  <2> HIDE DEF j
  <2>2. u[j] = t[i]
    BY <1>1, <2>1
  <2> QED BY <1>1, <2>1, <2>2 DEF Occurs
<1> QED BY <1>1, <1>2, <1>3, <1>4 DEF u

\* s begins with a.
Leads(a, s) == s # <<>> /\ s[1] = a

\* slices.Insert after slices.Delete: an address of the list leads it, no other joins it.
LEMMA MovedToFront ==
    ASSUME NEW s \in Seq(Addrs), NEW p \in Addrs
    PROVE  LET m == MoveToFront(s, p) IN
           /\ m \in Seq(Addrs)
           /\ Occurs(p, m) <=> Occurs(p, s)
           /\ Leads(p, m) <=> Occurs(p, s)
<1> DEFINE at == {i \in DOMAIN s : s[i] = p}
           n  == IndexOf(s, p)
           m  == MoveToFront(s, p)
<1>1. DOMAIN s = 1 .. Len(s) /\ Len(s) \in Nat
  OBVIOUS
<1>2. CASE at = {}
  <2>1. ~Occurs(p, s)
    BY <1>2 DEF Occurs
  <2>2. m = s
    BY <1>2 DEF MoveToFront, IndexOf
  <2>3. s # <<>> => 1 \in DOMAIN s
    BY <1>1
  <2> HIDE DEF m
  <2> QED BY <2>1, <2>2, <2>3 DEF Leads, Occurs, m
<1>3. CASE at # {}
  <2>1. Occurs(p, s)
    BY <1>3 DEF Occurs
  <2>2. PICK i \in at : \A j \in at : i <= j
    <3>1. at \subseteq Nat
      BY <1>1
    <3> HIDE DEF at
    <3> QED BY <1>3, <3>1, LeastNat
  <2>3. \A j \in 1 .. i - 1 : s[j] # p
    <3> SUFFICES ASSUME NEW j \in 1 .. i - 1, s[j] = p
                 PROVE  FALSE
      OBVIOUS
    <3>1. j \in at /\ ~(i <= j)
      BY <1>1
    <3> QED BY <2>2, <3>1
  <2>4. n \in DOMAIN s /\ s[n] = p
    BY <2>2, <2>3 DEF IndexOf
  <2> HIDE DEF n, at
  <2>5. Leads(p, m) /\ m \in Seq(Addrs)
    <3>1. CASE n > 1
      <4> DEFINE before == SubSeq(s, 1, n - 1)
                 after  == SubSeq(s, n + 1, Len(s))
                 rest   == before \o after
      <4>1. before \in Seq(Addrs) /\ after \in Seq(Addrs)
        BY <1>1, <2>4, <3>1, SubSeqProperties
      <4>2. m = <<p>> \o before \o after
        BY <3>1 DEF MoveToFront, n
      <4> HIDE DEF before, after
      <4>3. <<p>> \in Seq(Addrs) /\ Len(<<p>>) = 1 /\ <<p>>[1] = p
        OBVIOUS
      <4>4. LET u == <<p>> \o before IN u \in Seq(Addrs) /\ Len(u) >= 1 /\ u[1] = p
        BY <4>1, <4>3, ConcatProperties
      <4> DEFINE u == <<p>> \o before
      <4>5. u \in Seq(Addrs) /\ Len(u) >= 1 /\ u[1] = p /\ m = u \o after
        BY <4>2, <4>4
      <4> HIDE DEF u, m
      <4>6. m \in Seq(Addrs) /\ Len(m) >= 1 /\ m[1] = p
        BY <4>1, <4>5, ConcatProperties
      <4> QED BY <4>6 DEF Leads
    <3>2. CASE ~(n > 1)
      <4>1. n = 1 /\ m = s
        BY <1>1, <2>4, <3>2 DEF MoveToFront, n
      <4> QED BY <1>1, <2>4, <4>1 DEF Leads
    <3> QED BY <3>1, <3>2
  <2> HIDE DEF m
  <2>6. Occurs(p, m)
    BY <2>5 DEF Leads, Occurs
  <2> QED BY <2>1, <2>5, <2>6 DEF m
<1> QED BY <1>2, <1>3

\* What OrderCandidates dials of the addresses it is given, the pinned one first.
Dialled(p, trusted, discovered) ==
    /\ Occurs(p, Compare)
    /\ p \in trusted \/ (p \in discovered /\ Usable(p) /\ \E i \in 1 .. 5 : Score(p) = Tiers[i])

\* The pinned address leads exactly when it is dialled at all.
THEOREM PinnedLeads ==
    ASSUME NEW trusted, NEW discovered, NEW p \in Addrs
    PROVE  LET s == OrderCandidates(Listed(trusted), discovered, p) IN
           Leads(p, s) <=> Dialled(p, trusted, discovered)
<1> DEFINE candidates == {a \in discovered : Usable(a)}
           Tier(n) == Listed({a \in candidates : Score(a) = n})
           t1 == Tier(Tiers[1])
           t2 == Tier(Tiers[2])
           t3 == Tier(Tiers[3])
           t4 == Tier(Tiers[4])
           t5 == Tier(Tiers[5])
           all == t1 \o t2 \o t3 \o t4 \o t5
<1>1. \A n : /\ Tier(n) \in Seq(Addrs)
             /\ Occurs(p, Tier(n)) <=> p \in candidates /\ Score(p) = n /\ Occurs(p, Compare)
  BY ListedIs
<1>2. /\ Order(candidates, p) = MoveToFront(all, p)
      /\ OrderCandidates(Listed(trusted), discovered, p) =
            MoveToFront(Listed(trusted) \o Order(candidates, p), p)
  BY DEF Order, OrderCandidates
<1>3. /\ t1 \in Seq(Addrs) /\ t2 \in Seq(Addrs) /\ t3 \in Seq(Addrs)
      /\ t4 \in Seq(Addrs) /\ t5 \in Seq(Addrs)
  BY <1>1
<1>4. /\ Occurs(p, t1) <=> p \in candidates /\ Score(p) = Tiers[1] /\ Occurs(p, Compare)
      /\ Occurs(p, t2) <=> p \in candidates /\ Score(p) = Tiers[2] /\ Occurs(p, Compare)
      /\ Occurs(p, t3) <=> p \in candidates /\ Score(p) = Tiers[3] /\ Occurs(p, Compare)
      /\ Occurs(p, t4) <=> p \in candidates /\ Score(p) = Tiers[4] /\ Occurs(p, Compare)
      /\ Occurs(p, t5) <=> p \in candidates /\ Score(p) = Tiers[5] /\ Occurs(p, Compare)
  BY <1>1
<1> HIDE DEF t1, t2, t3, t4, t5, candidates
<1>5. /\ all \in Seq(Addrs)
      /\ Occurs(p, all) <=> \/ Occurs(p, t1) \/ Occurs(p, t2) \/ Occurs(p, t3)
                            \/ Occurs(p, t4) \/ Occurs(p, t5)
  <2> DEFINE u2 == t1 \o t2
             u3 == u2 \o t3
             u4 == u3 \o t4
  <2>1. u2 \in Seq(Addrs) /\ (Occurs(p, u2) <=> Occurs(p, t1) \/ Occurs(p, t2))
    BY <1>3, OccursConcat
  <2> HIDE DEF u2
  <2>2. u3 \in Seq(Addrs) /\ (Occurs(p, u3) <=> Occurs(p, u2) \/ Occurs(p, t3))
    BY <1>3, <2>1, OccursConcat
  <2> HIDE DEF u3
  <2>3. u4 \in Seq(Addrs) /\ (Occurs(p, u4) <=> Occurs(p, u3) \/ Occurs(p, t4))
    BY <1>3, <2>2, OccursConcat
  <2> HIDE DEF u4
  <2>4. /\ u4 \o t5 \in Seq(Addrs)
        /\ Occurs(p, u4 \o t5) <=> Occurs(p, u4) \/ Occurs(p, t5)
    BY <1>3, <2>3, OccursConcat
  <2>5. all = u4 \o t5
    BY DEF u2, u3, u4
  <2> HIDE DEF all
  <2> QED BY <2>1, <2>2, <2>3, <2>4, <2>5
<1> HIDE DEF all
<1> DEFINE order == Order(candidates, p)
           s == Listed(trusted) \o order
<1>6. order \in Seq(Addrs) /\ (Occurs(p, order) <=> Occurs(p, all))
  BY <1>2, <1>5, MovedToFront
<1>7. /\ Listed(trusted) \in Seq(Addrs)
      /\ Occurs(p, Listed(trusted)) <=> p \in trusted /\ Occurs(p, Compare)
  BY ListedIs
<1> HIDE DEF order
<1>8. s \in Seq(Addrs) /\ (Occurs(p, s) <=> Occurs(p, Listed(trusted)) \/ Occurs(p, order))
  BY <1>6, <1>7, OccursConcat
<1>9. OrderCandidates(Listed(trusted), discovered, p) = MoveToFront(s, p)
  BY <1>2 DEF order
<1> HIDE DEF s
<1>10. Leads(p, MoveToFront(s, p)) <=> Occurs(p, s)
  BY <1>8, MovedToFront
<1>11. p \in candidates <=> p \in discovered /\ Usable(p)
  BY DEF candidates
<1>12. Occurs(p, s) <=> Dialled(p, trusted, discovered)
  <2>1. (\E i \in 1 .. 5 : Score(p) = Tiers[i]) <=>
           \/ Score(p) = Tiers[1] \/ Score(p) = Tiers[2] \/ Score(p) = Tiers[3]
           \/ Score(p) = Tiers[4] \/ Score(p) = Tiers[5]
    <3>1. \A i : i \in 1 .. 5 <=> i \in {1, 2, 3, 4, 5}
      OBVIOUS
    <3> QED BY <3>1, Zenon
  <2> QED BY <1>4, <1>5, <1>6, <1>7, <1>8, <1>11, <2>1 DEF Dialled
<1> QED BY <1>9, <1>10, <1>12

-----------------------------------------------------------------------------
(* The address that answers *)

\* What the pin of a device stands for: an address that answered at lastSuccess, and every
\* endpoint there was announced or scraped since, but for the lag of its stamp.
Pinned(dev, time) ==
    /\ dev.lastSuccess <= time
    /\ dev.lastSuccess > 0 => dev.pinned \in Addrs
    /\ \A k \in DOMAIN dev.endpoints :
          dev.endpoints[k].addr = dev.pinned =>
             dev.lastSuccess <= dev.endpoints[k].observedAt + MaxLag

AllPinned == \A id \in DOMAIN devices : Pinned(devices[id], now)

\* The times of a device and of its endpoints.
LEMMA TimesOf ==
    ASSUME NEW dev, DeviceState(dev)
    PROVE  /\ dev.lastSuccess \in Nat
           /\ EndpointMap(dev.endpoints)
           /\ \A k \in DOMAIN dev.endpoints :
                 dev.endpoints[k] \in Endpoint /\ dev.endpoints[k].observedAt \in Nat
           /\ MaxLag \in Nat /\ EndpointTTL \in Nat /\ RemoveGrace \in Nat
<1>1. EndpointMap(dev.endpoints)
  BY DEF DeviceState
<1>2. Time \subseteq Nat /\ MaxLag \in Nat /\ EndpointTTL \in Nat /\ RemoveGrace \in Nat
  BY RegistryAssumption DEF Time
<1>3. dev.lastSuccess \in Nat
  BY <1>2 DEF DeviceState
<1>4. \A k \in DOMAIN dev.endpoints : dev.endpoints[k] \in Endpoint
  BY <1>1 DEF EndpointMap
<1>5. \A k \in DOMAIN dev.endpoints : dev.endpoints[k].observedAt \in Nat
  BY <1>2, <1>4 DEF Endpoint
<1> QED BY <1>1, <1>2, <1>3, <1>4, <1>5

LEMMA KeepsPinned ==
    ASSUME NEW dev, NEW r, NEW time, Keeps(dev, r), Pinned(dev, time)
    PROVE  Pinned(r, time)
BY DEF Keeps, Pinned

\* An announcement is stamped at most MaxLag ago, and a success no later than now.
LEMMA ObservePinned ==
    ASSUME NEW dev, DeviceState(dev), Pinned(dev, now), now \in Time,
           NEW ev \in Announcements, NEW at \in Stamps
    PROVE  Pinned(Observe(dev, ev, at), now)
<1> DEFINE r == Observe(dev, ev, at)
<1>1. at \in Time /\ at \in Nat /\ now \in Nat /\ now <= at + MaxLag
  <2>1. at \in 1 .. now /\ now - at <= MaxLag /\ MaxLag \in Nat /\ now \in Nat
    BY RegistryAssumption DEF Stamps, Time
  <2> QED BY <2>1, StampsInTime
<1>2. /\ r.pinned = dev.pinned /\ r.lastSuccess = dev.lastSuccess
      /\ \A k \in DOMAIN r.endpoints :
            \/ k \in DOMAIN dev.endpoints /\ r.endpoints[k] = dev.endpoints[k]
            \/ r.endpoints[k].observedAt = at
  BY <1>1, ObserveDerived
<1> HIDE DEF r
<1>3. dev.lastSuccess <= at + MaxLag
  <2>1. dev.lastSuccess \in Nat /\ MaxLag \in Nat /\ dev.lastSuccess <= now
    BY TimesOf DEF Pinned
  <2> QED BY <1>1, <2>1
<1>4. \A k \in DOMAIN r.endpoints : r.endpoints[k].addr = r.pinned =>
         r.lastSuccess <= r.endpoints[k].observedAt + MaxLag
  BY <1>2, <1>3 DEF Pinned
<1> QED BY <1>2, <1>4 DEF Pinned, r

\* A success renews the endpoints of the address it pins.
LEMMA ScrapedPinned ==
    ASSUME NEW dev, Derived(dev), now \in Time, NEW addr \in Addrs, NEW at \in Stamps
    PROVE  Pinned(Scraped(dev, addr, at), now)
<1> DEFINE r == Scraped(dev, addr, at)
<1>1. at \in Time /\ at \in Nat /\ at <= now /\ MaxLag \in Nat
  BY RegistryAssumption, StampsInTime DEF Stamps, Time
<1>2. r.pinned = addr /\ r.lastSuccess = at /\ r.endpoints = Renewed(dev.endpoints, addr, at)
  BY <1>1, ScrapedDerived
<1> HIDE DEF r
<1>3. \A k \in DOMAIN dev.endpoints : dev.endpoints[k] \in Endpoint
  BY TimesOf DEF Derived
<1>4. \A k \in DOMAIN r.endpoints : r.endpoints[k].addr = addr => r.endpoints[k].observedAt = at
  <2> DEFINE Again(e) == [e EXCEPT !.unverified = FALSE, !.observedAt = at]
  <2>1. \A e \in Endpoint : Again(e).observedAt = at
    BY DEF Endpoint
  <2>2. /\ DOMAIN r.endpoints = DOMAIN dev.endpoints
        /\ \A k \in DOMAIN dev.endpoints :
              r.endpoints[k] = IF dev.endpoints[k].addr = addr THEN Again(dev.endpoints[k])
                               ELSE dev.endpoints[k]
    BY <1>2 DEF Renewed
  <2> HIDE DEF Again
  <2> SUFFICES ASSUME NEW k \in DOMAIN dev.endpoints, r.endpoints[k].addr = addr
               PROVE  r.endpoints[k].observedAt = at
    BY <2>2
  <2>3. dev.endpoints[k].addr = addr
    BY <2>2
  <2>4. r.endpoints[k] = Again(dev.endpoints[k])
    BY <2>2, <2>3
  <2> QED BY <1>3, <2>1, <2>4
<1> QED BY <1>1, <1>2, <1>4 DEF Pinned, r

\* applyAdd without a merge: the device is the one that was known under either identity,
\* or a new one.
LEMMA AddPinned ==
    ASSUME RegistryInv, AllPinned, NEW ev \in Announcements, NEW at \in Stamps, Add(ev, at),
           ~Merge(ev, at)
    PROVE  AllPinned'
<1> DEFINE t == Target(ev)
           o == Folded(ev)
<1>1. now \in Time /\ now \in Nat
  BY RegistryAssumption DEF RegistryInv, TypeOK, Time
<1>2. o = t \/ o \notin DOMAIN devices \/ t \notin DOMAIN devices
  BY DEF Merge, Target, Folded
<1>3. /\ devices' = [i \in DOMAIN Promoted(ev).devices \cup {t} |->
                        IF i = t THEN Observe(Known(ev), ev, at) ELSE Promoted(ev).devices[i]]
      /\ DeviceState(Known(ev))
  BY AddParts
<1>4. /\ DOMAIN devices' \subseteq DOMAIN devices \cup {t}
      /\ \A i \in DOMAIN devices' \ {t} : devices'[i] = devices[i]
  BY AddEffect
<1>5. devices'[t] = Observe(Known(ev), ev, at)
  BY <1>3
<1>6. Pinned(Known(ev), now)
  <2> DEFINE reg0 == [devices |-> devices, aliases |-> aliases]
  <2>1. reg0.devices = devices
    OBVIOUS
  <2>2. Promoted(ev) = Promote(reg0, o, t)
    BY DEF Promoted
  <2> HIDE DEF reg0, o, t
  <2>3. CASE o = t \/ o \notin DOMAIN devices
    <3>1. Promoted(ev).devices = devices
      BY <2>1, <2>2, <2>3 DEF Promote
    <3>2. CASE t \in DOMAIN devices
      BY <3>1, <3>2 DEF Known, AllPinned, t
    <3>3. CASE t \notin DOMAIN devices
      <4>1. Known(ev) = NewDevice(ev)
        BY <3>1, <3>3 DEF Known, t
      <4> QED BY <1>1, <4>1 DEF NewDevice, Pinned
    <3> QED BY <3>2, <3>3
  <2>4. CASE ~(o = t \/ o \notin DOMAIN devices)
    <3>1. t \notin DOMAIN devices /\ o \in DOMAIN devices
      BY <1>2, <2>4
    <3>2. Known(ev) = RecomputeAddrs(devices[o])
      BY <2>1, <2>2, <2>4, <3>1 DEF Promote, Known, t
    <3>3. DeviceState(devices[o]) /\ Pinned(devices[o], now)
      BY <3>1 DEF RegistryInv, AllDerived, Derived, AllPinned
    <3> DEFINE d == devices[o]
               r == RecomputeAddrs(d)
    <3> HIDE DEF d
    <3>4. DeviceState(d) => Keeps(d, r)
      BY RecomputeType DEF Keeps
    <3> QED BY <3>2, <3>3, <3>4, KeepsPinned DEF d
  <2> QED BY <2>3, <2>4
<1>7. Pinned(devices'[t], now)
  BY <1>1, <1>3, <1>5, <1>6, ObservePinned
<1>8. now' = now
  BY DEF Add
<1> HIDE DEF t
<1> QED BY <1>4, <1>7, <1>8 DEF AllPinned

\* Every step that merges no devices keeps the pins.
LEMMA PinnedStep ==
    ASSUME RegistryInv, AllPinned, [Next]_vars,
           UNCHANGED vars \/ \A ev \in Announcements, at \in Stamps : ~Merge(ev, at)
    PROVE  AllPinned'
<1>1. now \in Time /\ now \in Nat
  BY RegistryAssumption DEF RegistryInv, TypeOK, Time
<1>2. \A i \in DOMAIN devices : Derived(devices[i]) /\ Pinned(devices[i], now)
  BY DEF RegistryInv, AllDerived, AllPinned
<1>3. CASE UNCHANGED <<devices, now>>
  BY <1>2, <1>3 DEF AllPinned
<1>4. ASSUME NEW ev \in Announcements, NEW at \in Stamps, Add(ev, at)
      PROVE  AllPinned'
  <2>1. CASE UNCHANGED vars
    BY <1>3, <2>1 DEF vars
  <2>2. CASE ~Merge(ev, at)
    BY <1>4, <2>2, AddPinned
  <2> QED BY <2>1, <2>2
<1>5. ASSUME NEW ev \in Announcements, NEW at \in Stamps, RemoveHint(ev, at)
      PROVE  AllPinned'
  <2> DEFINE hint == WithoutTXT(ev)
             handle == IF DeriveID(hint) \in DOMAIN aliases THEN DeriveID(hint)
                       ELSE <<"name", hint.label>>
             id == aliases[handle]
             r == Unverify(devices[id], hint.source, {hint.key}, at)
  <2>1. id \in DOMAIN devices /\ devices' = [devices EXCEPT ![id] = r] /\ now' = now
    BY <1>5 DEF RemoveHint
  <2>2. at \in Time
    BY <1>1, StampsInTime
  <2> HIDE DEF hint, id
  <2>3. Keeps(devices[id], r)
    BY <1>2, <2>1, <2>2, UnverifyDerived
  <2> HIDE DEF r
  <2>4. Pinned(r, now)
    BY <1>2, <2>1, <2>3, KeepsPinned
  <2> QED BY <1>2, <2>1, <2>4 DEF AllPinned
<1>6. ASSUME NEW source \in Hinting, NEW at \in Stamps, SourceReset(source, at)
      PROVE  AllPinned'
  <2> DEFINE r(i) == Unverify(devices[i], source, Keys, at)
  <2>1. devices' = [i \in DOMAIN devices |-> r(i)] /\ now' = now
    BY <1>6 DEF SourceReset
  <2>2. at \in Time
    BY <1>1, StampsInTime
  <2>3. \A i \in DOMAIN devices : Keeps(devices[i], r(i))
    BY <1>2, <2>2, UnverifyDerived
  <2> HIDE DEF r
  <2>4. \A i \in DOMAIN devices : Pinned(r(i), now)
    BY <1>2, <2>3, KeepsPinned
  <2> QED BY <2>1, <2>4 DEF AllPinned
<1>7. ASSUME NEW o \in offered, NEW at \in Stamps, ScrapeSuccess(o[1], o[3], at)
      PROVE  AllPinned'
  <2> DEFINE id == o[1]
             r  == Scraped(devices[id], o[3], at)
  <2>1. id \in DOMAIN devices /\ devices' = [devices EXCEPT ![id] = r] /\ now' = now
    BY <1>7 DEF ScrapeSuccess
  <2>2. o[3] \in Addrs
    BY DEF RegistryInv, TypeOK
  <2> HIDE DEF id
  <2>3. Pinned(r, now)
    BY <1>1, <1>2, <2>1, <2>2, ScrapedPinned
  <2> HIDE DEF r
  <2> QED BY <1>2, <2>1, <2>3 DEF AllPinned
<1>8. CASE Expire
  <2> DEFINE kept == {id \in DOMAIN devices : ~Silent(devices[id])}
  <2>1. devices' = [id \in kept |-> Aged(devices[id])] /\ now' = now
    BY <1>8 DEF Expire
  <2>2. \A id \in kept : Keeps(devices[id], Aged(devices[id])) /\ Pinned(devices[id], now)
    BY <1>2, AgedDerived
  <2> HIDE DEF kept
  <2>3. \A id \in kept : Pinned(Aged(devices[id]), now)
    BY <2>2, KeepsPinned
  <2> QED BY <2>1, <2>3 DEF AllPinned
<1>9. CASE Tick
  <2>1. devices' = devices /\ now' = now + 1
    BY <1>9 DEF Tick
  <2>2. \A i \in DOMAIN devices : Pinned(devices[i], now + 1)
    <3> SUFFICES ASSUME NEW i \in DOMAIN devices
                 PROVE  Pinned(devices[i], now + 1)
      OBVIOUS
    <3>1. DeviceState(devices[i]) /\ Pinned(devices[i], now)
      BY <1>2 DEF Derived
    <3>2. devices[i].lastSuccess \in Nat
      BY <3>1, TimesOf
    <3>3. devices[i].lastSuccess <= now + 1
      BY <1>1, <3>1, <3>2 DEF Pinned
    <3> QED BY <3>1, <3>3 DEF Pinned
  <2> QED BY <2>1, <2>2 DEF AllPinned
<1>10. CASE Refresh \/ CoalesceFires \/ Publish \/ UNCHANGED vars
  BY <1>3, <1>10 DEF Refresh, CoalesceFires, Publish, vars
<1> QED BY <1>4, <1>5, <1>6, <1>7, <1>8, <1>9, <1>10 DEF Next

\* A hint is given at most MaxLag late and evicts after RemoveGrace, unless a scrape has
\* answered since; with those two inside EndpointTTL nothing takes the address away.
LEMMA AgedWorking ==
    ASSUME MaxLag + RemoveGrace <= EndpointTTL, now \in Time,
           NEW dev, Derived(dev), Pinned(dev, now),
           dev.lastSuccess > 0, now - dev.lastSuccess <= RemoveGrace,
           Primary(dev) = dev.pinned
    PROVE  Primary(Aged(dev)) = dev.pinned
<1> DEFINE p == dev.pinned
           r == Aged(dev)
           Trusted(eps)    == AddrsWhere(eps, TRUE)
           Discovered(eps) == AddrsWhere(eps, FALSE)
<1>1. /\ p \in Addrs /\ NoAddr \notin Addrs
      /\ dev.addrs = Dialling(dev.endpoints, p)
  BY AddressAssumption DEF Pinned, Derived
<1>2. /\ now \in Nat /\ dev.lastSuccess \in Nat
      /\ MaxLag \in Nat /\ EndpointTTL \in Nat /\ RemoveGrace \in Nat
      /\ \A k \in DOMAIN dev.endpoints :
            dev.endpoints[k] \in Endpoint /\ dev.endpoints[k].observedAt \in Nat
  BY RegistryAssumption, TimesOf DEF Derived, Time
<1>3. \A k \in DOMAIN dev.endpoints :
         dev.endpoints[k].addr = p => ~Outlived(dev, dev.endpoints[k])
  <2> SUFFICES ASSUME NEW k \in DOMAIN dev.endpoints, dev.endpoints[k].addr = p
               PROVE  ~Outlived(dev, dev.endpoints[k])
    OBVIOUS
  <2> DEFINE ep == dev.endpoints[k]
  <2>1. ep.observedAt \in Nat /\ ep.hintAt \in Nat /\ dev.lastSuccess <= ep.observedAt + MaxLag
    BY <1>2, RegistryAssumption DEF Endpoint, Time, Pinned
  <2> HIDE DEF ep
  <2>2. now - ep.observedAt <= EndpointTTL
    BY <1>2, <2>1
  <2>3. now - ep.hintAt > RemoveGrace => ~(dev.lastSuccess < ep.hintAt)
    BY <1>2, <2>1
  <2> QED BY <1>2, <2>1, <2>2, <2>3 DEF Outlived, ep
<1>4. /\ r.addrs = Dialling(r.endpoints, r.pinned) /\ r.pinned = p
      /\ \A k \in DOMAIN dev.endpoints :
            ~Outlived(dev, dev.endpoints[k]) => k \in DOMAIN r.endpoints
      /\ \A k \in DOMAIN r.endpoints : r.endpoints[k] = dev.endpoints[k]
  BY AgedDerived DEF Derived, Keeps
<1> HIDE DEF r
<1>5. \A trust : p \in AddrsWhere(dev.endpoints, trust) => p \in AddrsWhere(r.endpoints, trust)
  BY <1>3, <1>4 DEF AddrsWhere
<1>6. \A eps : Leads(p, Dialling(eps, p)) <=> Dialled(p, Trusted(eps), Discovered(eps))
  BY <1>1, PinnedLeads DEF Dialling
<1>7. Leads(p, dev.addrs)
  BY <1>1 DEF Primary, Leads
<1>8. Dialled(p, Trusted(dev.endpoints), Discovered(dev.endpoints))
  BY <1>1, <1>6, <1>7
<1>9. Dialled(p, Trusted(r.endpoints), Discovered(r.endpoints))
  BY <1>5, <1>8 DEF Dialled
<1>10. Leads(p, r.addrs)
  BY <1>4, <1>6, <1>9
<1> QED BY <1>10 DEF Leads, Primary, r

\* Expiry never takes away the address that answered within RemoveGrace, provided that no
\* two known devices turn out to be one.  The limits must leave room: an announcement may
\* be stamped MaxLag before it is applied, which the configured defaults (45 minutes and 5)
\* allow for.
THEOREM WorkingAddressStays ==
    ASSUME MaxLag + RemoveGrace <= EndpointTTL
    PROVE  Spec /\ NeverMerged => WorkingAddressKept
<1> DEFINE Unmerged == \A ev \in Announcements, at \in Stamps : ~Merge(ev, at)
           Working == Expire => \A id \in DOMAIN devices \cap DOMAIN devices' :
                         LET dev == devices[id] IN
                         /\ dev.lastSuccess > 0
                         /\ now - dev.lastSuccess <= RemoveGrace
                         /\ Primary(dev) = dev.pinned
                         => Primary(devices'[id]) = dev.pinned
<1>1. Init => AllPinned
  BY DEF Init, AllPinned
<1>2. RegistryInv /\ AllPinned /\ [Next]_vars /\ [Unmerged]_vars => AllPinned'
  BY PinnedStep
<1>3. RegistryInv /\ AllPinned => [Working]_vars
  <2> SUFFICES ASSUME RegistryInv, AllPinned, Expire,
                      NEW id \in DOMAIN devices \cap DOMAIN devices',
                      devices[id].lastSuccess > 0,
                      now - devices[id].lastSuccess <= RemoveGrace,
                      Primary(devices[id]) = devices[id].pinned
               PROVE  Primary(devices'[id]) = devices[id].pinned
    BY Zenon
  <2>1. devices'[id] = Aged(devices[id])
    BY DEF Expire
  <2>2. Derived(devices[id]) /\ Pinned(devices[id], now) /\ now \in Time
    BY DEF RegistryInv, AllDerived, AllPinned, TypeOK
  <2> QED BY <2>1, <2>2, AgedWorking
<1>4. WorkingAddressKept <=> [][Working]_vars
  BY DEF WorkingAddressKept
<1>5. NeverMerged <=> [][Unmerged]_vars
  BY DEF NeverMerged
<1> HIDE DEF Working, Unmerged
<1> QED BY <1>1, <1>2, <1>3, <1>4, <1>5, RegistryInvariant, PTL DEF Spec
=============================================================================
