------------------------------- MODULE Registry -------------------------------
(***************************************************************************)
(* The registry actor: internal/registry/{registry,device,identity,        *)
(* snapshot}.go.  One goroutine owns `devices' and `aliases', applies the  *)
(* events of every discovery backend and the outcome of every scrape, and  *)
(* publishes immutable snapshots on a coalescing timer.  Everything the    *)
(* select loop of Run can do is one action here.                           *)
(*                                                                         *)
(* Identities.  A device ID or handle such as "mac:a8032ab1c2d3" is the    *)
(* pair <<"mac", m>>; the other prefixes are "shortid", "name" and         *)
(* "static", over labels (mDNS instance names without their suffix, lower  *)
(* case).  LabelHex gives the hexadecimal tail of a label: a full MAC, a   *)
(* three-byte suffix, or NoHex.                                            *)
(*                                                                         *)
(* Time is in ticks since before the program started, 0 is the zero        *)
(* time.Time.  An event or a result carries the time it was stamped, which *)
(* lags the actor's clock by at most MaxLag: it waited in a channel, and   *)
(* the two channels and several producers are not ordered by that stamp.   *)
(* Not modelled: TXT values, host names, FirstSeen and the counters, which *)
(* nothing in the registry reads back.                                     *)
(***************************************************************************)
EXTENDS AddressPolicy, Functions

CONSTANTS
    Macs,           \* full MAC addresses
    Suffixes,       \* last three bytes of a MAC
    Labels,         \* instance names, and the ids the operator or the cloud gives
    NoHex,          \* a label or a TXT record without a MAC
    NoHandle,       \* a handle the observation does not carry
    MacSuffix,      \* [Macs -> Suffixes]
    LabelHex,       \* [Labels -> Macs \cup Suffixes \cup {NoHex}]
    Sources,        \* discovery backends
    Keys,           \* EndpointKey: (service, interface, protocol) slots
    Ports,
    Announcements,  \* the EventAdd observations the backends can make
    EndpointTTL, DeviceTTL, RemoveGrace,
    MaxLag,         \* how long an event or result may wait before it is applied
    MaxTime,        \* bound: the clock stops here
    MaxEpoch        \* bound: no step takes an epoch beyond this

ID == ({"mac"} \X Macs) \cup ({"shortid", "name", "static"} \X Labels)

Kinds == {"esphome", "shelly", "unknown"}

NoID == NoHandle

Announcement ==
    [source  : Sources,
     id      : ({"static"} \X Labels) \cup {NoID},  \* Event.DeviceID
     kind    : Kinds,
     label   : Labels,                  \* instanceLabel(Event.Instance)
     unnamed : BOOLEAN,                 \* Event.Unnamed
     txtMac  : Macs \cup {NoHex},       \* TXT "mac"
     txtId   : Labels \cup {NoHex},     \* TXT "id"
     key     : Keys,
     addr    : Addrs,
     port    : Ports,
     trusted : BOOLEAN]

ASSUME RegistryAssumption ==
    /\ NoHandle \notin ID
    /\ MacSuffix \in [Macs -> Suffixes]
    /\ LabelHex \in [Labels -> Macs \cup Suffixes \cup {NoHex}]
    /\ NoHex \notin Macs \cup Suffixes \cup Labels
    /\ Ports \subseteq Nat
    /\ Announcements \subseteq Announcement
    /\ {EndpointTTL, DeviceTTL, RemoveGrace, MaxLag, MaxTime, MaxEpoch} \subseteq Nat
    /\ MaxTime >= 1

\* config.Validate: an endpoint must not outlive its device.
ASSUME TTLAssumption == DeviceTTL >= EndpointTTL

VARIABLES
    devices,    \* function from device IDs to the actor's private records
    aliases,    \* function from handles to device IDs
    snapshot,   \* function from device IDs to published Device values
    dirty,      \* Run's local: something changed since the last publication
    coalesce,   \* the publication timer: idle, armed, or fired into the channel
    offered,    \* <<id, epoch, primary>> a snapshot has shown: a probe, a live
                \* connection or a collector's cache may still be using any of them
    now         \* the clock

vars == <<devices, aliases, snapshot, dirty, coalesce, offered, now>>

Time == 0 .. MaxTime

Endpoint ==
    [addr : Addrs, port : Ports, trusted : BOOLEAN, observedAt : Time,
     source : Sources, unverified : BOOLEAN, hintAt : Time]

\* The list of a new device, and every list OrderCandidates can return for endpoints
\* over Addrs.
AddrLists == {<<>>} \cup
    {OrderCandidates(Listed(c[1]), c[2], c[3]) :
        c \in (SUBSET Addrs) \X (SUBSET Addrs) \X (Addrs \cup {NoAddr})}

-----------------------------------------------------------------------------
(* Addresses of a device *)

AddrsWhere(eps, trust) == {eps[k].addr : k \in {j \in DOMAIN eps : eps[j].trusted = trust}}

\* The order in which a map iteration yields trusted endpoints is left to Compare: a
\* device has one operator-supplied address in the instances checked here.
Dialling(eps, pinned) ==
    OrderCandidates(Listed(AddrsWhere(eps, TRUE)), AddrsWhere(eps, FALSE), pinned)

Rejected(eps) == RejectedCandidates(AddrsWhere(eps, FALSE))

\* Mutant: a list of the same length is taken for the same list.
RecomputeAddrsByLength(dev) ==
    LET next == Dialling(dev.endpoints, dev.pinned)
    IN  [dev EXCEPT !.rejected = Rejected(dev.endpoints),
                    !.addrs    = next,
                    !.epoch    = IF Len(next) # Len(dev.addrs) THEN @ + 1 ELSE @]

\* recomputeAddrs: the first port seen is kept, and the epoch moves with the list.
RecomputeAddrs(dev) ==
    LET next  == Dialling(dev.endpoints, dev.pinned)
        ports == {dev.endpoints[k].port : k \in DOMAIN dev.endpoints} \ {0}
    IN  [dev EXCEPT
            !.port     = IF @ = 0 /\ ports # {} THEN CHOOSE p \in ports : TRUE ELSE @,
            !.rejected = Rejected(dev.endpoints),
            !.addrs    = next,
            !.epoch    = IF next # dev.addrs THEN @ + 1 ELSE @]

\* Device.Primary
Primary(dev) == IF dev.addrs = <<>> THEN NoAddr ELSE dev.addrs[1]

LaterOf(a, b) == IF a > b THEN a ELSE b

Touch(dev) == [dev EXCEPT !.lastSeen = LaterOf(dev.lastDiscovery, dev.lastSuccess)]

AllUnverified(dev) ==
    /\ DOMAIN dev.endpoints # {}
    /\ \A k \in DOMAIN dev.endpoints : dev.endpoints[k].unverified

-----------------------------------------------------------------------------
(* Identity *)

IsMACID(id) == id[1] = "mac"

\* Strongest evidence first: a MAC in the TXT record, a MAC in the announced id or in
\* the name, the three MAC bytes of a Gen1 name, the name.
DeriveID(ev) ==
    IF ev.txtMac # NoHex THEN <<"mac", ev.txtMac>>
    ELSE IF ev.txtId # NoHex /\ LabelHex[ev.txtId] \in Macs
         THEN <<"mac", LabelHex[ev.txtId]>>
    ELSE IF LabelHex[ev.label] \in Macs THEN <<"mac", LabelHex[ev.label]>>
    ELSE IF LabelHex[ev.label] \in Suffixes THEN <<"shortid", ev.label>>
    ELSE <<"name", ev.label>>

\* eventHandles: every identifier the observation could be known by, in lookup order.
EventHandles(ev) ==
    << <<"name", ev.label>>,
       IF ev.txtMac = NoHex THEN NoHandle ELSE <<"mac", ev.txtMac>>,
       IF ev.txtId = NoHex THEN NoHandle ELSE <<"name", ev.txtId>>,
       DeriveID(ev) >>

HandleSet(ev) == {EventHandles(ev)[i] : i \in 1 .. 4} \ {NoHandle}

\* What promote leaves of the surviving device when both identities were known.
MergeInto(target, old) ==
    RecomputeAddrs(
        [target EXCEPT
            !.endpoints     = [k \in DOMAIN @ \cup DOMAIN old.endpoints |->
                                  IF k \in DOMAIN old.endpoints
                                  THEN old.endpoints[k] ELSE @[k]],
            !.sources       = @ \cup old.sources,
            !.lastDiscovery = LaterOf(@, old.lastDiscovery),
            !.lastSuccess   = LaterOf(@, old.lastSuccess),
            !.name          = IF target.provisional /\ ~old.provisional
                              THEN old.name ELSE @,
            !.provisional   = @ /\ old.provisional])

\* promote: rename old to new, or fold it into new when new is known already.
\* A registry here is a record of the two maps the actor owns.
Promote(reg, old, new) ==
    IF old = new \/ old \notin DOMAIN reg.devices THEN reg
    ELSE
    LET survivor == IF new \in DOMAIN reg.devices
                    THEN MergeInto(reg.devices[new], reg.devices[old])
                    ELSE RecomputeAddrs(reg.devices[old])
    IN  [devices |-> [i \in (DOMAIN reg.devices \ {old}) \cup {new} |->
                         IF i = new THEN survivor ELSE reg.devices[i]],
         aliases |-> [h \in DOMAIN reg.aliases \cup {old} |->
                         IF h = old \/ reg.aliases[h] = old THEN new
                         ELSE reg.aliases[h]]]

\* Mutant: the join works only when mDNS saw the device first.
ShortIDMatchesOneWay(ev, derived) ==
    {id \in DOMAIN devices :
        /\ ev.kind = "shelly" /\ devices[id].kind = "shelly"
        /\ IsMACID(derived) /\ id[1] = "shortid"
        /\ LabelHex[id[2]] = MacSuffix[derived[2]]}

\* Known Shellies whose MAC ends like the derived ID's, in the other identity form.
ShortIDMatches(ev, derived) ==
    IF ev.kind # "shelly" THEN {}
    ELSE {id \in DOMAIN devices :
            /\ devices[id].kind = "shelly"
            /\ \/ /\ IsMACID(derived) /\ id[1] = "shortid"
                  /\ LabelHex[id[2]] = MacSuffix[derived[2]]
               \/ /\ derived[1] = "shortid" /\ IsMACID(id)
                  /\ MacSuffix[id[2]] = LabelHex[derived[2]]}

\* resolveID: the handle already bound wins, then a unique short-id match, then a new
\* identity.  The result says which device the event is for and which device, if any,
\* promote folds into it.
ResolveID(ev) ==
    LET derived == DeriveID(ev)
        bound   == {i \in 1 .. 4 : EventHandles(ev)[i] \in DOMAIN aliases}
        owner   == aliases[EventHandles(ev)[CHOOSE i \in bound : \A j \in bound : i <= j]]
        matches == ShortIDMatches(ev, derived)
        match   == CHOOSE id \in matches : TRUE
    IN  IF ev.id # NoID THEN [id |-> ev.id, old |-> ev.id]
        ELSE IF bound # {}
             THEN IF IsMACID(derived) /\ ~IsMACID(owner)
                  THEN [id |-> derived, old |-> owner]
                  ELSE [id |-> owner, old |-> owner]
        ELSE IF Cardinality(matches) = 1
             THEN IF IsMACID(derived)
                  THEN [id |-> derived, old |-> match]
                  ELSE [id |-> match, old |-> match]
        ELSE [id |-> derived, old |-> derived]

-----------------------------------------------------------------------------
(* The actor *)

\* Mutant: the Unnamed flag of the first event is dropped.
NewDeviceNamed(ev) ==
    [kind |-> ev.kind, name |-> ev.label, provisional |-> FALSE, static |-> FALSE,
     addrs |-> <<>>, rejected |-> {}, port |-> 0, epoch |-> 0, lastSeen |-> 0,
     unverified |-> FALSE, lastDiscovery |-> 0, lastSuccess |-> 0, pinned |-> NoAddr,
     sources |-> {}, endpoints |-> [k \in {} |-> k]]

NewDevice(ev) ==
    [kind |-> ev.kind, name |-> ev.label, provisional |-> ev.unnamed, static |-> FALSE,
     addrs |-> <<>>, rejected |-> {}, port |-> 0, epoch |-> 0, lastSeen |-> 0,
     unverified |-> FALSE, lastDiscovery |-> 0, lastSuccess |-> 0, pinned |-> NoAddr,
     sources |-> {}, endpoints |-> [k \in {} |-> k]]

\* The part of applyAdd that follows the identity: fold the observation into the device.
Observe(dev, ev, at) ==
    LET ep == [addr |-> ev.addr, port |-> ev.port, trusted |-> ev.trusted,
               observedAt |-> at, source |-> ev.source,
               unverified |-> FALSE, hintAt |-> 0]
        renamed == dev.provisional /\ ~ev.unnamed
    IN  Touch(RecomputeAddrs(
            [dev EXCEPT
                !.name          = IF renamed THEN ev.label ELSE @,
                !.provisional   = @ /\ ev.unnamed,
                !.static        = @ \/ ev.source = "static",
                !.kind          = IF @ = "unknown" THEN ev.kind ELSE @,
                !.sources       = @ \cup {ev.source},
                !.endpoints     = [k \in DOMAIN @ \cup {ev.key} |->
                                      IF k = ev.key THEN ep ELSE @[k]],
                !.lastDiscovery = at,
                !.unverified    = FALSE,
                !.port          = IF ev.port # 0 THEN ev.port ELSE @]))

\* bindAliases
Bind(alias, id, ev) ==
    [h \in DOMAIN alias \cup HandleSet(ev) \cup {id} |->
        IF h \in HandleSet(ev) \cup {id} THEN id ELSE alias[h]]

\* Mutant: a debounce, every change restarts the timer.
MarkDirtyRestarting == dirty' = TRUE /\ coalesce' = "armed"

\* markDirty: a burst arms the timer once; later changes ride on the same publication.
MarkDirty ==
    /\ dirty' = TRUE
    /\ coalesce' = IF dirty THEN coalesce ELSE "armed"

\* A stamp no later than the clock and at most MaxLag behind it.
Stamps == {t \in 1 .. now : now - t <= MaxLag}

BoundedEpochs == \A id \in DOMAIN devices' : devices'[id].epoch <= MaxEpoch

\* applyAdd: a backend resolved an instance.
Add(ev, at) ==
    LET target == ResolveID(ev)
        id     == target.id
        reg    == Promote([devices |-> devices, aliases |-> aliases], target.old, id)
        known  == IF id \in DOMAIN reg.devices THEN reg.devices[id] ELSE NewDevice(ev)
    IN  /\ devices' = [i \in DOMAIN reg.devices \cup {id} |->
                          IF i = id THEN Observe(known, ev, at) ELSE reg.devices[i]]
        /\ aliases' = Bind(reg.aliases, id, ev)
        /\ BoundedEpochs
        /\ MarkDirty
        /\ UNCHANGED <<snapshot, offered, now>>

\* Hint the endpoints Which(k) selects, unless they are hinted already.
Unverify(dev, source, which, at) ==
    LET hit == {k \in DOMAIN dev.endpoints \cap which :
                   dev.endpoints[k].source = source /\ ~dev.endpoints[k].unverified}
        eps == [k \in DOMAIN dev.endpoints |->
                   IF k \in hit
                   THEN [dev.endpoints[k] EXCEPT !.unverified = TRUE, !.hintAt = at]
                   ELSE dev.endpoints[k]]
        hinted == [dev EXCEPT !.endpoints = eps]
    IN  IF hit = {} THEN dev ELSE [hinted EXCEPT !.unverified = AllUnverified(hinted)]

\* avahi is the only backend that sends hints and resets.  Its hints carry the slot and
\* the instance name, and no TXT record.
Hinting == {"avahi"}

WithoutTXT(ev) == [ev EXCEPT !.txtMac = NoHex, !.txtId = NoHex]

\* applyRemoveHint: a backend lost an instance.  Only the slot it names is hinted.
RemoveHint(lost, at) ==
    LET ev     == WithoutTXT(lost)
        handle == IF DeriveID(ev) \in DOMAIN aliases THEN DeriveID(ev)
                  ELSE <<"name", ev.label>>
        id     == aliases[handle]
    IN  /\ ev.source \in Hinting
        /\ handle \in DOMAIN aliases
        /\ id \in DOMAIN devices
        /\ devices' = [devices EXCEPT ![id] = Unverify(@, ev.source, {ev.key}, at)]
        /\ devices' # devices
        /\ MarkDirty
        /\ UNCHANGED <<aliases, snapshot, offered, now>>

\* markSourceUnverified: a backend reconnected, all it had said is in doubt.
SourceReset(source, at) ==
    /\ devices' = [i \in DOMAIN devices |-> Unverify(devices[i], source, Keys, at)]
    /\ devices' # devices
    /\ MarkDirty
    /\ UNCHANGED <<aliases, snapshot, offered, now>>

\* The endpoints at the scraped address are verified, and observed when it answered.
Renewed(eps, addr, at) ==
    [k \in DOMAIN eps |->
        IF eps[k].addr = addr
        THEN [eps[k] EXCEPT !.unverified = FALSE, !.observedAt = at] ELSE eps[k]]

\* Pin the address that answered, refresh its endpoints and the device's liveness.
\* The mutant verifies the endpoints without renewing ObservedAt.
ScrapedNotRenewed(dev, addr, at) ==
    LET pinned == RecomputeAddrs([dev EXCEPT !.pinned = addr])
        eps    == [k \in DOMAIN dev.endpoints |->
                      IF dev.endpoints[k].addr = addr
                      THEN [dev.endpoints[k] EXCEPT !.unverified = FALSE]
                      ELSE dev.endpoints[k]]
        seen   == [pinned EXCEPT !.lastSuccess = at, !.endpoints = eps]
    IN  Touch([seen EXCEPT !.unverified = AllUnverified(seen)])

Scraped(dev, addr, at) ==
    LET pinned == IF dev.pinned = addr THEN dev
                  ELSE RecomputeAddrs([dev EXCEPT !.pinned = addr])
        seen   == [pinned EXCEPT !.lastSuccess = at,
                                 !.endpoints = Renewed(dev.endpoints, addr, at)]
    IN  Touch([seen EXCEPT !.unverified = AllUnverified(seen)])

\* applyScrapeResult of a success; a failure, or a result for a device that is gone,
\* changes nothing.
ScrapeSuccess(id, addr, at) ==
    /\ id \in DOMAIN devices
    /\ devices' = [devices EXCEPT ![id] = Scraped(@, addr, at)]
    /\ BoundedEpochs
    /\ MarkDirty
    /\ UNCHANGED <<aliases, snapshot, offered, now>>

\* The two ways an endpoint ages out: unobserved for EndpointTTL, or hinted and neither
\* re-announced nor scraped for RemoveGrace.
Outlived(dev, ep) ==
    \/ now - ep.observedAt > EndpointTTL
    \/ /\ ep.unverified
       /\ ep.hintAt # 0
       /\ now - ep.hintAt > RemoveGrace
       /\ dev.lastSuccess < ep.hintAt

\* Mutant: recomputeAddrs is forgotten after an eviction.
AgedWithoutRecompute(dev) ==
    LET kept == {k \in DOMAIN dev.endpoints : ~Outlived(dev, dev.endpoints[k])}
    IN  IF dev.static THEN dev ELSE [dev EXCEPT !.endpoints = Restrict(@, kept)]

Aged(dev) ==
    LET kept == {k \in DOMAIN dev.endpoints : ~Outlived(dev, dev.endpoints[k])}
    IN  IF dev.static \/ kept = DOMAIN dev.endpoints THEN dev
        ELSE Touch(RecomputeAddrs([dev EXCEPT !.endpoints = Restrict(@, kept)]))

\* Mutant: a device quiet on mDNS is forgotten although it still scrapes.
SilentOnMDNS(dev) == ~dev.static /\ now - dev.lastDiscovery > DeviceTTL

Silent(dev) == ~dev.static /\ now - Aged(dev).lastSeen > DeviceTTL

\* Mutants: the device's own ID is the only handle deleted with it; only a forgotten
\* device is reported as a change; a device is looked at only when it has just lost an
\* endpoint.
ExpireOwnHandle ==
    LET kept == {id \in DOMAIN devices : ~Silent(devices[id])}
    IN  /\ devices' = [id \in kept |-> Aged(devices[id])]
        /\ aliases' = Restrict(aliases, DOMAIN aliases \ (DOMAIN devices \ kept))
        /\ devices' # devices
        /\ BoundedEpochs
        /\ MarkDirty
        /\ UNCHANGED <<snapshot, offered, now>>

ExpireReportingForgotten ==
    LET kept == {id \in DOMAIN devices : ~Silent(devices[id])}
    IN  /\ devices' = [id \in kept |-> Aged(devices[id])]
        /\ aliases' = Restrict(aliases, {h \in DOMAIN aliases :
                          aliases[h] \in DOMAIN devices => aliases[h] \in kept})
        /\ devices' # devices
        /\ IF kept = DOMAIN devices THEN UNCHANGED <<dirty, coalesce>> ELSE MarkDirty
        /\ UNCHANGED <<snapshot, offered, now>>

ExpireAfterEviction ==
    LET kept == {id \in DOMAIN devices :
                    Aged(devices[id]) = devices[id] \/ ~Silent(devices[id])}
    IN  /\ devices' = [id \in kept |-> Aged(devices[id])]
        /\ aliases' = Restrict(aliases, {h \in DOMAIN aliases :
                          aliases[h] \in DOMAIN devices => aliases[h] \in kept})
        /\ devices' # devices
        /\ MarkDirty
        /\ UNCHANGED <<snapshot, offered, now>>

\* expire: the minute tick ages every endpoint and forgets the silent devices.
Expire ==
    LET kept == {id \in DOMAIN devices : ~Silent(devices[id])}
    IN  /\ devices' = [id \in kept |-> Aged(devices[id])]
        /\ aliases' = Restrict(aliases, {h \in DOMAIN aliases :
                          aliases[h] \in DOMAIN devices => aliases[h] \in DOMAIN devices'})
        /\ devices' # devices
        /\ BoundedEpochs
        /\ MarkDirty
        /\ UNCHANGED <<snapshot, offered, now>>

\* The refresh tick re-publishes even when nothing changed.
Refresh == MarkDirty /\ UNCHANGED <<devices, aliases, snapshot, offered, now>>

\* The coalescing timer puts a value in its channel.
CoalesceFires ==
    /\ coalesce = "armed"
    /\ coalesce' = "fired"
    /\ UNCHANGED <<devices, aliases, snapshot, dirty, offered, now>>

\* The Device value a snapshot carries: the actor's record without its private part.
Export(dev) ==
    [kind |-> dev.kind, name |-> dev.name, static |-> dev.static, addrs |-> dev.addrs,
     rejected |-> dev.rejected, port |-> dev.port, epoch |-> dev.epoch,
     lastSeen |-> dev.lastSeen, unverified |-> dev.unverified]

View == [id \in DOMAIN devices |-> Export(devices[id])]

Publish ==
    /\ coalesce = "fired"
    /\ dirty' = FALSE
    /\ coalesce' = "idle"
    /\ snapshot' = View
    /\ offered' = offered \cup
          {<<id, View[id].epoch, Primary(View[id])>> :
              id \in {i \in DOMAIN View : Primary(View[i]) \in Addrs}}
    /\ UNCHANGED <<devices, aliases, now>>

Tick ==
    /\ now < MaxTime
    /\ now' = now + 1
    /\ UNCHANGED <<devices, aliases, snapshot, dirty, coalesce, offered>>

Init ==
    /\ devices = [id \in {} |-> id]
    /\ aliases = [h \in {} |-> h]
    /\ snapshot = [id \in {} |-> id]
    /\ dirty = FALSE
    /\ coalesce = "idle"
    /\ offered = {}
    /\ now = 1

Next ==
    \/ \E ev \in Announcements, at \in Stamps : Add(ev, at)
    \/ \E ev \in Announcements, at \in Stamps : RemoveHint(ev, at)
    \/ \E source \in Hinting, at \in Stamps : SourceReset(source, at)
    \/ \E o \in offered, at \in Stamps : ScrapeSuccess(o[1], o[3], at)
    \/ Expire
    \/ Refresh
    \/ CoalesceFires
    \/ Publish
    \/ Tick

\* The timer always fires, and a select that keeps finding the publication ready takes
\* it: Go picks uniformly among the ready cases.  The expiry ticker is one of them.
Fairness == WF_vars(CoalesceFires) /\ WF_vars(Publish) /\ WF_vars(Expire)

Spec == Init /\ [][Next]_vars /\ Fairness

-----------------------------------------------------------------------------
(* What the registry promises *)

\* A function from some of the keys to endpoints.
EndpointMap(eps) == DOMAIN eps \subseteq Keys /\ eps \in [DOMAIN eps -> Endpoint]

DeviceState(dev) ==
    /\ dev \in
         [kind : Kinds, name : Labels, provisional : BOOLEAN, static : BOOLEAN,
          addrs : AddrLists, rejected : SUBSET Addrs, port : Ports \cup {0}, epoch : Nat,
          lastSeen : Time, unverified : BOOLEAN, lastDiscovery : Time,
          lastSuccess : Time, pinned : Addrs \cup {NoAddr}, sources : SUBSET Sources,
          endpoints : {dev.endpoints}]
    /\ EndpointMap(dev.endpoints)

Device ==
    [kind : Kinds, name : Labels, static : BOOLEAN, addrs : AddrLists,
     rejected : SUBSET Addrs, port : Ports \cup {0}, epoch : Nat, lastSeen : Time,
     unverified : BOOLEAN]

\* Every variable holds a value of its kind.
TypeOK ==
    /\ DOMAIN devices \subseteq ID
    /\ devices = [i \in DOMAIN devices |-> devices[i]]
    /\ \A i \in DOMAIN devices : DeviceState(devices[i])
    /\ DOMAIN aliases \subseteq ID
    /\ aliases \in [DOMAIN aliases -> ID]
    /\ DOMAIN snapshot \subseteq ID
    /\ snapshot \in [DOMAIN snapshot -> Device]
    /\ dirty \in BOOLEAN
    /\ coalesce \in {"idle", "armed", "fired"}
    /\ offered \subseteq ID \X Nat \X Addrs
    /\ now \in Time

\* No handle outlives the device it names, through promotions, merges and expiry: an
\* observation is never attributed to a device that was forgotten (aliases in
\* promote, bindAliases and forget).
NoDanglingHandle == \A h \in DOMAIN aliases : aliases[h] \in DOMAIN devices

\* Readers are never left with an old view: whenever no publication is pending, the
\* snapshot is what the actor knows.  Each apply function must report every change it
\* makes to exported state (the bool results Run tests before markDirty).
NoLostUpdate == ~dirty => snapshot = View

\* The published order is the policy applied to the endpoints held now: no path that
\* adds, merges or ages out an endpoint, or moves the pin, forgets recomputeAddrs.
AddrsCurrent ==
    \A id \in DOMAIN devices :
        /\ devices[id].addrs = Dialling(devices[id].endpoints, devices[id].pinned)
        /\ devices[id].rejected = Rejected(devices[id].endpoints)

\* LastSeen, which expiry and staleness read, is the later of the two kinds of evidence
\* it stands for, after merges as well (touch follows every assignment).
LastSeenIsLatest ==
    \A id \in DOMAIN devices :
        devices[id].lastSeen = LaterOf(devices[id].lastDiscovery, devices[id].lastSuccess)

\* A device is flagged unverified only while no endpoint of it is verified.
UnverifiedSound ==
    \A id \in DOMAIN devices : devices[id].unverified =>
        \A k \in DOMAIN devices[id].endpoints : devices[id].endpoints[k].unverified

\* Everything the registry derives from a device's endpoints and evidence is up to date
\* after every operation, a promotion that merges two devices and a late stamp included:
\* recomputeAddrs, touch and allUnverified are called by hand on each path of registry.go,
\* and a path that forgets one leaves collectors dialling, or ageing, the past.
SummariesCurrent == AddrsCurrent /\ LastSeenIsLatest /\ UnverifiedSound

\* The name does not depend on which source answered first: it is provisional only
\* while the cloud, whose ids are not names, is the device's only source.
NameIsAnnounced ==
    \A id \in DOMAIN devices :
        devices[id].provisional <=> devices[id].sources \subseteq {"shelly_cloud"}

\* A Gen1 Shelly known by its short id and by its MAC is one device, unless another MAC
\* with the same ending makes the match a guess (matchShortID).
OneDevicePerGen1Shelly ==
    \A short, full \in DOMAIN devices :
        /\ devices[short].kind = "shelly" /\ devices[full].kind = "shelly"
        /\ short[1] = "shortid" /\ IsMACID(full)
        /\ LabelHex[short[2]] = MacSuffix[full[2]]
        => \E m \in Macs \ {full[2]} : MacSuffix[m] = MacSuffix[full[2]]

\* The handle carries MAC bytes that are not those of the device.
Contradicts(h, id) ==
    /\ IsMACID(id)
    /\ \/ IsMACID(h) /\ h # id
       \/ h[1] = "shortid" /\ LabelHex[h[2]] # MacSuffix[id[2]]

\* An observation that carries MAC bytes is never attributed to a device identified by
\* another MAC, as long as a name belongs to one board (device.go:12, a device is one
\* physical device; promote, matchShortID and bindAliases).
MacAttribution == \A h \in DOMAIN aliases : ~Contradicts(h, aliases[h])

\* A device's own ID leads to it.  An observation that ties a name to a MAC binds both to
\* one device, so no device lives on under the name, where its hints, its mDNS records and
\* its scrapes would no longer meet (promote and bindAliases, over every handle).
OwnHandle == \A id \in DOMAIN devices : id \in DOMAIN aliases /\ aliases[id] = id

\* One physical device, one identity (device.go:12), as far as the observations tell: what
\* is filed under a MAC is not another's; a Gen1 name and the MAC it ends like are one
\* device at once; and so are any two identities from the moment one observation carries
\* both.  Until its _shelly._tcp record is heard, a Gen2 Shelly that the owner named and the
\* cloud reports are two devices: nothing has said yet that they are one.
OneIdentity == MacAttribution /\ OneDevicePerGen1Shelly /\ OwnHandle

\* What the two properties above ask of the network and its sources.  Only the cloud
\* announces by something that is not a name (shellycloud.go:182).
OnlyCloudUnnamed == \A ev \in Announcements : ev.unnamed <=> ev.source = "shelly_cloud"

\* The board an ID or a handle stands for, where board tells whose a label is.
BoardOf(board, id) == IF IsMACID(id) THEN id[2] ELSE board[id[2]]

\* A name belongs to one board, whose MAC it shows if it shows any, and the ending in a
\* Gen1 name is that of no other board.
OneBoardEach(board) ==
    /\ board \in [Labels -> Macs]
    /\ \A l \in Labels : LabelHex[l] \in Macs => LabelHex[l] = board[l]
    /\ \A ev \in Announcements :
          /\ ev.id # NoID => board[ev.id[2]] = board[ev.label]
          /\ ev.txtMac # NoHex => ev.txtMac = board[ev.label]
          /\ ev.txtId # NoHex => board[ev.txtId] = board[ev.label]
          /\ DeriveID(ev)[1] = "shortid" =>
                \A m \in Macs : MacSuffix[m] = LabelHex[ev.label] <=> m = board[ev.label]

\* A Gen1 Shelly goes by one such name or by its MAC, and is not listed by the operator.
Gen1ByNameOrMAC(board) ==
    \A ev, g \in Announcements :
        DeriveID(g)[1] = "shortid" /\ board[ev.label] = board[g.label] =>
            /\ ev.kind = "shelly"
            /\ ev.id = NoID
            /\ DeriveID(ev) \in {DeriveID(g), <<"mac", board[g.label]>>}

\* The id in a TXT record shows its MAC, unless it is the announced name itself, and what
\* the operator lists is nothing that a backend identifies a device by.
IdentitiesApart ==
    \A ev \in Announcements :
        /\ ev.txtId # NoHex => LabelHex[ev.txtId] \in Macs \/ ev.txtId = ev.label
        /\ ev.id # NoID =>
              \A g \in Announcements : g.id = NoID => DeriveID(g) \notin HandleSet(ev)

\* While a device is known its epoch never falls, and rises whenever its addresses
\* change, through merges too: a collector's cache is discarded with them.
EpochMovesWithAddrs ==
    [][\A id \in DOMAIN devices \cap DOMAIN devices' :
          /\ devices'[id].epoch >= devices[id].epoch
          /\ devices'[id].addrs # devices[id].addrs =>
                devices'[id].epoch > devices[id].epoch]_vars

\* A device leaves the registry only folded into another one, under which its ID is
\* then known, or after DeviceTTL without an announcement and without a scrape.
NeverLostQuietly ==
    [][\A id \in DOMAIN devices \ DOMAIN devices' :
          \/ id \in DOMAIN aliases' /\ aliases'[id] \in DOMAIN devices'
          \/ /\ ~devices[id].static
             /\ now - devices[id].lastDiscovery > DeviceTTL
             /\ now - devices[id].lastSuccess > DeviceTTL]_vars

\* Expiry never takes away the address that answered within RemoveGrace: the endpoint
\* that scrape renewed cannot have aged, and no hint it outlived can evict it.
WorkingAddressKept ==
    [][Expire => \A id \in DOMAIN devices \cap DOMAIN devices' :
          LET dev == devices[id] IN
          /\ dev.lastSuccess > 0
          /\ now - dev.lastSuccess <= RemoveGrace
          /\ Primary(dev) = dev.pinned
          => Primary(devices'[id]) = dev.pinned]_vars

\* An observation shows that two known devices are one, and promote merges them.  The
\* survivor's endpoints are then overwritten by the other's, also those that a scrape has
\* renewed since; NeverMerged is what WorkingAddressKept needs for that reason.
Merge(ev, at) ==
    /\ Add(ev, at)
    /\ ResolveID(ev).old # ResolveID(ev).id
    /\ {ResolveID(ev).old, ResolveID(ev).id} \subseteq DOMAIN devices

NeverMerged == [][\A ev \in Announcements, at \in Stamps : ~Merge(ev, at)]_vars

\* A burst of events cannot postpone publication for ever.
PublishedEventually == dirty ~> ~dirty

\* A device nobody has heard for DeviceTTL is eventually forgotten, or heard again: the
\* expiry tick is not crowded out.
SilentForgotten ==
    (\E id \in DOMAIN devices : Silent(devices[id])) ~>
        (\A id \in DOMAIN devices : ~Silent(devices[id]))
=============================================================================
