--------------------------- MODULE ShellyCollector ---------------------------
(***************************************************************************)
(* The scrapes of one Shelly, internal/shelly: Collector.Probe asks who    *)
(* answers (/shelly), takes a client with a credential, asks for the names *)
(* (/settings) and reads the status, each in a request of its own, while   *)
(* DHCP hands addresses to other devices and the registry follows as it    *)
(* hears of it.  Identity, client and names are cached between scrapes,    *)
(* keyed by the registry's epoch for the device.                           *)
(*                                                                         *)
(* The device scraped, Me, has a mac: identity and always some address.    *)
(* The limiter lets one scrape of it run at a time (OneCallPerDevice in    *)
(* Limiter).                                                               *)
(***************************************************************************)
EXTENDS Integers

CONSTANTS
    Me, Others,         \* the device scraped, and what else may answer at an address
    Addrs,
    Gen1,               \* the devices that speak the legacy REST
    HostOverride,       \* the password of Me is in an override that matches its hostname
    FetchConfig,        \* shelly.fetch_config
    MaxUpsets,          \* bound: changes of the network, of what is known of it, and lost answers
    Nobody, None

ASSUME ShellyAssumption ==
    /\ Me \notin Others /\ Nobody \notin Others \cup {Me} /\ Gen1 \subseteq Others \cup {Me}
    /\ HostOverride \in BOOLEAN /\ FetchConfig \in BOOLEAN /\ MaxUpsets \in Nat
    /\ None \notin Others \cup {Me, Nobody}          \* no entry, no name
    /\ None \notin [epoch : Nat, credential : {"global", "override"}]
    /\ None \notin [of : Others \cup {Me, None}, epoch : Nat, fresh : BOOLEAN]
    /\ {"cloud", "registry"} \cap (Others \cup {Me}) = {}

VARIABLES
    lan,        \* which device answers at each address
    reg,        \* the registry's record: Primary, Epoch, and whether Hostname is known
    identity,   \* identityCache: the entry of this device
    client,     \* clientCache: the client of this device
    names,      \* namesCache: the entry of this device
    cloud,      \* CloudNames: whether it knows the device, once loaded
    probe,      \* the scrape under way, and its locals
    result,     \* what the last scrape returned
    checked,    \* history: no address has changed hands since the last MAC check
    forgotten,  \* history: the registry forgot the device, and found it again
    upsets

caches == <<identity, client, names>>
world  == <<lan, reg, cloud, upsets, forgotten>>
vars   == <<world, caches, probe, result, checked>>

Devices == Others \cup {Me}
Idle    == [pc |-> "idle", addr |-> None, epoch |-> 0, host |-> FALSE, name |-> None]

\* authResolver.resolve: the first override that matches, else the global credential.
Resolve(host) == IF HostOverride /\ host THEN "override" ELSE "global"

Failed(why)        == [ok |-> FALSE, of |-> None, name |-> None, why |-> why]
Read(device, name) == [ok |-> TRUE, of |-> device, name |-> name, why |-> "none"]

\* Mutants: an entry never expires; an entry survives a move of the epoch.
WarmForever(entry, epoch)  == entry # None /\ entry.epoch = epoch
WarmAnywhere(entry, epoch) == entry # None /\ entry.fresh

\* An entry of identityCache or namesCache that get returns.
Warm(entry, epoch) == entry # None /\ entry.epoch = epoch /\ entry.fresh

\* A request with the device's credential: strangers take any, or none.
Answers(device, credential) ==
    device # Nobody /\ (device = Me => credential = Resolve(TRUE))

Goto(pc) == probe' = [probe EXCEPT !.pc = pc]
Fail(why) == result' = Failed(why) /\ probe' = Idle

-----------------------------------------------------------------------------
(* One scrape *)

\* Probe takes a snapshot of the registry's record; fetchIdentity looks into its cache.
Begin ==
    /\ probe.pc = "idle"
    /\ probe' = [pc |-> IF Warm(identity, reg.epoch) THEN "client" ELSE "identify",
                 addr |-> reg.addr, epoch |-> reg.epoch, host |-> reg.host, name |-> None]
    /\ UNCHANGED <<world, caches, result, checked>>

\* Mutant: verifyMAC is left out.
IdentifyUnverified ==
    /\ probe.pc = "identify"
    /\ IF lan[probe.addr] = Nobody
       THEN Fail("unreachable") /\ UNCHANGED <<identity, checked>>
       ELSE /\ identity' = [epoch |-> probe.epoch, fresh |-> TRUE]
            /\ checked' = TRUE /\ Goto("client") /\ UNCHANGED result
    /\ UNCHANGED <<world, client, names>>

\* fetchIdentity: what answers is compared with the MAC of the device ID; a failure is not cached.
Identify ==
    /\ probe.pc = "identify"
    /\ IF lan[probe.addr] = Me
       THEN /\ identity' = [epoch |-> probe.epoch, fresh |-> TRUE]
            /\ checked' = TRUE /\ Goto("client") /\ UNCHANGED result
       ELSE /\ Fail(IF lan[probe.addr] = Nobody THEN "unreachable" ELSE "mac_mismatch")
            /\ UNCHANGED <<identity, checked>>
    /\ UNCHANGED <<world, client, names>>

\* Mutant: a cached client is returned for any epoch.
TakeAnyClient ==
    /\ probe.pc = "client"
    /\ client' = IF client # None THEN client
                 ELSE [epoch |-> probe.epoch, credential |-> Resolve(probe.host)]
    /\ Goto(IF FetchConfig THEN "names" ELSE "cloud")
    /\ UNCHANGED <<world, identity, names, result, checked>>

\* clientCache.get: the client of this epoch, whatever credential it was built with, or a new one.
TakeClient ==
    /\ probe.pc = "client"
    /\ client' = IF client # None /\ client.epoch = probe.epoch THEN client
                 ELSE [epoch |-> probe.epoch, credential |-> Resolve(probe.host)]
    /\ Goto(IF FetchConfig THEN "names" ELSE "cloud")
    /\ UNCHANGED <<world, identity, names, result, checked>>

\* The name an operator gave the device: of a Gen1 in its settings, of a later one in its identity.
OwnName(entry) == IF Me \notin Gen1 THEN Me ELSE IF entry = None THEN None ELSE entry.of

\* ensureNames: the cached names, or those of whoever answers, or none for as long as any.
Fetched ==
    [of |-> IF Answers(lan[probe.addr], client.credential) THEN lan[probe.addr] ELSE None,
     epoch |-> probe.epoch, fresh |-> TRUE]

\* Mutant: names that are still cached are not put back on a refreshed identity.
EnsureNamesCold ==
    /\ probe.pc = "names"
    /\ IF Warm(names, probe.epoch) THEN UNCHANGED names ELSE names' = Fetched
    /\ probe' = [probe EXCEPT !.pc = "cloud",
                              !.name = IF Warm(names, probe.epoch) THEN OwnName(None) ELSE OwnName(names')]
    /\ UNCHANGED <<world, identity, client, result, checked>>

EnsureNames ==
    /\ probe.pc = "names"
    /\ IF Warm(names, probe.epoch) THEN UNCHANGED names ELSE names' = Fetched
    /\ probe' = [probe EXCEPT !.pc = "cloud", !.name = OwnName(names')]
    /\ UNCHANGED <<world, identity, client, result, checked>>

\* The first refresh of the cloud's names is awaited, for cloudNamesWait at most.
AwaitCloud ==
    /\ probe.pc = "cloud"
    /\ Goto("status")
    /\ UNCHANGED <<world, caches, result, checked>>

\* The app's name, or the device's own, or the registry's.
Label == IF cloud = "known" THEN "cloud" ELSE IF probe.name = None THEN "registry" ELSE probe.name

\* fetch and decode: plan chose the path by the generation of the cached identity.
ReadStatus ==
    /\ probe.pc = "status"
    /\ LET device == lan[probe.addr] IN
       CASE device = Nobody                              -> Fail("unreachable")
         [] ~Answers(device, client.credential)          -> Fail("auth")
         [] (device \in Gen1) # (Me \in Gen1)            -> Fail("http_status")
         [] OTHER -> result' = Read(device, Label) /\ probe' = Idle
    /\ UNCHANGED <<world, caches, checked>>

Upset == upsets < MaxUpsets /\ upsets' = upsets + 1

\* The scrape's deadline passes during a request, or the body cannot be decoded.  Names that do
\* not come are cached as none.
RequestFails ==
    /\ Upset
    /\ probe.pc \in {"identify", "names", "status"}
    /\ IF probe.pc = "names" /\ ~Warm(names, probe.epoch)
       THEN names' = [of |-> None, epoch |-> probe.epoch, fresh |-> TRUE] ELSE UNCHANGED names
    /\ \E why \in {"timeout", "decode"} : Fail(why)
    /\ UNCHANGED <<lan, reg, cloud, forgotten, identity, client, checked>>

\* identity_ttl passes: the two entries are written at different times.
ExpireIdentity ==
    /\ identity # None /\ identity.fresh /\ identity' = [identity EXCEPT !.fresh = FALSE]
    /\ UNCHANGED <<world, client, names, probe, result, checked>>

ExpireNames ==
    /\ names # None /\ names.fresh /\ names' = [names EXCEPT !.fresh = FALSE]
    /\ UNCHANGED <<world, identity, client, probe, result, checked>>

-----------------------------------------------------------------------------
(* The network and the registry *)

\* DHCP: an address changes hands.
Reassign(a, device) ==
    /\ Upset /\ lan[a] # device
    /\ lan' = [b \in Addrs |-> IF b = a THEN device ELSE IF lan[b] = device THEN Nobody ELSE lan[b]]
    /\ checked' = FALSE
    /\ UNCHANGED <<reg, cloud, forgotten, caches, probe, result>>

\* recomputeAddrs: another address comes first, and the epoch moves.
Readdress(a) == reg.addr # a /\ reg' = [reg EXCEPT !.addr = a, !.epoch = @ + 1]

\* The registry hears of the device where it is.
Follow ==
    /\ \E a \in Addrs : lan[a] = Me /\ Readdress(a)
    /\ UNCHANGED <<lan, cloud, upsets, forgotten, caches, probe, result, checked>>

\* It hears of an address the device had once: a late answer, or the cloud's last report.
Mislead ==
    /\ Upset /\ \E a \in Addrs : Readdress(a)
    /\ UNCHANGED <<lan, cloud, forgotten, caches, probe, result, checked>>

\* A source that knows the hostname joins one that does not.
LearnHostname ==
    /\ ~reg.host /\ reg' = [reg EXCEPT !.host = TRUE]
    /\ UNCHANGED <<lan, cloud, upsets, forgotten, caches, probe, result, checked>>

\* device_ttl passes in silence, and the device is found again: its epochs start anew,
\* so that what was cached for an earlier epoch may be taken for this one's.
Rediscover ==
    /\ Upset /\ forgotten' = TRUE
    /\ \E a \in Addrs : reg' = [addr |-> a, epoch |-> 1, host |-> FALSE]
    /\ UNCHANGED <<lan, cloud, caches, probe, result, checked>>

CloudChanges ==
    /\ \/ cloud = "loading" /\ UNCHANGED upsets
       \/ Upset
    /\ cloud' \in {"known", "unknown"} \ {cloud}
    /\ UNCHANGED <<lan, reg, forgotten, caches, probe, result, checked>>

-----------------------------------------------------------------------------
Init ==
    /\ lan \in {f \in [Addrs -> Devices \cup {Nobody}] :
                   \A a, b \in Addrs : a # b /\ f[a] = f[b] => f[a] = Nobody}
    /\ reg \in [addr : Addrs, epoch : {1}, host : BOOLEAN]
    /\ identity = None /\ client = None /\ names = None
    /\ cloud \in {"loading", "unknown"}
    /\ probe = Idle /\ result = Failed("none")
    /\ checked = FALSE /\ upsets = 0 /\ forgotten = FALSE

Probe == Begin \/ Identify \/ TakeClient \/ EnsureNames \/ AwaitCloud \/ ReadStatus

Network ==
    \/ \E a \in Addrs, device \in Devices \cup {Nobody} : Reassign(a, device)
    \/ Follow \/ Mislead \/ LearnHostname \/ Rediscover \/ CloudChanges

Next == Probe \/ RequestFails \/ ExpireIdentity \/ ExpireNames \/ Network

\* Prometheus scrapes again and again, time passes, and a device that answers is announced.
Fairness ==
    /\ WF_vars(Probe) /\ WF_vars(Follow) /\ WF_vars(LearnHostname)
    /\ SF_vars(ExpireIdentity) /\ SF_vars(ExpireNames)

Spec == Init /\ [][Next]_vars /\ Fairness

-----------------------------------------------------------------------------
(* Properties *)

\* Every variable has its type, and past its lookup a scrape works with the client and the
\* names of the epoch it began in.
TypeOK ==
    /\ lan \in [Addrs -> Devices \cup {Nobody}]
    /\ reg.addr \in Addrs /\ reg.epoch \in 1 .. 2 + 2 * MaxUpsets
    /\ client # None => client.credential \in {"global", "override"}
    /\ names # None => names.of \in Devices \cup {None}
    /\ cloud \in {"loading", "known", "unknown"} /\ checked \in BOOLEAN /\ forgotten \in BOOLEAN
    /\ probe.pc \in {"idle", "identify", "client", "names", "cloud", "status"}
    /\ probe.pc \in {"names", "cloud", "status"} => client # None /\ client.epoch = probe.epoch
    /\ probe.pc \in {"cloud", "status"} /\ FetchConfig => names # None /\ names.epoch = probe.epoch

\* The readings of another device are never emitted as Me's while the last check of the MAC still
\* speaks for the network: whatever address the registry turns to is checked before it is read.
\* (Once it has forgotten the device its epochs begin anew, and this no longer holds.)
CheckedBeforeRead == [][result' # result /\ result'.ok /\ checked /\ ~forgotten => result'.of = Me]_vars

\* A stranger that keeps the address is found out, when the cached identity expires at the latest.
StrangerRefused ==
    <>[](lan[reg.addr] \in Others) => <>[](~result.ok)

\* A device that keeps its address is scraped again and again, under its own name or the app's,
\* whatever was cached while it was away: another's names, or none, included.
ScrapedInItsName ==
    <>[](lan[reg.addr] = Me) => []<>(result.ok /\ result.of = Me /\ result.name \in {Me, "cloud"})

\* The label falls back to the registry's name only while none is cached: identity expires moments
\* before the names do, and its refresh must not undo the name (ensureNames).
NameIsKept ==
    [][FetchConfig /\ result' # result /\ result'.ok /\ result'.name = "registry" => names.of = None]_vars

\* An override that matches the hostname takes effect once the hostname is known: "the exporter
\* reads overrides top to bottom and uses the first match" (README, credentials).
FirstMatchApplies ==
    <>[](reg.host /\ lan[reg.addr] = Me) => []<>(client # None /\ client.credential = Resolve(TRUE))
=============================================================================
