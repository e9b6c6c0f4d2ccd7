# espressif-exporter in TLA+

A Prometheus exporter for Shelly and ESPHome devices on a home network. It discovers them
(Avahi, native mDNS, a static list, Shelly Cloud), keeps a registry of what it knows, lists
them at `/sd`, and answers `/probe?target=<id>` with the metrics of one device: a Shelly is
asked over HTTP, an ESPHome node is read from the cache of a connection that stays open.

The modules here model what decides something over time or over many shapes of input: the
registry, the probe's gates, both kinds of connection, discovery through Avahi, the cloud
account, the Shelly collector, and the way from a document to series. What only spells,
wires or logs is left out (section 7).

## 1. The system

| component | state | operations | talks to |
|---|---|---|---|
| registry (`internal/registry`) | devices with endpoints per (service, interface, protocol), handles, the pin, epochs; an immutable snapshot | add, remove hint, source reset, scrape result, expiry and refresh ticks, coalesced publication | receives events from discovery and results from probes over two channels; one goroutine owns it |
| address policy (`address.go`) | none | score, filter, order, pin | called by the registry |
| probe limiter and backoff (`internal/probe`) | backoff state, result cache, single-flight calls, semaphore | Do: Allow, lookup, join, acquire, probe, record, store, release | called by every `/probe` handler; calls a collector |
| ESPHome connection (`esphome/device.go`, `cache.go`) | transport, cache of entities, states and orphans, ping failures | run: back off, dial, authenticate, enumerate, subscribe, pump | the node, through a client library that calls back from its own goroutine |
| ESPHome manager (`esphome/manager.go`) | goroutine per device, connect semaphore | Sync, Run | registry snapshot; connections |
| runner, server, application (`app`, `server`) | counters, in-flight limit | probe, sd, ready, the ten-second loop that calls Sync | everything |
| Avahi (`discovery/avahi`) | D-Bus session, browsers, resolve semaphore, health | session, watch, consume, resolve, signal router | avahi-daemon; emits events |
| other sources (`static`, `zeroconf`, `shellycloud`, `multi`) | health, retry delay, relay buffers | periodic emission, poll with backoff, browse restart, relay that drops | registry |
| Shelly Cloud client and names (`internal/shellycloud`) | request slot, pacing, names, rooms | post with retries, refresh loop | cloud API; Shelly collector |
| Shelly collector (`internal/shelly`) | identity, client and name caches keyed by epoch | probe, credential resolution | device HTTP API |
| decoders and rendering (`shelly/gen1.go`, `gen2.go`, `generic.go`, `esphome/entities.go`, `collector.go`) | none | a walk over the components or entities of one answer, in map order | emitter, names |
| metrics (`internal/metrics`) | family tables; the series of one scrape | unit resolution, emit | every collector |
| configuration, logging, version | none that changes | read once | |

What is hard, and what makes each part correct:

- **Identity under any order of reports.** A device is reported by name, by a three-byte
  suffix and by its full MAC, in any order, by sources that cannot see each other. What an
  observation shows to be one device must be one identity from then on, and nothing may be
  filed under another's MAC.
- **Summaries kept by hand.** Address list, epoch, LastSeen, the Unverified flag and the dirty
  flag are derived from the endpoints, and every operation must remember to refresh them.
- **Aging against evidence.** Hints, grace periods, two time limits and late stamps: silence
  must end in removal, work must prevent it.
- **Four gates with four locks.** Backoff, cache, single-flight and semaphore are passed by
  interleaved scrapes with deadlines and clients that hang up.
- **Callbacks during a swap.** States arrive on the library's goroutine while the pump
  re-enumerates; no reading may be lost or replaced by an older one.
- **Connections as a scarce resource.** A node has four API slots. Every failure path must
  release one, and no interleaving of Sync, Run and timeouts may lose a goroutine.

- **A daemon heard through signals.** Adds, removes, owner changes, resolves and timers arrive on
  goroutines of their own, buffers drop, subscriptions die silently; what is announced must
  still be verified, and an outage must be seen.
- **One request at a time for two loops.** The cloud's limit is on the account; a refused,
  failed or cancelled request must keep the pause and give the slot back.
- **Caches keyed by an epoch.** Identity, client and names of a Shelly outlive a scrape while
  DHCP and the registry move under them; readings must not be filed under the wrong device.
- **Documents of many shapes.** Nothing a device sends may be dropped on the way to a series, and
  the labels of energy and power must join, in any order of the walk.

`PROJECT.json` lists every hazard at its line, with the properties that are for it.

## 2. Modules

| module | models | notes |
|---|---|---|
| `AddressPolicy` | `registry/address.go` | operators; an address is a value with the attributes the policy reads |
| `Registry` | `registry.go`, `device.go`, `identity.go`, `snapshot.go` | one action per case of the select in `Run`, each the whole handler with its recomputeAddrs, touch and markDirty |
| `RegistryProofs` | | theorems about `Registry` |
| `Limiter` | `probe/limiter.go`, `backoff.go`, `prober.go` | one action per step between two locks; singleflight and the weighted semaphore are external and modelled from their use |
| `LimiterProofs` | | theorems about `Limiter` |
| `EsphomeLife` | | abstract: what the manager relies on in a device goroutine |
| `EsphomeDevice` | `esphome/device.go`, `cache.go`, the client behind `conn.go` | implements `EsphomeLife`: `Life == INSTANCE EsphomeLife WITH life <- ...`, checked as a property |
| `EsphomeDeviceProofs` | | theorems about `EsphomeDevice`: bounds, socket and refinement; then what is shown |
| `EsphomeManager` | `esphome/manager.go` | its goroutines take the steps of `EsphomeLife`, the dial split at the connect semaphore |
| `EsphomeManagerProofs` | | theorems about `EsphomeManager` |
| `AvahiSession` | `discovery/avahi/avahi.go`, `client.go`, `diagnose.go` | bus, daemon and network are actors of the model |
| `AvahiSessionProofs` | | theorems about `AvahiSession` |
| `CloudAccount` | `shellycloud/client.go`, `names.go`, `discovery/shellycloud`, `awaitCloudNames` of `app.go` | the two loops composed over the one client |
| `CloudAccountProofs` | | theorems about `CloudAccount` |
| `ShellyCollector` | `shelly/collector.go`, `client.go`, `auth.go`, `identity.go`, `names.go`, `errors.go` | the scrapes of one device, over the network and the registry's record |
| `ShellyCollectorProofs` | | theorems about `ShellyCollector` |
| `Metrics` | `metrics` families, `naming.go`, emitter | operators used by `Readings` |
| `Readings` | `shelly/gen1.go`, `gen2.go`, `generic.go`, `jsonpath.go`; `esphome/entities.go`, `collector.go` | one document, walked in every order |
| `ReadingsProofs` | | theorems about `Readings` and the tables of `Metrics` |
| `MC...` | | instances for TLC: fleets, firmware builds, documents, model values |

### Registry

`devices`, `aliases` and `snapshot` are the Go maps. `dirty` and `coalesce` are the locals
of `Run`: the timer is idle, armed, or has put its value in the channel. `now` is the
clock; an event or result carries a stamp at most `MaxLag` old. `offered` is not in the
code: it is the set of (id, epoch, address) that a snapshot has shown, that is, what a probe
or connection begun earlier may still report about. `Announcements` are the EventAdd
observations the sources can make; a remove hint of Avahi carries the same fields without
TXT. MACs, suffixes, labels and addresses are model values, `LabelHex` and `MacSuffix` say
which hex digits the code would find in them.

`recomputeAddrs` stands inside each action that calls it. TXT contents, hostnames,
FirstSeen, counters and logs are left out, as nothing in the registry reads them back.

### Limiter

`pc[s]` is how far the handler of scrape `s` has come in `Do`; `left[s]` the rest of its
context's deadline, spent by `Tick` in the queue as much as in the probe. The probe function
ends with success, an auth failure or another device fault; a healthy device answers within
`Latency`, and what ends a probe early is its own deadline or a client that hangs up, which
the code classifies as a timeout. The semaphore hands tokens over first come first served,
as `golang.org/x/sync/semaphore` does. Delays are whole ticks of the two ladders.

### EsphomeDevice and EsphomeManager

A reading is a number drawn from one counter, so that "older" means "smaller". The wire is
a queue from node to client; the reader delivers its head to the state handler, the
disconnect handler, or the call in progress. Assumed of the library: nothing is handed to
a handler after `Conn.Close`, each call eventually returns, and a late answer is read by the
next call of the same kind. A node dumps its readings in an order of its own. The `ReadDeadline` branch of the pump is left out: `touch` runs
just before its comparison, which therefore never holds (see section 6). Delays, counters,
time stamps and `reportAlive` (the registry's `ScrapeSuccess`) are left out.

In the manager, `sync` and `run` hold the position and the locals of the two loops.
`Prune`, `Ensure` and `Insert` are its critical sections; other steps interleave between
them. A fallback dial (Noise, then plaintext) acquires the semaphore twice in the code; here
it is a rest and a new `Dial`. `awaitExit` gives up only while the goroutine has a
connection open, because the library's calls ignore the context.

### AvahiSession

`run` is the position of `Run`, `session` and `watch` with their locals (`everConnected`,
the rung of the reconnect ladder, the reason watch left, the probe failures in a row); `up`
is the health gauge. `conn`, `router`, `signals` and `owner` are the client of one session;
`browser[t]` holds the registration of a type's path, its two channels and its consumer;
`resolver[r]` is a goroutine of `resolve` between its semaphore, its call and its event.
`view` is what the registry was last told of each service. `env` is the bus, the daemon (up,
wedged or gone), what is announced and which subscriptions are alive: a `BrowserWedges` is
silent. `DeliverItem` drops when a channel is full, or the path is not registered yet.
`SessionFails`, `SessionEnds` and `Wake` take the deferred calls in the code's order.

Time is the order of timers. Assumed: half an hour (`rebrowse_interval`) is
longer than anything under way (`Settled`), and the first wait of the ladder is longer than
a cancelled goroutine needs to return. TXT, resolved addresses and the texts of
`diagnose.go` are left out.

### CloudAccount

A caller's `pc` walks through `post`: slot, pause, request, release, retry. `rest` counts
down to `notBefore`; `due` is history: the pause the last response called for, which
`RateKept` compares with. The cloud answers in one of four moods: whole, garbled,
rate-limited, or not at all; what it holds is a version number. `store` is the
`NameStore`, with the rooms that a failed request keeps; `source` is the poll's
health and last report. `wait` is `awaitCloudNames`, before which the poll does not begin.
How long a loop sleeps is left open.

### ShellyCollector

`probe` is the scrape under way with the snapshot of the registry's record it began with;
`identity`, `client` and `names` are the caches' entries for the device, each with the
epoch it was written for and whether its time has passed. `lan` says which device answers at
an address; `Reassign`, `Follow`, `Mislead` and `Rediscover` move addresses and the record
apart and together. `checked` and `forgotten` are history. After `Rediscover` the epochs begin
anew, and an old entry can be warm again: `CheckedBeforeRead` states this exception. A stranger
takes any credential, the worst case. One scrape runs at a time, which the limiter
guarantees (`OneCallPerDevice`).

### Metrics and Readings

A document is a set of components, or entities, each with the readings it has a usable value
for; null, a missing key and a wrong type are one thing to `jsonpath.go`. `left` is what the
walk has not reached, `out` the emitter: series, those emitted twice, errors. `AppRenames`
may come between any two components, as the name store is refreshed concurrently. Families
carry their number of labels, so a reading emitted with a wrong one is an error
as in the code. `WellFormed` says what documents the theorems speak of: a Gen2 component is there
once, a single-phase meter has its newer field names, an
ESPHome entity is known by domain and object id. The last is assumed of the
node: its keys, by which the cache tells entities apart, are hashes of their ids. Nothing is assumed of
how many relays, lights and meters a Gen1 device lists. Values and scales are abstracted.

The leaves of an unknown component are paths of one or two keys (the code descends two levels
further; one shows what joining does), and a key is a sequence of words and separators. `Name` joins a path as
`collectLeaves` does, so that `a_b` and `b` inside `a` are one name; `RawFamily` is `SanitizeName`, so
that `a-b`, `a_b` and `A_b` are one family. `Found` is the set of leaf sets that the order of a Go map
and the check at the door of an object leave possible, `FirstFew` the sorted truncation. Modes and
options of an entity are sequences, possibly empty or with repetitions.

## 3. Runs

Each ends within three minutes with two workers. Deadlock is checked in the registry,
limiter and Shelly runs, and not in the others, because those systems really stop: ESPHome goroutines exit and changes are bounded, Avahi and the cloud have a shutdown after
which nothing is left to do, and a document has an end.

| run | question | bounds, and why they suffice |
|---|---|---|
| `registry_identity` | in every order of reports: is nothing under another's MAC, the Gen1 Shelly one device at once, the Gen2 one as soon as a record links name and MAC, each under its announced name? | a Gen1 Shelly (name with suffix), a Gen2 Shelly whose HTTP record hides its id, both also in the cloud: five observations, all the forms of identity; clock to 1 |
| `registry_merge` | do promotion and merging keep handles, addresses, LastSeen, flags, epochs and the snapshot's freshness through scrapes, hints and expiry? | one device with three slots, an IPv4, an IPv6 and a denied address, the cloud's address changing; limits of 0, so that everything ages at the next tick |
| `registry_live` | is every change published, is every silent device forgotten, is a working address kept? | a Shelly, and a node the operator lists that must not stand in the way; limits of 1 and 2, a hint's grace of 1, clock to 4: past every limit |
| `registry_renamed` | refuted: a working address survives whatever the registry learns | a renamed Gen2 Shelly on two networks, known under two identities that merge after a scrape |
| `limiter` | are tokens and calls conserved, do cache and backoff agree, is every scrape answered, does backoff end? | two scrapes and two devices over one token: a queue, a follower, a hand-over; both ladders up to their cap; every client may hang up |
| `esphome_device` | through faults: no socket leaks, nothing lost or older, connected and current in the end, and `EsphomeLife` | two entities of which an update drops one, room for one entity, two readings, two faults: a fault during recovery from a fault |
| `esphome_manager` | does Sync converge, is everything torn down, is no goroutine lost and none doubled unreported? | two devices, two goroutine names (a third changes nothing and was checked too), three changes of the snapshot, one connect slot |
| `avahi` | is what is announced verified again whatever was lost, is an absence seen, is everything released, does the ladder stay low? | two types over one service, so that one browser is set up while the other delivers; two resolvers over one token; buffers of one, so that drops happen; two upsets: a fault during recovery from a fault |
| `cloud` | is the pause kept across both loops, is the account mirrored, is the slot freed at shutdown? | a pause longer than the gap, one retry, one change of mood, one new version; shutdown at any step |
| `shelly` | whose readings are emitted, and under which name? | two addresses, one stranger, both Gen1 (the harder case: the name is fetched separately, and a stranger's status decodes), two upsets |
| `shelly_credential` | refuted: an override that matches the hostname takes effect | the same device, no upsets |
| `readings` | is nothing dropped, do energy and power join, do generations agree, is a missing value said? | of every component every pair of its readings and all of them; every pair of components; unknown components with nested objects, names that join or are sanitised alike, and more leaves than the limit (2, where the code has 40: within, above and at twice the limit all occur); up to two relays and meters and one light in every combination; every state of every ESPHome domain, every unit and class, options none, some and repeated |

Clocks, epochs, readings, faults and changes are bounded in the guards and named `Max...`.
Ages beyond the largest limit behave alike, so a clock a little above the limits shows every
case. The stamps of events are on time in these runs (`MaxLag` is 0); late ones
are covered by the proofs, which hold for every `MaxLag`. Every property of a passing run has a mutant of the code's definitions, a plausible
mistake, that breaks it.

## 4. Fairness

- *Registry*: the coalescing timer fires; `Publish` and `Expire` are cases of one select
  that stay ready, and Go picks uniformly among ready cases. Events need not arrive.
- *Limiter*: every handler goroutine runs and time passes. Nothing is assumed of clients or devices;
  that a probe ends is its context's deadline.
- *EsphomeDevice*: goroutine, reader, and a node that is up take their steps (weak). Strong
  fairness for `DialSucceeds`, `Leave`, `Ping`, `PingUnanswered` and `RefreshDue`: dials and tickers come again
  and again while other cases of the select compete with them. No fault ever has to happen, and their number is bounded, which is
  what "when node and network stop failing" means in `Converges`.
- *EsphomeManager*: both loops run, a dial ends, a cancelled goroutine winds up. That last is
  what `EsphomeLife` promises and `EsphomeDevice` is checked to keep.
- *AvahiSession*: every goroutine runs (weak fairness each), watchdog, rebrowse and ladder timers fire.
  Nothing is assumed of bus, daemon or network, recovery included: the properties say from
  when on they must be well.
- *CloudAccount*: Go serves blocked senders of a channel in order and picks among ready cases at
  random, hence strong fairness of `TakeSlot` and `Stop`; a request ends by its time limit; timers fire.
- *ShellyCollector*: Prometheus scrapes again; a cache entry's time passes although scrapes renew
  it (strong); a device that answers is announced in the end, which `avahi` checks of its source.
- *Readings*: none; its properties are invariants.

## 5. Proofs

TLAPS proves these for all constants that satisfy the modules' assumptions (distinctness of
model values, naturals, finitely many scrapes, goroutines and services, `DeviceTTL >=
EndpointTTL` and a list of service types that is not empty, as `config.Validate` demands). Each
inductive invariant was first checked by TLC on the instance of the component's run.

**Registry.** `RegistryInv == TypeOK /\ AllDerived`, where `Derived` says of one device that
addresses and refusals are the policy's answer for its endpoints, LastSeen is the later of its
two sources, and an unverified device has no verified endpoint. Types alone are inductive but
say nothing; the derived fields are inductive only with the types, because merging combines two
devices' endpoints. The operators come first (`RecomputeType`, `ObserveDerived`, `MergeDerived`,
`AgedDerived`, ...), then a lemma per action, then `RegistryInvariant`, from which
`TypeCorrect`, `SummariesStayCurrent`, `EpochsMove` and `NothingLostQuietly` follow.
`HandlesAlive` and `NoUpdateIsLost` are inductive on their own.

Who a device is depends on what the network says, and those theorems name it as hypotheses on
`Announcements`, which `ASSUME FleetHypotheses` in `MCRegistry` checks of every fleet.
`NamesAreAnnounced` takes `OnlyCloudUnnamed`, and is inductive with it. `AttributionInvariant`
takes `OneBoardEach(board)`: a name belongs to one board, and the ending in a Gen1 name to no
other; it says that every handle is of the board its device is of, and that short ids come from
announcements only, by the cases of `resolveID` (`ResolveIDCases`, `TargetOfBoard`).
`MacsStayAttributed` follows. For `IdentityIsOne`, `Gen1Single` adds that a board with a Gen1
name is one device, a Shelly, under its short id or its MAC (`Gen1Folded`: an announcement of
it is for that device or folds it in). This takes `Gen1ByNameOrMAC(board)`, which the code
needs: where the cloud first reports the board without a MAC, or the operator lists it under
the cloud's name for it, TLC finds `OneIdentity` violated. That a board may be replaced under
its name, against `OneBoardEach`, is a recorded finding.

The third part, `OwnHandle`, is the Gen2 case: a device's own ID always leads to it. A Gen2 Shelly
that its owner has named is `name:...` to mDNS and `mac:...` to the cloud until its `_shelly._tcp`
record is heard, and no program could know better; from that record on both handles lead to one
device, and `OwnHandle` says that none lives on under the other. A handle an announcement
carries can be a device's own ID only if that device is the target or folded in (`HandleTaken`):
the name is looked up first (`OwnerFirst`), a MAC owner is of the same board, a short id is by
`Gen1Single` the board's only device, and `Identified` (a device goes by what some backend derives)
rules out the rest under `IdentitiesApart`. That hypothesis is needed as well: a static entry named
like a device that mDNS has found takes over its handle, which is a recorded finding.

`WorkingAddressStays` rests on `AllPinned`: the pinned address exists, and none of the endpoints
with that address is older than the last success by more than `MaxLag`. Endpoints age from their
own stamps, so an address that answered within `RemoveGrace` cannot be past `EndpointTTL` if
`MaxLag + RemoveGrace <= EndpointTTL` (5 and 45 minutes are the defaults of the last two), and a
hint evicts no endpoint that answered after it. What remains is that the pinned address stays
first in the list: `PinnedLeads` proves it of the policy's order, where `Listed` and
`MoveToFront` are reasoned about by least counterexample (`LeastNat`), the induction theorems of
the library being unusable here. The other hypothesis, `NeverMerged`, is what the code needs: a
merge overwrites the survivor's endpoints with older ones, and `registry_renamed` shows the
address lost.

**Limiter.** `LimiterInv == Types /\ Calls /\ Line /\ TokensConserved /\ Story`. `Calls` ties a
call to its leader in both directions, which gives `NeverProbedTwiceAtOnce`. `Line` (queued
scrapes stand in the queue, once) is what lets a hand-over move a token between two scrapes
without changing the count, so `TokensAreConserved`. `Story` allows the cache to lag behind the
backoff between recording and storing, and only for the device in flight, which gives
`CacheAndBackoffAgree`. Each action has a lemma with one step per part. `DelaysAreCapped` adds what
`Types` leaves open, that a delay is never above the ladder's top with its jitter: `Power` is a
recursive function, and that it has its values for every exponent is proved by least counterexample.

**Cloud account.** `CloudInv == Types /\ SlotHeld /\ Covered /\ HeldBack`. `SlotHeld` puts the
slot with the loop whose request it is, so that requests exclude one another. `Covered` relates
the pause (`rest`) to what the last response called for (`due`): once released, rest is at least
due; until then the release is about to set it. Neither suffices alone: covering survives the
other loop's steps only because there is one holder. `HeldBack` keeps the start of discovery
from interrupting a request. `RateIsKept` follows, since only `Send` begins a request, with rest
at 0; `CloudTypes` is the module's `TypeOK`, which no run spends time on.

**ESPHome connection.** `StepsImplementLife` is the safety part of `ImplementsLife`: the initial
states of `EsphomeDevice` are ones of `EsphomeLife`, and every action maps to a step of it or to
none, with `DialSucceeds` the only one that connects and every way out of a session a `Close`.
`DeviceInvariant` proves `DeviceInv`, which is inductive as it stands. The work is in two
cardinalities: `Truncate` keeps at most `MaxEntities`, because ranking the listed keys by how
many come before them is injective into `0 .. MaxEntities - 1`; and an orphan is taken only when
there is room or it replaces one of the same key.

What is shown takes three more layers. `OrderInv` says that an entity
has its value in one of the two maps (`Kept`), and that what is kept, in transit (`About`) and
at the node come in the order of their numbers. A swap moves a value from map to map and never
drops a newer one, so `ReadingsOnlyAdvance`. `BuildsInv` says that the entities are those of one
build `v` (`Listed(v)`) and that no answer still to be read is of an older one. It is needed
because a re-enumeration compares builds across two calls, and gives `ConnectedStaysEnumerated`.
`LatestInv` says of every key that the node's reading is in transit, or kept, or its entity was
dropped for good (`Told`). From these follows `ShownStaysCurrent`.

That theorem has two hypotheses on the constants, because the code needs them. `OrphansFit`:
with a full orphan buffer `putState` drops a state (a recorded finding). `NoneReturns`: if one
build drops an entity and a later one takes it up again while the connection lasts, its state in
between is dropped with the rest, and nothing asks for it again; with three builds `<<{1,2},
{2}, {1}>>` TLC finds `ShownIsCurrent` violated. A flash ordinarily ends the connection, and
with it the difficulty. An `ASSUME` in `MCEsphomeDevice` checks that the run's instance
satisfies both. Of this module, no other theorem has hypotheses.

**ESPHome manager.** `ConnectionsAccounted` is not inductive: it says nothing of the goroutines
Sync has taken off the map and not stopped yet. `ManagerInv` adds them: `Pending` are in Sync's
hands, `Apart` puts no replacement on the map before they are dealt with, `Traced` finds every
live goroutine on the map, pending or reported, and `Positions` ties the locals of the two loops
to where they stand. The semaphore's bound is a cardinality that only `Acquire` raises, which
counts first.

**Avahi session.** `SupervisorInv` adds to `SessionInv`: `Routed`, an established connection has
its router until it breaks; `Browsing`, the daemon has browsers only for a connection that is
open; `Gauge`, the health is up before the first success only in a session that is watched; and
`InRange`, for the index of the type being browsed. `SessionsStayReleased` and
`ClosedOnlyWhenBroken` follow at once; `FatalBeforeFirstSession` takes `Gauge`, and the fact
that only a failed set-up makes `Run` give up.

**Shelly collector.** `CollectorInv` says that past its lookup a scrape has the client and the
names of its epoch, and bounds the epoch by an account: the registry can follow the device only
when it was astray, and every upset leads it astray once at most. `CheckInv` is what makes a
warm identity worth anything: until the device is forgotten, an epoch stands for one address, so
what was checked at this epoch was checked at this address, and only a reassignment undoes it,
which `checked` records. `CheckedBeforeItIsRead` and `NamesAreKept` follow.

**Readings.** The content is in the tables, so the tables come first: every reading of an extractor
goes to a registered family with the number of labels that family has (`ExtractorsFit`,
`Gen1Fits`, `RenderedIs`), and no two readings of one component have the same labels, but for
what `KnownTwice` names (`ReadingsApart`, `Gen1Apart`, `RawAre`, `ChoicesAre`, `RenderedIs`). `EmitIs` says what that means in the
emitter: nothing is refused, and a series is there twice only if it was there before. That it was
not there before takes an invariant on the walk, one for each kind of document. `Gen2Inv`: every
series but the header's is of a component that was walked (`Whence`), and what those read is
there. Energy and power of a meter are of two components that share a label, which `Whence` tells
apart by the family. `Gen1Inv` and `EsphomeInv` are the same for a document decoded at once and
for the entities of a snapshot. From these follow `EnergyAlwaysJoinsPower`,
`Gen1AlwaysMatchesGen2`, `MissingIsAlwaysSaid` and `NothingIsDropped`. All take `Sent`, that documents are
`WellFormed`, which `ASSUME DocumentHypotheses` in `MCReadings` checks of the run's; the last two take
`PercentAsRatio`, which is the default: without it the code does drop readings, as
TLC shows with `PercentAsRatio` set to FALSE in `Readings.cfg`.

**Only model-checked**: all liveness, and with it the fairness part of `ImplementsLife`
(temporal formulas and ENABLED are out of the prover's reach), and the property of `shelly_credential`, which is refuted. Every
safety invariant of a passing run is a theorem, some under hypotheses named above.

## 6. Where code and documentation part

Two runs refute something the repository says:

- `registry_renamed`: a merge sets the survivor's endpoints back to older observations, so that an
  address confirmed by a scrape expires moments later.
- `shelly_credential`: a client built before the hostname is known keeps its credential for as
  long as the addresses stay the same; the matching override never takes effect.

`PROJECT.json` quotes these and the ones no run is spent on:

- units: with `percent_as_ratio` off, a percentage of no known class leads to a family that
  does not exist, and is dropped (set `PercentAsRatio` to FALSE and `NothingDropped` fails);
- registry: a replaced board under the same name is taken for the old one; a change of port
  does not move the epoch; epochs are reused after a device is forgotten; the Unverified flag
  after expiry; static ids promoted by discovery; a static entry named like a discovered device;
- probe: overload blamed on the device; more than one attempt per half-open window; a
  backoff nothing resets; the address a shared result is reported for; followers that
  ignore their deadline; a timeout clamped past Prometheus's;
- ESPHome: plaintext that sticks (set `Migrates` to TRUE in `EsphomeDevice.cfg` and
  `Converges` fails); the full orphan buffer; the read deadline that never fires; the NaN of a
  climate entity;
- Avahi: `Required` cleared too late; set-up calls without a deadline; `avahi_up` between sessions;
- Shelly: a warm identity after DHCP; `em1` and `voltmeter` emit one series twice;
  which generic leaves survive truncation depends on map order; leaves of an unknown component
  whose names are sanitised alike share a series, or overwrite each other before that; Gen1 meters
  without an output that is listed have watts and no state; energy and power carry different names
  in a scrape during which the app renames;
- application: shutdown is simultaneous, and the listener races the backends.

The passing properties are stated around these where they touch them, and each says so in its comment
(`KnownTwice` in `Readings`, `forgotten` in `ShellyCollector`).

## 7. Not modelled, and the plan

Not modelled, and why:

- *HTTP server*: stateless handlers over a snapshot and a try-acquire of one channel.
- *Configuration, logging, version*: read once, or without behaviour; `config.Validate` justifies
  assumptions on constants.
- *Static list, zeroconf, `multi`*: a channel, a health flag and a retry delay, nothing that two
  steps could make inconsistent; their events are inputs of the registry. How often the relay drops depends on rates.
- *Construction in `app.go`, the self-metrics loop*: wiring and reading of counters. `Sync`,
  which that loop calls, is in `EsphomeManager`.
- *Payloads*: TXT, scales, help texts, entity metadata, the texts of errors.

The order of what is left:

1. `ProbePath`: limiter and registry composed through the runner, for the address a shared
   success is reported for.
2. `PublishedView`, an abstract registry (devices that appear, move and go) that `Registry`
   implements.
