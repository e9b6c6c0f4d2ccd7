----------------------------- MODULE EsphomeDevice -----------------------------
(***************************************************************************)
(* One connection to one ESPHome node: internal/esphome/device.go (the     *)
(* goroutine device.run), cache.go (what a probe is shown) and the library *)
(* client behind the Conn interface of conn.go.  Three parties interleave: *)
(* the goroutine, the client's reader, which hands each message of the     *)
(* wire to a handler as it arrives, and the node, which reports readings,  *)
(* reboots, hangs up, vanishes and is flashed with other firmware.         *)
(*                                                                         *)
(* A reading is a number: every report of any entity takes the next one,   *)
(* so that of two readings the later is the larger; 0 is no reading.       *)
(* Durations, counters and the reason of a failure are left out.           *)
(***************************************************************************)
EXTENDS Integers, Sequences, SequencesExt, FiniteSets

CONSTANTS
    Keys,               \* entity keys, in their numeric order
    Firmwares,          \* the entities that each build of the firmware lists
    MaxEntities, MaxOrphans, PingFailThreshold,
    HasKey, RequireEncryption, HasPassword,     \* the configuration
    Migrates,           \* whether the node may turn its encryption on or off
    MaxSeq,             \* bound: readings the node takes
    MaxWire,            \* bound: messages in transit when the node reports
    MaxFaults           \* bound: faults of node and network together

ASSUME DeviceAssumption ==
    /\ Keys \subseteq Nat /\ IsFiniteSet(Keys)
    /\ Firmwares \in Seq(SUBSET Keys) /\ Firmwares # <<>>
    /\ {MaxEntities, MaxOrphans, PingFailThreshold, MaxSeq, MaxWire, MaxFaults} \subseteq Nat
    /\ {HasKey, RequireEncryption, HasPassword, Migrates} \subseteq BOOLEAN
    /\ RequireEncryption => HasKey

VARIABLES
    pc,         \* where device.run is
    mode,       \* the transport being dialled
    transport,  \* device.transport, sticky
    misses,     \* consecutive pings without an answer
    cancelled,  \* the goroutine's context is done
    open,       \* sockets dialled and not yet closed
    cache,      \* deviceCache
    answer,     \* what the reader handed to the call in progress
    bye, done,  \* the channels `disconnected' and Conn.Done, closed or not
    link,       \* the node's end of the socket: "none", "live", "cut"
    asked,      \* the request the node has not answered
    dump,       \* SubscribeStates: "none", "asked", "sent"
    wire,       \* messages from the node, in order
    node, seq, faults

client == <<answer, bye, done>>
line   == <<link, asked, dump, wire>>
world  == <<node, seq, faults>>
vars   == <<pc, mode, transport, misses, cancelled, open, cache, client, line, world>>

Versions == DOMAIN Firmwares
Nobody   == [k \in Keys |-> 0]

\* The calls device.run waits in, and the message that answers each.
Awaited == [auth |-> "auth", info |-> "info", reinfo |-> "info",
            list |-> "list", relist |-> "list"]
\* Between setConnected(true) and the return of session.
Serving == {"up", "reinfo", "relist"}
Session == {"auth", "info", "list", "subscribe"} \cup Serving

Fault == faults > 0 /\ faults' = faults - 1

-----------------------------------------------------------------------------
(* The cache *)

\* enumerate: the entities kept when the node lists too many, the smallest keys.
Truncate(listed) == {k \in listed : Cardinality({j \in listed : j < k}) < MaxEntities}

\* Mutant: of an entity not yet listed, the first state is kept.
PutFirst(k, v) ==
    cache' = IF k \in cache.entities
             THEN [cache EXCEPT !.states[k] = v]
             ELSE [cache EXCEPT !.orphans[k] = IF @ = 0 THEN v ELSE @]

\* putState: a state of an entity not yet listed waits among the orphans.
PutState(k, v) ==
    cache' = IF k \in cache.entities
             THEN [cache EXCEPT !.states[k] = v]
             ELSE IF Cardinality({j \in Keys : cache.orphans[j] # 0}) < MaxOrphans
             THEN [cache EXCEPT !.orphans[k] = v]
             ELSE cache

\* Mutant: nothing is carried over but the orphans.
SwapBlank(listed) ==
    LET next == Truncate(listed)
    IN  [cache EXCEPT
            !.entities  = next,
            !.truncated = next # listed,
            !.states    = [k \in Keys |-> IF k \in next THEN cache.orphans[k] ELSE 0],
            !.orphans   = [k \in Keys |-> IF k \in next THEN 0 ELSE cache.orphans[k]]]

\* swapEntities: the listed entities replace the old ones; their values and the orphans
\* among them are carried over.
Swap(listed) ==
    LET next == Truncate(listed)
    IN  [cache EXCEPT
            !.entities  = next,
            !.truncated = next # listed,
            !.states    = [k \in Keys |-> IF k \notin next THEN 0
                                          ELSE IF cache.orphans[k] # 0 THEN cache.orphans[k]
                                          ELSE cache.states[k]],
            !.orphans   = [k \in Keys |-> IF k \in next THEN 0 ELSE cache.orphans[k]]]

-----------------------------------------------------------------------------
(* device.run: connecting *)

\* Mutant: the loop starts a session without a look at the context.
WakeUpAnyway ==
    /\ pc = "waiting"
    /\ mode' = IF transport # "unknown" THEN transport
               ELSE IF HasKey THEN "noise" ELSE "plaintext"
    /\ pc' = "dial"
    /\ UNCHANGED <<transport, misses, cancelled, open, cache, client, line, world>>

\* The loop starts a session, or sees that the context is done.  connect tries the
\* transport that once worked, or Noise first when there is a key.
WakeUp ==
    /\ pc = "waiting"
    /\ ~cancelled
    /\ mode' = IF transport # "unknown" THEN transport
               ELSE IF HasKey THEN "noise" ELSE "plaintext"
    /\ pc' = "dial"
    /\ UNCHANGED <<transport, misses, cancelled, open, cache, client, line, world>>

Accepts(m) == node.up /\ (m = "noise") = node.enc

Call(kind) == asked' = kind /\ answer' = <<>>

DialSucceeds ==
    /\ pc = "dial"
    /\ Accepts(mode)
    /\ open' = open + 1
    /\ link' = "live" /\ dump' = "none" /\ wire' = <<>>
    /\ IF HasPassword THEN pc' = "auth" /\ Call("auth") ELSE pc' = "info" /\ Call("info")
    /\ transport' = IF HasPassword THEN transport ELSE mode
    /\ bye' = FALSE /\ done' = FALSE
    /\ UNCHANGED <<mode, misses, cancelled, cache, world>>

\* A failed Noise handshake falls back to plaintext once, unless the transport is decided.
DialFails ==
    /\ pc = "dial"
    /\ \/ (~Accepts(mode) \/ cancelled) /\ UNCHANGED faults
       \/ Fault
    /\ IF mode = "noise" /\ transport = "unknown" /\ ~RequireEncryption
       THEN mode' = "plaintext" /\ UNCHANGED pc
       ELSE pc' = "ended" /\ UNCHANGED mode
    /\ UNCHANGED <<transport, misses, cancelled, open, cache, client, line, node, seq>>

Answered == answer # <<>>

\* A call of the client fails once the connection is closed, and when the node's answer
\* does not come in time.
Fails ==
    /\ ~Answered
    /\ \/ (done \/ link = "cut") /\ UNCHANGED faults
       \/ Fault

\* session returns: the handlers are removed and the socket is closed.
Hangup ==
    /\ pc' = "ended"
    /\ misses' = 0
    /\ open' = open - 1
    /\ link' = "none" /\ asked' = "none" /\ dump' = "none" /\ wire' = <<>>
    /\ answer' = <<>> /\ bye' = FALSE /\ done' = FALSE

\* authenticate, with the legacy password.
Authenticated ==
    /\ pc = "auth" /\ Answered
    /\ pc' = "info" /\ Call("info")
    /\ transport' = mode
    /\ UNCHANGED <<mode, misses, cancelled, open, cache, bye, done, link, dump, wire, world>>

\* Mutant: connect forgets the socket of a rejected password.
AuthFailsOpen ==
    /\ pc = "auth" /\ Fails
    /\ pc' = "ended"
    /\ link' = "none" /\ asked' = "none" /\ dump' = "none" /\ wire' = <<>>
    /\ answer' = <<>> /\ bye' = FALSE /\ done' = FALSE
    /\ UNCHANGED <<mode, transport, misses, cancelled, open, cache, node, seq>>

\* The password is rejected, or nothing comes within the handshake timeout: connect
\* closes the socket itself, and the transport stays undecided.
AuthFails ==
    /\ pc = "auth" /\ Fails
    /\ Hangup
    /\ UNCHANGED <<mode, transport, cancelled, cache, node, seq>>

-----------------------------------------------------------------------------
(* device.run: session *)

Listing == Firmwares[answer[2]]

DeviceInfo ==
    /\ pc = "info" /\ Answered
    /\ cache' = [cache EXCEPT !.info = answer[2]]
    /\ pc' = "list" /\ Call("list")
    /\ UNCHANGED <<mode, transport, misses, cancelled, open, bye, done, link, dump, wire, world>>

Enumerate ==
    /\ pc = "list" /\ Answered
    /\ cache' = Swap(Listing)
    /\ pc' = "subscribe"
    /\ answer' = <<>>
    /\ UNCHANGED <<mode, transport, misses, cancelled, open, bye, done, line, world>>

\* SubscribeStates only sends; session then watches for a DisconnectRequest and shows the
\* device as connected.
Subscribe ==
    /\ pc = "subscribe" /\ ~done
    /\ pc' = "up"
    /\ dump' = "asked"
    /\ cache' = [cache EXCEPT !.connected = TRUE]
    /\ UNCHANGED <<mode, transport, misses, cancelled, open, client, link, asked, wire, world>>

SubscribeFails ==
    /\ pc = "subscribe" /\ (done \/ link = "cut")
    /\ Hangup
    /\ UNCHANGED <<mode, transport, cancelled, cache, world>>

\* DeviceInfo or ListEntities fails: so does the session.
CallFails ==
    /\ pc \in {"info", "list", "relist"} /\ Fails
    /\ Hangup
    /\ UNCHANGED <<mode, transport, cancelled, cache, node, seq>>

-----------------------------------------------------------------------------
(* device.run: pump.  A select takes any of its ready cases. *)

\* The context, the peer or the node's DisconnectRequest ends the session.
Leave ==
    /\ pc = "up"
    /\ cancelled \/ done \/ bye
    /\ Hangup
    /\ UNCHANGED <<mode, transport, cancelled, cache, world>>

Ping ==
    /\ pc = "up"
    /\ link = "live"
    /\ misses > 0           \* otherwise nothing changes
    /\ misses' = 0
    /\ UNCHANGED <<pc, mode, transport, cancelled, open, cache, client, line, world>>

\* The consecutive failure that reaches the threshold ends the session.
MissPing ==
    /\ pc = "up"
    /\ IF misses + 1 >= PingFailThreshold
       THEN Hangup
       ELSE misses' = misses + 1 /\ UNCHANGED <<pc, open, client, line>>
    /\ UNCHANGED <<mode, transport, cancelled, cache, node, seq>>

PingUnanswered == (done \/ link = "cut") /\ MissPing /\ UNCHANGED faults
PingDelayed    == Fault /\ MissPing

RefreshDue ==
    /\ pc = "up"
    /\ pc' = "reinfo" /\ Call("info")
    /\ UNCHANGED <<mode, transport, misses, cancelled, open, cache, bye, done, link, dump,
                   wire, world>>

RefreshFails ==
    /\ pc = "reinfo" /\ Fails
    /\ pc' = "up"
    /\ UNCHANGED <<mode, transport, misses, cancelled, open, cache, client, line, node, seq>>

\* Mutant: a refresh updates the build but lists nothing.
RefreshedOnly ==
    /\ pc = "reinfo" /\ Answered
    /\ cache' = [cache EXCEPT !.info = answer[2]]
    /\ pc' = "up" /\ answer' = <<>>
    /\ UNCHANGED <<mode, transport, misses, cancelled, open, bye, done, line, world>>

\* Entities are listed again only for a build other than the one last seen.
Refreshed ==
    /\ pc = "reinfo" /\ Answered
    /\ IF answer[2] = cache.info
       THEN pc' = "up" /\ answer' = <<>> /\ UNCHANGED <<cache, asked>>
       ELSE /\ cache' = [cache EXCEPT !.info = answer[2]]
            /\ pc' = "relist" /\ Call("list")
    /\ UNCHANGED <<mode, transport, misses, cancelled, open, bye, done, link, dump, wire, world>>

Relisted ==
    /\ pc = "relist" /\ Answered
    /\ cache' = Swap(Listing)
    /\ pc' = "up"
    /\ answer' = <<>>
    /\ UNCHANGED <<mode, transport, misses, cancelled, open, bye, done, line, world>>

\* run, after session: a cancelled goroutine exits and leaves its cache as it is.
Ended ==
    /\ pc = "ended"
    /\ IF cancelled
       THEN pc' = "exited" /\ UNCHANGED cache
       ELSE pc' = "waiting" /\ cache' = [cache EXCEPT !.connected = FALSE]
    /\ UNCHANGED <<mode, transport, misses, cancelled, open, client, line, world>>

\* The backoff timer and the context: both find the context done.
Exit ==
    /\ pc = "waiting" /\ cancelled
    /\ pc' = "exited"
    /\ UNCHANGED <<mode, transport, misses, cancelled, open, cache, client, line, world>>

\* The manager cancels the goroutine.
Cancel ==
    /\ ~cancelled
    /\ cancelled' = TRUE
    /\ UNCHANGED <<pc, mode, transport, misses, open, cache, client, line, world>>

-----------------------------------------------------------------------------
(* The client's reader, on a socket that is still open *)

Arrives(type) == pc \in Session /\ wire # <<>> /\ Head(wire)[1] = type /\ wire' = Tail(wire)

DeliverState ==
    /\ Arrives("state")
    /\ PutState(Head(wire)[2], Head(wire)[3])
    /\ UNCHANGED <<pc, mode, transport, misses, cancelled, open, client, link, asked, dump, world>>

\* Nobody listens for a DisconnectRequest before the session is up.
DeliverBye ==
    /\ Arrives("bye")
    /\ bye' = (bye \/ pc \in Serving)
    /\ UNCHANGED <<pc, mode, transport, misses, cancelled, open, cache, answer, done, link,
                   asked, dump, world>>

DeliverEof ==
    /\ Arrives("eof")
    /\ done' = TRUE
    /\ UNCHANGED <<pc, mode, transport, misses, cancelled, open, cache, answer, bye, link,
                   asked, dump, world>>

\* An answer goes to the call that waits for its kind, also the late answer to an
\* earlier one; with no such call it is dropped.
DeliverAnswer ==
    /\ \E kind \in {"auth", "info", "list"} :
          /\ Arrives(kind)
          /\ answer' = IF pc \in DOMAIN Awaited /\ Awaited[pc] = kind /\ ~Answered
                       THEN Head(wire) ELSE answer
    /\ UNCHANGED <<pc, mode, transport, misses, cancelled, open, cache, bye, done, link,
                   asked, dump, world>>

-----------------------------------------------------------------------------
(* The node *)

Answer ==
    /\ link = "live" /\ asked # "none"
    /\ wire' = Append(wire, <<asked, node.fw>>)
    /\ asked' = "none"
    /\ UNCHANGED <<pc, mode, transport, misses, cancelled, open, cache, client, link, dump, world>>

State(k, v) == <<"state", k, v>>

\* A subscription is answered with the current state of every entity that has one, in an
\* order of the node's own.
Dump ==
    /\ link = "live" /\ dump = "asked"
    /\ \E keys \in SetToSeqs({k \in Keys : node.reading[k] # 0}) :
          wire' = wire \o [i \in DOMAIN keys |-> State(keys[i], node.reading[keys[i]])]
    /\ dump' = "sent"
    /\ UNCHANGED <<pc, mode, transport, misses, cancelled, open, cache, client, link, asked, world>>

Report(k) ==
    /\ node.up /\ k \in Firmwares[node.fw]
    /\ seq < MaxSeq
    /\ dump = "sent" => Len(wire) < MaxWire
    /\ seq' = seq + 1
    /\ node' = [node EXCEPT !.reading[k] = seq']
    /\ wire' = IF dump = "sent" /\ link = "live" THEN Append(wire, State(k, seq')) ELSE wire
    /\ UNCHANGED <<pc, mode, transport, misses, cancelled, open, cache, client, link, asked,
                   dump, faults>>

\* The node's end of the socket goes, after the given last words.
Cut(words) ==
    IF link = "live"
    THEN link' = "cut" /\ wire' = wire \o words
    ELSE UNCHANGED <<link, wire>>

\* An announced reboot, maybe into the next build, which may turn encryption on or off.
Reboot(fw, enc) ==
    /\ node.up /\ fw \in Versions \cap {node.fw, node.fw + 1}
    /\ enc = node.enc \/ (Migrates /\ fw # node.fw)
    /\ Fault
    /\ Cut(<< <<"bye">>, <<"eof">> >>)
    /\ node' = [node EXCEPT !.up = FALSE, !.fw = fw, !.enc = enc, !.reading = Nobody]
    /\ UNCHANGED <<pc, mode, transport, misses, cancelled, open, cache, client, asked, dump, seq>>

\* Power is lost, and nobody tells the exporter.
PowerLoss ==
    /\ node.up
    /\ Fault
    /\ Cut(<<>>)
    /\ node' = [node EXCEPT !.up = FALSE, !.reading = Nobody]
    /\ UNCHANGED <<pc, mode, transport, misses, cancelled, open, cache, client, asked, dump, seq>>

\* The connection is reset: a slow reader, a password wanted, a full API slot.
Reset ==
    /\ link = "live"
    /\ Fault
    /\ Cut(<< <<"eof">> >>)
    /\ UNCHANGED <<pc, mode, transport, misses, cancelled, open, cache, client, asked, dump,
                   node, seq>>

\* "An OTA that somehow did not drop the connection."
Flash ==
    /\ node.up /\ node.fw + 1 \in Versions
    /\ Fault
    /\ node' = [node EXCEPT !.fw = @ + 1,
                            !.reading = [k \in Keys |-> IF k \in Firmwares[node.fw + 1]
                                                        THEN node.reading[k] ELSE 0]]
    /\ UNCHANGED <<pc, mode, transport, misses, cancelled, open, cache, client, line, seq>>

Boot ==
    /\ ~node.up
    /\ node' = [node EXCEPT !.up = TRUE]
    /\ UNCHANGED <<pc, mode, transport, misses, cancelled, open, cache, client, line, seq, faults>>

-----------------------------------------------------------------------------

\* The node speaks a transport that the configuration can negotiate.
Negotiable(enc) == IF enc THEN HasKey ELSE ~RequireEncryption

Init ==
    /\ pc = "waiting" /\ mode = "plaintext" /\ transport = "unknown"
    /\ misses = 0 /\ cancelled = FALSE /\ open = 0
    /\ cache = [connected |-> FALSE, info |-> 0, entities |-> {}, truncated |-> FALSE,
                states |-> Nobody, orphans |-> Nobody]
    /\ answer = <<>> /\ bye = FALSE /\ done = FALSE
    /\ link = "none" /\ asked = "none" /\ dump = "none" /\ wire = <<>>
    /\ node \in [up : {TRUE}, fw : {1}, enc : {e \in BOOLEAN : Negotiable(e)},
                 reading : {Nobody}]
    /\ seq = 0 /\ faults = MaxFaults

Run ==
    \/ WakeUp \/ DialSucceeds \/ DialFails \/ Authenticated \/ AuthFails
    \/ DeviceInfo \/ Enumerate \/ Subscribe \/ SubscribeFails \/ CallFails
    \/ Leave \/ Ping \/ PingUnanswered \/ PingDelayed \/ RefreshDue \/ RefreshFails \/ Refreshed \/ Relisted
    \/ Ended \/ Exit

Reader == DeliverState \/ DeliverBye \/ DeliverEof \/ DeliverAnswer

Node ==
    \/ Answer \/ Dump \/ PowerLoss \/ Reset \/ Flash \/ Boot
    \/ \E k \in Keys : Report(k)
    \/ \E fw \in Versions, enc \in BOOLEAN : Reboot(fw, enc)

Next == Run \/ Reader \/ Node \/ Cancel

\* Goroutines run, the library's calls return, a select takes a case that is ready again
\* and again, and a node that is up answers.  A fault never has to happen.
Fairness ==
    /\ WF_vars(Run) /\ WF_vars(Reader)
    /\ WF_vars(Answer) /\ WF_vars(Dump) /\ WF_vars(Boot)
    /\ SF_vars(DialSucceeds) /\ SF_vars(Leave) /\ SF_vars(Ping) /\ SF_vars(RefreshDue)
    /\ SF_vars(PingUnanswered)

Spec == Init /\ [][Next]_vars /\ Fairness

-----------------------------------------------------------------------------
(* Properties *)

Readings == [Keys -> 0 .. MaxSeq]
Messages == {<<"bye">>, <<"eof">>} \cup ({"auth", "info", "list"} \X Versions)
              \cup ({"state"} \X Keys \X (1 .. MaxSeq))

RunTyped ==
    /\ pc \in {"waiting", "dial", "ended", "exited"} \cup Session
    /\ mode \in {"noise", "plaintext"} /\ transport \in {"unknown", "noise", "plaintext"}
    /\ misses \in 0 .. PingFailThreshold /\ open \in Nat
    /\ {cancelled, bye, done} \subseteq BOOLEAN
    /\ answer \in {<<>>} \cup ({"auth", "info", "list"} \X Versions)

CacheTyped ==
    /\ cache \in [connected : BOOLEAN, info : Versions \cup {0}, entities : SUBSET Keys,
                  truncated : BOOLEAN, states : Readings, orphans : Readings]
    /\ Cardinality({k \in Keys : cache.orphans[k] # 0}) <= MaxOrphans
    /\ Cardinality(cache.entities) <= MaxEntities

NodeTyped ==
    /\ link \in {"none", "live", "cut"} /\ dump \in {"none", "asked", "sent"}
    /\ asked \in {"none", "auth", "info", "list"}
    /\ wire \in Seq(Messages)
    /\ node \in [up : BOOLEAN, fw : Versions, enc : BOOLEAN, reading : Readings]
    /\ seq \in 0 .. MaxSeq /\ faults \in 0 .. MaxFaults

\* Every variable keeps its type, the buffer of orphans its bound and the entities theirs.
TypeOK == RunTyped /\ CacheTyped /\ NodeTyped

\* The goroutine holds one of the node's few API slots while a session runs, and none
\* when it dials, rests or has exited: no path out of connect or session leaks a socket.
OneSocket == open = IF pc \in Session THEN 1 ELSE 0

\* The bounds and the socket together: the node's scarce slots and the exporter's memory of it
\* keep their limits on every path.
DeviceInv == TypeOK /\ OneSocket

\* A device is shown as connected only while its session runs (and until run has seen
\* session return), with the entities of one build, no older than the build the session
\* last asked for: an enumeration never falls behind the DeviceInfo it is compared with.
ConnectedIsEnumerated ==
    cache.connected /\ ~cancelled =>
        /\ pc \in Serving \cup {"ended"}
        /\ pc # "relist" /\ pc # "ended" =>
             \E v \in cache.info .. node.fw : cache.entities = Truncate(Firmwares[v])

\* Two things ShownIsCurrent depends on beyond the bounds of one connection (see section 5 of the
\* README).  The buffer of orphans has room for what an enumeration leaves out, and for one more.
OrphansFit == \A v \in Versions : Cardinality(Keys \ Truncate(Firmwares[v])) < MaxOrphans

\* No build takes up again an entity that an earlier one has dropped.
NoneReturns ==
    \A u, v, w \in Versions :
        u < v /\ v < w => Truncate(Firmwares[u]) \cap Truncate(Firmwares[w]) \subseteq Truncate(Firmwares[v])

\* What the node reported of a listed entity is what a probe is shown, once nothing of
\* that entity is in transit: no state is lost between subscription, orphans and swap.
LatestShown ==
    link = "live" /\ dump = "sent" =>
        \A k \in cache.entities :
            node.reading[k] = 0
              \/ cache.states[k] = node.reading[k]
              \/ \E i \in DOMAIN wire : wire[i] = State(k, node.reading[k])

\* An orphan is the latest state received of its entity, so a swap never brings back an
\* older one ("discarding one that lands mid-swap would leave, say, a total_daily_energy
\* blank until its next natural update").
OrphansAreLatest ==
    link = "live" /\ dump = "sent" =>
        \A k \in Keys :
            cache.orphans[k] = 0 \/ node.reading[k] = 0
              \/ cache.orphans[k] = node.reading[k]
              \/ \E i \in DOMAIN wire : wire[i] = State(k, node.reading[k])

\* What a probe is shown is what the node has said, through enumerations, swaps and
\* reconnects: nothing is lost between the subscription and the two maps of the cache, and
\* nothing of another build or an earlier moment is brought back.
ShownIsCurrent == ConnectedIsEnumerated /\ LatestShown /\ OrphansAreLatest

\* No swap, reconnect or late message blanks a surviving entity or makes it older.
ReadingsNeverGoBack ==
    [][\A k \in cache.entities \cap cache.entities' :
          cache.states[k]' >= cache.states[k]]_vars

\* When node and network stop failing, the device ends up connected and shows the
\* entities and the readings that the node has.
Converges ==
    <>[](\/ cancelled
         \/ /\ cache.connected /\ link = "live"
            /\ cache.entities = Truncate(Firmwares[node.fw])
            /\ \A k \in cache.entities :
                  node.reading[k] # 0 => cache.states[k] = node.reading[k])

\* The goroutine does what the manager counts on: one connection at a time, and an exit
\* after Cancel.
Life == INSTANCE EsphomeLife WITH
            life <- CASE pc = "exited"  -> "exited"
                      [] pc = "dial"    -> "dialling"
                      [] pc \in Session -> "open"
                      [] OTHER          -> "resting"

ImplementsLife == Life!Spec
=============================================================================
