----------------------------- MODULE AvahiSession -----------------------------
(***************************************************************************)
(* Discovery through avahi-daemon: internal/discovery/avahi.  Run          *)
(* supervises one session at a time: a D-Bus connection and its handshake, *)
(* a browser and a consumer goroutine per service type, a router goroutine *)
(* that hands the daemon's signals to the browsers, a goroutine per        *)
(* resolve, and the watch that ends it all.  The daemon, the bus and the   *)
(* network are modelled from what the code sees of them; what the registry *)
(* has been told of a service is in view.                                  *)
(***************************************************************************)
EXTENDS Integers, Sequences, FiniteSets

CONSTANTS
    Services,
    Types,              \* the service types browsed, in the order of the configuration
    TypeOf,             \* the type of each service
    Resolvers,          \* bound: goroutines resolving at a time
    ResolveConcurrency,
    BrowserBuffer,      \* capacity of a browser's channels (browserBuffer)
    Required,           \* discovery.avahi.required
    MaxBackoff,         \* doublings of reconnect_min within reconnect_max
    MaxSignals,         \* bound: signals on their way to the router
    MaxUpsets,          \* bound: announcements, goodbyes and faults together
    NoService

ASSUME AvahiAssumption ==
    /\ NoService \notin Services /\ IsFiniteSet(Services) /\ IsFiniteSet(Resolvers)
    /\ Len(Types) \in Nat \ {0}         \* config.Validate refuses an empty list
    /\ ResolveConcurrency \in Nat \ {0} /\ BrowserBuffer \in Nat \ {0}
    /\ MaxBackoff \in Nat /\ Required \in BOOLEAN

VARIABLES
    run,        \* Run, session and watch: where they are and their local variables
    up,         \* Discoverer.health.Up
    done,       \* the program's context is done
    conn,       \* the D-Bus connection of this session
    router,     \* client.route is running: its exit closes the owners channel
    signals,    \* client.signals
    owner,      \* the notice at the head of client.owners
    browser,    \* for each type: registered in client.browsers, its channels, its consumer
    resolver,   \* the goroutines of Discoverer.resolve
    view,       \* what the registry was last told of each service
    env         \* the bus, the daemon and the network

vars == <<run, up, done, conn, router, signals, owner, browser, resolver, view, env>>

Stages     == <<"dial", "auth", "hello", "client", "probe">>
TypeSet    == {Types[i] : i \in 1 .. Len(Types)}
NoBrowser  == [registered |-> FALSE, add |-> <<>>, remove |-> <<>>, consumed |-> FALSE]
NoResolver == [svc |-> NoService, st |-> "none"]
InSession  == {"reset", "browse", "created", "watch"}

\* The session's context is alive.
Live == run.pc \in InSession /\ ~done

Reachable  == env.bus = "up" /\ conn = "open"
Answering  == Reachable /\ env.daemon = "up"
Held       == {r \in Resolvers : resolver[r].st \in {"calling", "answered"}}

\* Nothing the daemon said in this session is still under way.
Settled ==
    /\ signals = <<>>
    /\ \A t \in TypeSet : browser[t].add = <<>> /\ browser[t].remove = <<>>
    /\ \A r \in Resolvers : resolver[r].st = "none"

GoroutinesLeft ==
    \/ \E t \in TypeSet : browser[t].consumed
    \/ \E r \in Resolvers : resolver[r].st # "none"

\* emit: an event goes to the registry, unless the context is done, when it may not.
Emit(told) == view' = told \/ (~Live /\ UNCHANGED view)
Told(s, state) == [view EXCEPT ![s] = state]

-----------------------------------------------------------------------------
(* The end of a session *)

\* Deferred: Close ends the connection and waits for the router, and the context is cancelled.
Abandon ==
    /\ conn' = "none" /\ router' = FALSE /\ signals' = <<>> /\ owner' = "none"
    /\ env' = [env EXCEPT !.browsing = {}]

SessionFailsQuietly ==
    /\ up' = (up /\ run.everConnected)
    /\ \E pc \in {"backoff"} \cup (IF ~run.everConnected /\ Required THEN {"fatal"} ELSE {}) :
          run' = [run EXCEPT !.next = 1, !.pc = pc]
    /\ Abandon

\* session returns an error: Run takes note, and gives up if it may.  Whether startup_timeout
\* has passed is left open.
SessionFails ==
    /\ up' = FALSE
    /\ \E pc \in {"backoff"} \cup (IF ~run.everConnected /\ Required THEN {"fatal"} ELSE {}) :
          run' = [run EXCEPT !.next = 1, !.pc = pc]
    /\ Abandon

\* session returns without one.
SessionEnds ==
    /\ run.pc = "waiting" /\ \A t \in TypeSet : ~browser[t].consumed
    /\ run' = [run EXCEPT !.pc = "backoff", !.everConnected = TRUE, !.reason = "none",
                          !.backoff = IF run.reason = "rebrowse" THEN 0 ELSE @]
    /\ Abandon
    /\ UNCHANGED <<up, done, browser, resolver, view>>

\* The wait of the reconnect ladder, 0.8 of a second at least: long enough for the goroutines
\* that session did not wait for, whose context is done, to return.
Wake ==
    /\ run.pc = "backoff" /\ ~GoroutinesLeft
    /\ run' = [run EXCEPT !.pc = IF done THEN "stopped" ELSE "dial",
                          !.backoff = IF @ < MaxBackoff THEN @ + 1 ELSE @]
    /\ UNCHANGED <<up, done, conn, router, signals, owner, browser, resolver, view, env>>

Stop ==
    /\ run.pc = "backoff" /\ done
    /\ run' = [run EXCEPT !.pc = "stopped"]
    /\ UNCHANGED <<up, done, conn, router, signals, owner, browser, resolver, view, env>>

-----------------------------------------------------------------------------
(* The beginning of a session *)

Succeeds(stage) ==
    /\ ~done /\ env.bus = "up" /\ (stage # "dial" => conn = "open")
    /\ stage = "probe" => env.daemon = "up"

\* connectDBus, stage by stage; newClient starts the router.
Handshake(i) ==
    /\ run.pc = Stages[i] /\ Succeeds(Stages[i])
    /\ run' = [run EXCEPT !.pc = IF i < Len(Stages) THEN Stages[i + 1] ELSE "reset"]
    /\ conn' = "open"
    /\ router' = (router \/ Stages[i] = "client")
    /\ UNCHANGED <<up, done, signals, owner, browser, resolver, view, env>>

HandshakeFailsOpen(i) ==
    /\ run.pc = Stages[i] /\ ~Succeeds(Stages[i])
    /\ up' = FALSE /\ run' = [run EXCEPT !.pc = "backoff"]
    /\ UNCHANGED <<done, conn, router, signals, owner, browser, resolver, view, env>>

\* Each stage closes what the ones before it opened.
HandshakeFails(i) ==
    /\ run.pc = Stages[i] /\ ~Succeeds(Stages[i])
    /\ SessionFails
    /\ UNCHANGED <<done, browser, resolver, view>>

Reset ==
    /\ run.pc = "reset"
    /\ run' = [run EXCEPT !.pc = "browse"]
    /\ Emit([s \in Services |-> IF view[s] = "unknown" THEN "unknown" ELSE "unverified"])
    /\ UNCHANGED <<up, done, conn, router, signals, owner, browser, resolver, env>>

\* The daemon creates a browser, answers, and replays what it knows of the type.
CreateBrowser ==
    LET t == Types[run.next]
        known == {s \in env.announced : TypeOf[s] = t}
    IN  /\ run.pc = "browse" /\ ~done /\ Answering
        /\ Len(signals) + Cardinality(known) <= MaxSignals
        /\ run' = [run EXCEPT !.pc = "created"]
        /\ env' = [env EXCEPT !.browsing = @ \cup {t}]
        /\ \E order \in [1 .. Cardinality(known) -> known] :
              /\ \A s \in known : \E i \in DOMAIN order : order[i] = s
              /\ signals' = signals \o [i \in DOMAIN order |-> [name |-> "new", svc |-> order[i]]]
        /\ UNCHANGED <<up, done, conn, router, owner, browser, resolver, view>>

\* The answer has come: the path is registered and its consumer started.
RegisterBrowser ==
    LET t == Types[run.next]
        last == run.next = Len(Types)
    IN  /\ run.pc = "created"
        /\ browser' = [browser EXCEPT ![t] = [NoBrowser EXCEPT !.registered = TRUE, !.consumed = TRUE]]
        /\ run' = [run EXCEPT !.pc = IF last THEN "watch" ELSE "browse", !.next = @ + 1]
        /\ up' = (up \/ last)
        /\ UNCHANGED <<done, conn, router, signals, owner, resolver, view, env>>

\* Mutant: the D-Bus call is made without the session's context.
BrowseFailsDetached ==
    /\ run.pc = "browse" /\ (~Reachable \/ env.daemon = "gone")
    /\ SessionFails
    /\ UNCHANGED <<done, browser, resolver, view>>

\* The call has no deadline: it fails when its context, the bus or the daemon's name goes.
BrowseFails ==
    /\ run.pc = "browse" /\ (done \/ ~Reachable \/ env.daemon = "gone")
    /\ SessionFails
    /\ UNCHANGED <<done, browser, resolver, view>>

-----------------------------------------------------------------------------
(* watch *)

\* watch returns: the context is cancelled and session waits for the consumers.
Leave(reason) ==
    /\ run' = [run EXCEPT !.pc = "waiting", !.reason = reason, !.next = 1, !.failures = 0]
    /\ UNCHANGED <<up, done, conn, router, signals, owner, browser, resolver, view, env>>

WatchDone == run.pc = "watch" /\ done /\ Leave("none")

WatchOwner ==
    /\ run.pc = "watch"
    /\ \/ owner = "lost" /\ Leave("name_lost")
       \/ owner = "changed" /\ Leave("name_changed")
       \/ owner = "none" /\ ~router /\ Leave("dbus_closed")

Probe ==
    /\ run.pc = "watch"
    /\ \/ /\ Answering /\ ~done
          /\ run' = [run EXCEPT !.failures = 0]
          /\ UNCHANGED <<up, done, conn, router, signals, owner, browser, resolver, view, env>>
       \/ /\ ~(Answering /\ ~done) /\ run.failures = 0
          /\ run' = [run EXCEPT !.failures = 1]
          /\ UNCHANGED <<up, done, conn, router, signals, owner, browser, resolver, view, env>>
       \/ ~(Answering /\ ~done) /\ run.failures = 1 /\ Leave("watchdog")

\* Mutant: the rebrowse timer no longer ends the session.
RebrowseInPlace == run.pc = "watch" /\ Settled /\ UNCHANGED vars

\* rebrowse_interval, half an hour, is longer than anything is under way.
Rebrowse == run.pc = "watch" /\ Settled /\ Leave("rebrowse")

-----------------------------------------------------------------------------
(* The router *)

DeliverItem(sig) ==
    LET t == TypeOf[sig.svc]
    IN  /\ \/ /\ browser[t].registered
              /\ env' = env
              /\ browser' =
                    IF sig.name = "new"
                      THEN IF Len(browser[t].add) < BrowserBuffer
                             THEN [browser EXCEPT ![t].add = Append(@, sig.svc)] ELSE browser
                      ELSE IF Len(browser[t].remove) < BrowserBuffer
                             THEN [browser EXCEPT ![t].remove = Append(@, sig.svc)] ELSE browser
           \* The path is not registered yet: nobody to tell.
           \/ /\ ~browser[t].registered /\ env.upsets < MaxUpsets
              /\ env' = [env EXCEPT !.upsets = @ + 1]
              /\ UNCHANGED browser
        /\ UNCHANGED owner

DeliverOwner(sig) ==
    /\ owner' = IF owner = "none" THEN sig.name ELSE owner
    /\ UNCHANGED <<browser, env>>

Route ==
    /\ router /\ signals # <<>>
    /\ signals' = Tail(signals)
    /\ LET sig == Head(signals)
       IN  IF sig.svc \in Services THEN DeliverItem(sig) ELSE DeliverOwner(sig)
    /\ UNCHANGED <<run, up, done, conn, router, resolver, view>>

\* The connection broke: its signal channel is closed, and the router closes the owners.
RouterExits ==
    /\ router /\ conn = "broken" /\ signals = <<>>
    /\ router' = FALSE
    /\ UNCHANGED <<run, up, done, conn, signals, owner, browser, resolver, view, env>>

-----------------------------------------------------------------------------
(* consume and resolve *)

TakeAdd(t) ==
    /\ browser[t].consumed /\ browser[t].add # <<>>
    /\ \E r \in Resolvers : resolver[r].st = "none"
    /\ resolver' = [resolver EXCEPT ![CHOOSE r \in Resolvers : resolver[r].st = "none"] =
                        [svc |-> Head(browser[t].add), st |-> "queued"]]
    /\ browser' = [browser EXCEPT ![t].add = Tail(@)]
    /\ UNCHANGED <<run, up, done, conn, router, signals, owner, view, env>>

TakeRemove(t) ==
    /\ browser[t].consumed /\ browser[t].remove # <<>>
    /\ Emit(LET s == Head(browser[t].remove)
            IN  Told(s, IF view[s] = "unknown" THEN "unknown" ELSE "unverified"))
    /\ browser' = [browser EXCEPT ![t].remove = Tail(@)]
    /\ UNCHANGED <<run, up, done, conn, router, signals, owner, resolver, env>>

ConsumerReturns(t) ==
    /\ browser[t].consumed /\ ~Live
    /\ browser' = [browser EXCEPT ![t] = NoBrowser]
    /\ UNCHANGED <<run, up, done, conn, router, signals, owner, resolver, view, env>>

Becomes(r, st) ==
    /\ resolver' = [resolver EXCEPT ![r] = IF st = "none" THEN NoResolver ELSE [@ EXCEPT !.st = st]]
    /\ UNCHANGED <<run, up, done, conn, router, signals, owner, browser>>

Acquire(r) ==
    /\ resolver[r].st = "queued"
    /\ \/ Live /\ Cardinality(Held) < ResolveConcurrency /\ Becomes(r, "calling")
       \/ ~Live /\ Becomes(r, "none")
    /\ UNCHANGED <<view, env>>

Resolves(r) ==
    /\ resolver[r].st = "calling" /\ Live /\ Answering /\ resolver[r].svc \in env.announced
    /\ Becomes(r, "answered")
    /\ UNCHANGED <<view, env>>

\* Cancelled, refused, or resolve_timeout.
ResolveFails(r) ==
    /\ resolver[r].st = "calling"
    /\ ~(Live /\ Answering /\ resolver[r].svc \in env.announced)
    /\ Becomes(r, "none")
    /\ UNCHANGED <<view, env>>

EmitResolved(r) ==
    /\ resolver[r].st = "answered"
    /\ \/ view' = Told(resolver[r].svc, "verified")
       \/ ~Live /\ UNCHANGED view
    /\ Becomes(r, "none")
    /\ UNCHANGED env

-----------------------------------------------------------------------------
(* The bus, the daemon, the network, the clock *)

Signal(sig) ==
    IF conn = "open" /\ router
      THEN Len(signals) < MaxSignals /\ signals' = Append(signals, sig)
      ELSE UNCHANGED signals

Changing(s, announced) ==
    /\ env.upsets < MaxUpsets
    /\ env' = [env EXCEPT !.upsets = @ + 1, !.announced = announced]
    /\ IF TypeOf[s] \in env.browsing /\ env.daemon = "up"
         THEN Signal([name |-> IF s \in announced THEN "new" ELSE "remove", svc |-> s])
         ELSE UNCHANGED signals
    /\ UNCHANGED <<run, up, done, conn, router, owner, browser, resolver, view>>

Announce(s) == s \notin env.announced /\ Changing(s, env.announced \cup {s})
Withdraw(s) == s \in env.announced /\ Changing(s, env.announced \ {s})

Fault(e) ==
    /\ env.upsets < MaxUpsets
    /\ env' = [e EXCEPT !.upsets = @ + 1]
    /\ UNCHANGED <<run, up, done, router, owner, browser, resolver, view>>

DaemonStops ==
    /\ env.daemon # "gone"
    /\ Fault([env EXCEPT !.daemon = "gone", !.browsing = {}])
    /\ Signal([name |-> "lost", svc |-> NoService])
    /\ UNCHANGED conn

DaemonWedges == env.daemon = "up" /\ Fault([env EXCEPT !.daemon = "wedged"]) /\ UNCHANGED <<conn, signals>>

\* A subscription goes silent and nothing tells.
BrowserWedges ==
    \E t \in env.browsing : Fault([env EXCEPT !.browsing = @ \ {t}]) /\ UNCHANGED <<conn, signals>>

BusDrops ==
    /\ env.bus = "up" /\ Fault([env EXCEPT !.bus = "down", !.browsing = {}])
    /\ conn' = IF conn = "open" THEN "broken" ELSE conn
    /\ UNCHANGED signals

Recover ==
    /\ \/ /\ env.daemon = "gone" /\ env' = [env EXCEPT !.daemon = "up"]
          /\ Signal([name |-> "changed", svc |-> NoService])
       \/ env.daemon = "wedged" /\ env' = [env EXCEPT !.daemon = "up"] /\ UNCHANGED signals
       \/ env.bus = "down" /\ env' = [env EXCEPT !.bus = "up"] /\ UNCHANGED signals
    /\ UNCHANGED <<run, up, done, conn, router, owner, browser, resolver, view>>

Shutdown ==
    /\ ~done /\ done' = TRUE
    /\ UNCHANGED <<run, up, conn, router, signals, owner, browser, resolver, view, env>>

-----------------------------------------------------------------------------
Init ==
    /\ run = [pc |-> "dial", everConnected |-> FALSE, reason |-> "none", backoff |-> 0,
              next |-> 1, failures |-> 0]
    /\ up = FALSE /\ done = FALSE /\ conn = "none" /\ router = FALSE /\ signals = <<>> /\ owner = "none"
    /\ browser = [t \in TypeSet |-> NoBrowser]
    /\ resolver = [r \in Resolvers |-> NoResolver]
    /\ view = [s \in Services |-> "unknown"]
    /\ env \in [bus : {"up", "down"}, daemon : {"up", "gone"}, announced : SUBSET Services,
                browsing : {{}}, upsets : {0}]

Supervise ==
    \/ SessionEnds \/ Wake \/ Stop \/ Reset \/ CreateBrowser \/ RegisterBrowser \/ BrowseFails
    \/ \E i \in 1 .. Len(Stages) : Handshake(i) \/ HandshakeFails(i)

Consume(t) == TakeAdd(t) \/ TakeRemove(t) \/ ConsumerReturns(t)
Resolve(r) == Acquire(r) \/ Resolves(r) \/ ResolveFails(r) \/ EmitResolved(r)

Environment ==
    \/ \E s \in Services : Announce(s) \/ Withdraw(s)
    \/ DaemonStops \/ DaemonWedges \/ BrowserWedges \/ BusDrops \/ Recover
    \/ Shutdown

Next ==
    \/ Supervise \/ WatchDone \/ WatchOwner \/ Probe \/ Rebrowse
    \/ Route \/ RouterExits
    \/ \E t \in TypeSet : Consume(t)
    \/ \E r \in Resolvers : Resolve(r)
    \/ Environment

\* Every goroutine runs on, and every timer of watch and of the ladder fires.
Fairness ==
    /\ WF_vars(Supervise) /\ WF_vars(WatchDone \/ WatchOwner) /\ WF_vars(Probe) /\ WF_vars(Rebrowse)
    /\ WF_vars(Route) /\ WF_vars(RouterExits)
    /\ \A t \in TypeSet : WF_vars(TakeAdd(t)) /\ WF_vars(TakeRemove(t)) /\ WF_vars(ConsumerReturns(t))
    /\ \A r \in Resolvers : WF_vars(Resolve(r))

Spec == Init /\ [][Next]_vars /\ Fairness

-----------------------------------------------------------------------------
(* Properties *)

\* Every variable has its type: no more tokens are held than there are.
TypeOK ==
    /\ run.backoff \in 0 .. MaxBackoff /\ run.failures \in 0 .. 1
    /\ up \in BOOLEAN /\ done \in BOOLEAN /\ router \in BOOLEAN
    /\ conn \in {"none", "open", "broken"} /\ owner \in {"none", "lost", "changed"}
    /\ \A t \in TypeSet : Len(browser[t].add) <= BrowserBuffer /\ Len(browser[t].remove) <= BrowserBuffer
    /\ Cardinality(Held) <= ResolveConcurrency
    /\ view \in [Services -> {"unknown", "verified", "unverified"}]

\* Between sessions nothing of the last one is open: neither a D-Bus connection, which would
\* keep its browsers alive in the daemon, nor a router.
ConnectionsReleased ==
    run.pc \in {"dial", "backoff", "fatal", "stopped"} => conn = "none" /\ ~router

\* The bounds and the release together: the buffers and the semaphore keep their limits, and a
\* session leaves nothing open behind it.
SessionInv == TypeOK /\ ConnectionsReleased

\* Fatal "is only ever true before the first successful session", and only where required.
FatalOnlyAtStartup == [][run'.pc = "fatal" /\ run.pc # "fatal" => Required /\ ~up /\ ~run.everConnected]_vars

\* A service that goes on being announced is verified again and again, whatever was dropped,
\* reordered, lost or wedged on the way, once the daemon answers.
AnnouncedIsVerified ==
    \A s \in Services :
        <>[](s \in env.announced /\ env.bus = "up" /\ env.daemon = "up" /\ ~done /\ run.pc # "fatal")
            => []<>(view[s] = "verified")

\* A daemon that stays away is reported: by the signal, the closed channel or the watchdog.
AbsenceIsSeen == <>[](env.bus = "down" \/ env.daemon = "gone") => <>[](~up \/ done)

\* Routine rebrowsing does not drive a healthy process up the reconnect ladder.
HealthyLadderStaysLow ==
    <>[](env.bus = "up" /\ env.daemon = "up") => <>[](run.backoff <= 1 \/ done \/ run.pc = "fatal")

\* What Run reports and how it retries follow the daemon, not its own housekeeping: an outage
\* lowers the gauge, a rebrowse does not climb the ladder, and only a failed startup is fatal.
SupervisionSound == FatalOnlyAtStartup /\ AbsenceIsSeen /\ HealthyLadderStaysLow

\* After the program's context is done, Run returns and leaves no goroutine behind.
ShutdownLeavesNothing ==
    done ~> /\ run.pc \in {"stopped", "fatal"} /\ ~router
            /\ \A t \in TypeSet : ~browser[t].consumed
            /\ \A r \in Resolvers : resolver[r].st = "none"
=============================================================================
