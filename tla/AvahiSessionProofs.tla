-------------------------- MODULE AvahiSessionProofs --------------------------
(***************************************************************************)
(* What holds of the Avahi session for every number of services, service   *)
(* types, resolvers and tokens.  One inductive invariant, SupervisorInv,   *)
(* carries the types, the place each resource is held in, and what the     *)
(* gauge tells of Run; each action is shown to keep it.                    *)
(***************************************************************************)
EXTENDS AvahiSession, FiniteSetTheorems, TLAPS

-----------------------------------------------------------------------------
(* The invariant *)

Early   == {"dial", "auth", "hello", "client"}
Serving == {"probe", "reset", "browse", "created", "watch", "waiting"}
Between == {"dial", "backoff", "fatal", "stopped"}
Places  == Early \cup Serving \cup Between
Reasons == {"none", "name_lost", "name_changed", "dbus_closed", "watchdog", "rebrowse"}

Runs == [pc : Places, everConnected : BOOLEAN, reason : Reasons, backoff : 0 .. MaxBackoff,
         next : 1 .. Len(Types) + 1, failures : 0 .. 1]

Surroundings == [bus : {"up", "down"}, daemon : {"up", "gone", "wedged"},
                 announced : SUBSET Services, browsing : SUBSET TypeSet, upsets : Nat]

Signals == [name : {"new", "remove"}, svc : Services] \cup [name : {"lost", "changed"}, svc : {NoService}]

Browsers  == [registered : BOOLEAN, add : Seq(Services), remove : Seq(Services), consumed : BOOLEAN]
Workers   == [svc : Services \cup {NoService}, st : {"none", "queued", "calling", "answered"}]
Knowledge == {"unknown", "verified", "unverified"}

Typed ==
    /\ run \in Runs
    /\ {up, done, router} \subseteq BOOLEAN
    /\ conn \in {"none", "open", "broken"} /\ owner \in {"none", "lost", "changed"}
    /\ signals \in Seq(Signals)
    /\ browser \in [TypeSet -> Browsers]
    /\ resolver \in [Resolvers -> Workers]
    /\ view \in [Services -> Knowledge]
    /\ env \in Surroundings

\* The channels and the semaphore keep their limits.
Bounded ==
    /\ \A t \in TypeSet : Len(browser[t].add) <= BrowserBuffer /\ Len(browser[t].remove) <= BrowserBuffer
    /\ Cardinality(Held) <= ResolveConcurrency

\* A connection that is established has its router until it breaks.
Routed == run.pc \in Serving => conn # "none" /\ (router \/ conn = "broken")

\* The daemon keeps a browser only for a connection that is open.
Browsing == env.browsing # {} => conn = "open" /\ run.pc \in {"browse", "created", "watch", "waiting"}

\* Only a session that came to be watched raises the gauge, and Run hears of it when it ends.
Gauge == up /\ ~run.everConnected => run.pc \in {"watch", "waiting"}

\* Types[run.next] is a type while the session is being set up.
InRange == run.pc # "watch" => run.next <= Len(Types)

SupervisorInv == Typed /\ Bounded /\ ConnectionsReleased /\ Routed /\ Browsing /\ Gauge /\ InRange

-----------------------------------------------------------------------------
(* What the actions share *)

\* The names of the places, written out.
LEMMA Named ==
    /\ Early = {"dial", "auth", "hello", "client"}
    /\ Serving = {"probe", "reset", "browse", "created", "watch", "waiting"}
    /\ Between = {"dial", "backoff", "fatal", "stopped"}
    /\ Places = {"dial", "auth", "hello", "client", "probe", "reset", "browse", "created", "watch",
                 "waiting", "backoff", "fatal", "stopped"}
    /\ Stages = <<"dial", "auth", "hello", "client", "probe">> /\ Len(Stages) = 5
BY DEF Early, Serving, Between, Places, Stages

\* The limits hold as long as channels and semaphore are left alone.
LEMMA SameLimits ==
    ASSUME Bounded, UNCHANGED <<browser, resolver>>
    PROVE  Bounded'
BY DEF Bounded, Held

\* A step of Run alone, from a place where the connection is as the new one needs it.
LEMMA RunSteps ==
    ASSUME SupervisorInv, run' \in Runs,
           UNCHANGED <<up, done, conn, router, signals, owner, browser, resolver, view, env>>,
           run'.pc \in Between => run.pc \in Between,
           run'.pc \in Serving => run.pc \in Serving,
           run.pc \in {"browse", "created", "watch", "waiting"} =>
               run'.pc \in {"browse", "created", "watch", "waiting"},
           run.pc \in {"watch", "waiting"} => run'.pc \in {"watch", "waiting"},
           run'.everConnected = run.everConnected,
           run'.pc # "watch" => run'.next <= Len(Types)
    PROVE  SupervisorInv'
<1>1. Typed'
  BY DEF SupervisorInv, Typed
<1>2. Bounded'
  BY SameLimits DEF SupervisorInv
<1>3. ConnectionsReleased'
  BY DEF SupervisorInv, ConnectionsReleased, Between
<1>4. Routed' /\ Browsing'
  BY DEF SupervisorInv, Routed, Browsing
<1>5. Gauge' /\ InRange'
  BY DEF SupervisorInv, Gauge, InRange
<1> QED BY <1>1, <1>2, <1>3, <1>4, <1>5 DEF SupervisorInv

\* A step that leaves Run and its connection where they are, and the daemon's browsers.
LEMMA RunStays ==
    ASSUME SupervisorInv, UNCHANGED <<run, up, conn, router>>, Typed', Bounded',
           env'.browsing \subseteq env.browsing
    PROVE  SupervisorInv'
<1>1. ConnectionsReleased' /\ Routed' /\ Gauge' /\ InRange'
  BY DEF SupervisorInv, ConnectionsReleased, Routed, Gauge, InRange
<1>2. Browsing'
  BY DEF SupervisorInv, Browsing
<1> QED BY <1>1, <1>2 DEF SupervisorInv

\* The end of a session leaves nothing open, whatever Run makes of it.
LEMMA Abandoned ==
    ASSUME SupervisorInv, Abandon, run' \in Runs, up' \in BOOLEAN, UNCHANGED <<done, browser, resolver, view>>,
           run'.pc \in {"backoff", "fatal"}, run'.next <= Len(Types),
           up' /\ ~run'.everConnected => FALSE
    PROVE  SupervisorInv'
<1>1. /\ env \in Surroundings /\ env' = [env EXCEPT !.browsing = {}]
      /\ conn' = "none" /\ router' = FALSE /\ signals' = <<>> /\ owner' = "none"
  BY DEF SupervisorInv, Typed, Abandon
<1>2. env' \in Surroundings /\ env'.browsing = {}
  BY <1>1 DEF Surroundings
<1>3. Typed'
  <2>1. signals' \in Seq(Signals)
    BY <1>1
  <2>2. {up', done', router'} \subseteq BOOLEAN
    BY <1>1 DEF SupervisorInv, Typed
  <2> QED BY <1>1, <1>2, <2>1, <2>2 DEF SupervisorInv, Typed
<1>4. Bounded'
  BY SameLimits DEF SupervisorInv
<1>5. ConnectionsReleased' /\ Routed' /\ Browsing'
  BY <1>1, <1>2, Named DEF ConnectionsReleased, Routed, Browsing
<1>6. Gauge' /\ InRange'
  BY DEF Gauge, InRange
<1> QED BY <1>3, <1>4, <1>5, <1>6 DEF SupervisorInv

-----------------------------------------------------------------------------
(* The supervisor *)

LEMMA SessionFailsKeeps ==
    ASSUME SupervisorInv, SessionFails, UNCHANGED <<done, browser, resolver, view>>
    PROVE  SupervisorInv'
<1>1. run \in Runs
  BY DEF SupervisorInv, Typed
<1>2. PICK pc \in {"backoff"} \cup (IF ~run.everConnected /\ Required THEN {"fatal"} ELSE {}) :
          run' = [run EXCEPT !.next = 1, !.pc = pc]
  BY DEF SessionFails
<1>3. pc \in {"backoff", "fatal"}
  OBVIOUS
<1>4. run' \in Runs /\ run'.next = 1 /\ run'.pc = pc
  <2>1. pc \in Places /\ 1 \in 1 .. Len(Types) + 1
    BY <1>3, AvahiAssumption, Named
  <2> QED BY <1>1, <1>2, <2>1 DEF Runs
<1>5. up' = FALSE /\ Abandon
  BY DEF SessionFails
<1>6. 1 <= Len(Types)
  BY AvahiAssumption
<1> QED BY <1>3, <1>4, <1>5, <1>6, Abandoned

LEMMA SessionEndsKeeps ==
    ASSUME SupervisorInv, SessionEnds
    PROVE  SupervisorInv'
<1>1. run \in Runs /\ up \in BOOLEAN /\ run.pc = "waiting" /\ run.next <= Len(Types)
  BY DEF SupervisorInv, Typed, InRange, SessionEnds
<1>2. run' = [run EXCEPT !.pc = "backoff", !.everConnected = TRUE, !.reason = "none",
                         !.backoff = IF run.reason = "rebrowse" THEN 0 ELSE @]
  BY DEF SessionEnds
<1>3. run' \in Runs /\ run'.pc = "backoff" /\ run'.next = run.next /\ run'.everConnected
  <2> DEFINE b == IF run.reason = "rebrowse" THEN 0 ELSE run.backoff
  <2>1. b \in 0 .. MaxBackoff
    BY <1>1, AvahiAssumption DEF Runs
  <2>2. "backoff" \in Places /\ "none" \in Reasons
    BY Named DEF Reasons
  <2>3. run' = [run EXCEPT !.pc = "backoff", !.everConnected = TRUE, !.reason = "none", !.backoff = b]
    BY <1>1, <1>2 DEF Runs
  <2> HIDE DEF b
  <2> QED BY <1>1, <2>1, <2>2, <2>3 DEF Runs
<1> QED BY <1>1, <1>3, Abandoned DEF SessionEnds

LEMMA PausesKeep ==
    ASSUME SupervisorInv, Wake \/ Stop
    PROVE  SupervisorInv'
<1>1. run \in Runs /\ run.pc = "backoff" /\ run.next <= Len(Types)
  BY DEF SupervisorInv, Typed, InRange, Wake, Stop
<1>2. /\ run' \in Runs /\ run'.pc \in {"dial", "stopped"}
      /\ run'.next = run.next /\ run'.everConnected = run.everConnected
  <2>1. CASE Wake
    <3> DEFINE b == IF run.backoff < MaxBackoff THEN run.backoff + 1 ELSE run.backoff
               p == IF done THEN "stopped" ELSE "dial"
    <3>1. b \in 0 .. MaxBackoff /\ p \in {"dial", "stopped"}
      BY <1>1, AvahiAssumption DEF Runs
    <3>2. run' = [run EXCEPT !.pc = p, !.backoff = b]
      BY <1>1, <2>1 DEF Wake, Runs
    <3> HIDE DEF b, p
    <3>3. p \in Places
      BY <3>1, Named
    <3> QED BY <1>1, <3>1, <3>2, <3>3 DEF Runs
  <2>2. CASE Stop
    <3>1. "stopped" \in Places
      BY Named
    <3> QED BY <1>1, <2>2, <3>1 DEF Stop, Runs
  <2> QED BY <2>1, <2>2
<1> QED BY <1>1, <1>2, RunSteps, Named DEF Wake, Stop

LEMMA HandshakeKeeps ==
    ASSUME SupervisorInv, NEW i \in 1 .. Len(Stages), Handshake(i)
    PROVE  SupervisorInv'
<1>1. /\ run \in Runs /\ up \in BOOLEAN /\ router \in BOOLEAN /\ env \in Surroundings
      /\ run.pc = Stages[i] /\ i \in 1 .. 5
      /\ run' = [run EXCEPT !.pc = IF i < 5 THEN Stages[i + 1] ELSE "reset"]
      /\ conn' = "open" /\ router' = (router \/ Stages[i] = "client") /\ UNCHANGED up
  BY Named DEF SupervisorInv, Typed, Handshake
<1>2. /\ run.pc \in {"dial", "auth", "hello", "client", "probe"}
      /\ run'.pc \in {"auth", "hello", "client", "probe", "reset"}
      /\ run.pc = "client" <=> Stages[i] = "client"
      /\ run'.pc = "probe" <=> Stages[i] = "client"
      /\ run'.pc = "reset" <=> Stages[i] = "probe"
      /\ run.pc # "dial" => conn = "open"
  BY <1>1, Named DEF Runs, Handshake, Succeeds
<1>3. /\ run' \in Runs /\ run'.next = run.next /\ run'.everConnected = run.everConnected
  BY <1>1, <1>2, Named DEF Runs
<1>4. Typed'
  <2>1. {up', done', router'} \subseteq BOOLEAN
    BY <1>1 DEF SupervisorInv, Typed, Handshake
  <2> QED BY <1>1, <1>3, <2>1 DEF SupervisorInv, Typed, Handshake
<1>5. Bounded'
  BY SameLimits DEF SupervisorInv, Handshake
<1>6. Routed'
  <2>1. CASE run'.pc = "probe"
    BY <1>1, <1>2, <2>1 DEF Routed
  <2>2. CASE run'.pc = "reset"
    <3>1. run.pc = "probe" /\ conn = "open"
      BY <1>1, <1>2, <2>2
    <3>2. router
      BY <3>1 DEF SupervisorInv, Routed, Serving
    <3> QED BY <1>1, <3>2 DEF Routed
  <2>3. CASE run'.pc \notin {"probe", "reset"}
    BY <1>2, <2>3 DEF Routed, Serving
  <2> QED BY <2>1, <2>2, <2>3
<1>7. ConnectionsReleased' /\ Browsing'
  BY <1>1, <1>2 DEF SupervisorInv, ConnectionsReleased, Browsing, Handshake
<1>8. Gauge' /\ InRange'
  BY <1>1, <1>2, <1>3 DEF SupervisorInv, Gauge, InRange
<1> QED BY <1>4, <1>5, <1>6, <1>7, <1>8 DEF SupervisorInv

LEMMA ResetKeeps ==
    ASSUME SupervisorInv, Reset
    PROVE  SupervisorInv'
<1>1. run \in Runs /\ run.pc = "reset" /\ run' = [run EXCEPT !.pc = "browse"] /\ view \in [Services -> Knowledge]
  BY DEF SupervisorInv, Typed, Reset
<1>2. run' \in Runs /\ run'.pc = "browse" /\ run'.next = run.next /\ run'.everConnected = run.everConnected
  <2>1. "browse" \in Places
    BY Named
  <2> QED BY <1>1, <2>1 DEF Runs
<1>3. view' \in [Services -> Knowledge]
  BY <1>1 DEF Reset, Emit, Knowledge
<1>4. Typed'
  BY <1>2, <1>3 DEF SupervisorInv, Typed, Reset
<1>5. Bounded'
  BY SameLimits DEF SupervisorInv, Reset
<1>6. ConnectionsReleased' /\ Routed'
  BY <1>1, <1>2 DEF SupervisorInv, ConnectionsReleased, Routed, Serving, Reset
<1>7. Browsing' /\ Gauge' /\ InRange'
  BY <1>1, <1>2 DEF SupervisorInv, Browsing, Gauge, InRange, Reset
<1> QED BY <1>4, <1>5, <1>6, <1>7 DEF SupervisorInv

\* What the daemon replays is a sequence of announcements.
LEMMA Replayed ==
    ASSUME signals \in Seq(Signals), NEW known \in SUBSET Services,
           NEW order \in [1 .. Cardinality(known) -> known]
    PROVE  signals \o [i \in DOMAIN order |-> [name |-> "new", svc |-> order[i]]] \in Seq(Signals)
<1>1. Cardinality(known) \in Nat
  BY AvahiAssumption, FS_Subset, FS_CardinalityType
<1>2. ASSUME NEW s \in known
      PROVE  [name |-> "new", svc |-> s] \in Signals
  BY DEF Signals
<1>3. [i \in DOMAIN order |-> [name |-> "new", svc |-> order[i]]] \in Seq(Signals)
  <2>1. [i \in 1 .. Cardinality(known) |-> [name |-> "new", svc |-> order[i]]]
            \in [1 .. Cardinality(known) -> Signals]
    BY <1>2
  <2>2. DOMAIN order = 1 .. Cardinality(known)
    OBVIOUS
  <2> QED BY <1>1, <2>1, <2>2
<1> DEFINE q == [i \in DOMAIN order |-> [name |-> "new", svc |-> order[i]]]
<1>4. q \in Seq(Signals)
  BY <1>3
<1> HIDE DEF q
<1>5. signals \o q \in Seq(Signals)
  BY <1>4
<1> QED BY <1>5 DEF q

LEMMA CreateBrowserKeeps ==
    ASSUME SupervisorInv, CreateBrowser
    PROVE  SupervisorInv'
<1> DEFINE t == Types[run.next]
           known == {s \in env.announced : TypeOf[s] = t}
<1>1. /\ run \in Runs /\ env \in Surroundings /\ signals \in Seq(Signals)
      /\ run.pc = "browse" /\ run' = [run EXCEPT !.pc = "created"]
      /\ env' = [env EXCEPT !.browsing = @ \cup {t}]
      /\ conn = "open" /\ run.next <= Len(Types)
  BY DEF SupervisorInv, Typed, InRange, CreateBrowser, Answering, Reachable
<1>2. run' \in Runs /\ run'.pc = "created" /\ run'.next = run.next /\ run'.everConnected = run.everConnected
  <2>1. "created" \in Places
    BY Named
  <2> QED BY <1>1, <2>1 DEF Runs
<1>3. known \in SUBSET Services
  BY <1>1 DEF Surroundings
<1>4. t \in TypeSet
  BY <1>1, AvahiAssumption DEF Runs, TypeSet
<1>5. env' \in Surroundings
  BY <1>1, <1>4 DEF Surroundings
<1>6. signals' \in Seq(Signals)
  <2>1. PICK order \in [1 .. Cardinality(known) -> known] :
            signals' = signals \o [i \in DOMAIN order |-> [name |-> "new", svc |-> order[i]]]
    BY DEF CreateBrowser
  <2> HIDE DEF known
  <2> QED BY <1>1, <1>3, <2>1, Replayed
<1>7. Typed'
  BY <1>2, <1>5, <1>6 DEF SupervisorInv, Typed, CreateBrowser
<1>8. Bounded'
  BY SameLimits DEF SupervisorInv, CreateBrowser
<1>9. ConnectionsReleased' /\ Routed'
  BY <1>1, <1>2 DEF SupervisorInv, ConnectionsReleased, Routed, Serving, CreateBrowser
<1>10. Browsing' /\ Gauge' /\ InRange'
  BY <1>1, <1>2 DEF SupervisorInv, Browsing, Gauge, InRange, CreateBrowser
<1> QED BY <1>7, <1>8, <1>9, <1>10 DEF SupervisorInv

\* A browser that is not there is a browser too, with nothing in its channels.
LEMMA NoBrowserTyped == NoBrowser \in Browsers /\ NoBrowser.add = <<>> /\ NoBrowser.remove = <<>>
<1>1. <<>> \in Seq(Services) /\ FALSE \in BOOLEAN
  OBVIOUS
<1> QED BY <1>1 DEF NoBrowser, Browsers

LEMMA RegisterBrowserKeeps ==
    ASSUME SupervisorInv, RegisterBrowser
    PROVE  SupervisorInv'
<1> DEFINE t == Types[run.next]
           last == run.next = Len(Types)
           p == IF last THEN "watch" ELSE "browse"
           b == [NoBrowser EXCEPT !.registered = TRUE, !.consumed = TRUE]
<1>1. /\ run \in Runs /\ up \in BOOLEAN /\ browser \in [TypeSet -> Browsers]
      /\ run.pc = "created" /\ run.next <= Len(Types) /\ up' = (up \/ last)
  BY DEF SupervisorInv, Typed, InRange, RegisterBrowser
<1>2. run' = [run EXCEPT !.pc = p, !.next = run.next + 1] /\ browser' = [browser EXCEPT ![t] = b]
  BY <1>1 DEF RegisterBrowser, Runs
<1>3. p \in Places /\ run.next + 1 \in 1 .. Len(Types) + 1 /\ (p # "watch" => run.next + 1 <= Len(Types))
  BY <1>1, AvahiAssumption, Named DEF Runs
<1>4. /\ run' \in Runs /\ run'.pc = p /\ run'.next = run.next + 1 /\ run'.everConnected = run.everConnected
  <2> HIDE DEF p
  <2> QED BY <1>1, <1>2, <1>3 DEF Runs
<1>5. b \in Browsers /\ b.add = <<>> /\ b.remove = <<>>
  <2>1. NoBrowser \in Browsers /\ NoBrowser.add = <<>> /\ NoBrowser.remove = <<>>
    BY NoBrowserTyped
  <2>2. TRUE \in BOOLEAN
    OBVIOUS
  <2> QED BY <2>1, <2>2 DEF Browsers
<1>6. browser' \in [TypeSet -> Browsers]
  BY <1>1, <1>2, <1>5
<1>7. Typed'
  <2>1. {up', done', router'} \subseteq BOOLEAN
    BY <1>1 DEF SupervisorInv, Typed, RegisterBrowser
  <2> QED BY <1>4, <1>6, <2>1 DEF SupervisorInv, Typed, RegisterBrowser
<1>8. Bounded'
  <2>1. ASSUME NEW u \in TypeSet
        PROVE  Len(browser'[u].add) <= BrowserBuffer /\ Len(browser'[u].remove) <= BrowserBuffer
    <3>1. CASE u = t
      <4>1. browser'[u] = b
        BY <1>1, <1>2, <3>1
      <4>2. Len(b.add) = 0 /\ Len(b.remove) = 0
        BY <1>5
      <4> HIDE DEF b
      <4> QED BY <4>1, <4>2, AvahiAssumption
    <3>2. CASE u # t
      BY <1>1, <1>2, <3>2 DEF SupervisorInv, Bounded
    <3> QED BY <3>1, <3>2
  <2>2. Held' = Held
    BY DEF Held, RegisterBrowser
  <2> QED BY <2>1, <2>2 DEF SupervisorInv, Bounded
<1>9. p \in {"watch", "browse"} /\ (last => p = "watch")
  OBVIOUS
<1>10. ConnectionsReleased' /\ Routed' /\ Browsing'
  <2> HIDE DEF p
  <2> QED BY <1>1, <1>4, <1>9 DEF SupervisorInv, ConnectionsReleased, Routed, Browsing, Serving, RegisterBrowser
<1>11. Gauge'
  <2> HIDE DEF p
  <2> QED BY <1>1, <1>4, <1>9 DEF SupervisorInv, Gauge
<1>12. InRange'
  <2> HIDE DEF p
  <2> QED BY <1>3, <1>4, AvahiAssumption DEF InRange
<1> QED BY <1>7, <1>8, <1>10, <1>11, <1>12 DEF SupervisorInv

LEMMA SetupFailsKeeps ==
    ASSUME SupervisorInv, BrowseFails \/ \E i \in 1 .. Len(Stages) : HandshakeFails(i)
    PROVE  SupervisorInv'
BY SessionFailsKeeps DEF BrowseFails, HandshakeFails

-----------------------------------------------------------------------------
(* The watch *)

LEMMA LeaveKeeps ==
    ASSUME SupervisorInv, run.pc = "watch", NEW reason \in Reasons, Leave(reason)
    PROVE  SupervisorInv'
<1>1. run \in Runs /\ run' = [run EXCEPT !.pc = "waiting", !.reason = reason, !.next = 1, !.failures = 0]
  BY DEF SupervisorInv, Typed, Leave
<1>2. "waiting" \in Places /\ 1 \in 1 .. Len(Types) + 1 /\ 0 \in 0 .. 1 /\ 1 <= Len(Types)
  BY Named, AvahiAssumption
<1>3. run' \in Runs /\ run'.pc = "waiting" /\ run'.next = 1 /\ run'.everConnected = run.everConnected
  BY <1>1, <1>2 DEF Runs
<1> QED BY <1>2, <1>3, RunSteps, Named DEF Leave

LEMMA WatchKeeps ==
    ASSUME SupervisorInv, WatchDone \/ WatchOwner \/ Probe \/ Rebrowse
    PROVE  SupervisorInv'
<1>1. run.pc = "watch"
  BY DEF WatchDone, WatchOwner, Probe, Rebrowse
<1>2. \/ \E reason \in Reasons : Leave(reason)
      \/ \E f \in 0 .. 1 : /\ run' = [run EXCEPT !.failures = f]
                           /\ UNCHANGED <<up, done, conn, router, signals, owner, browser, resolver, view, env>>
  BY DEF WatchDone, WatchOwner, Probe, Rebrowse, Reasons
<1>3. ASSUME NEW f \in 0 .. 1, run' = [run EXCEPT !.failures = f],
             UNCHANGED <<up, done, conn, router, signals, owner, browser, resolver, view, env>>
      PROVE  SupervisorInv'
  <2>1. run \in Runs
    BY DEF SupervisorInv, Typed
  <2>2. run' \in Runs /\ run'.pc = run.pc /\ run'.everConnected = run.everConnected
    BY <1>3, <2>1 DEF Runs
  <2> QED BY <1>1, <1>3, <2>2, RunSteps, Named
<1> QED BY <1>1, <1>2, <1>3, LeaveKeeps

-----------------------------------------------------------------------------
(* The router *)

\* A channel that has room takes one service more.
LEMMA ItemQueued ==
    ASSUME NEW q \in Seq(Services), NEW s \in Services, Len(q) < BrowserBuffer
    PROVE  Append(q, s) \in Seq(Services) /\ Len(Append(q, s)) <= BrowserBuffer
<1>1. Append(q, s) \in Seq(Services) /\ Len(Append(q, s)) = Len(q) + 1 /\ Len(q) \in Nat
  OBVIOUS
<1> QED BY <1>1, AvahiAssumption

\* One browser changes its channels, within their limits.
LEMMA BrowserSteps ==
    ASSUME Typed, Bounded, NEW t \in TypeSet, NEW b \in Browsers, browser' = [browser EXCEPT ![t] = b],
           Len(b.add) <= BrowserBuffer, Len(b.remove) <= BrowserBuffer, UNCHANGED resolver
    PROVE  browser' \in [TypeSet -> Browsers] /\ Bounded'
<1>1. browser \in [TypeSet -> Browsers]
  BY DEF Typed
<1>2. browser' \in [TypeSet -> Browsers]
  BY <1>1
<1>3. ASSUME NEW u \in TypeSet
      PROVE  Len(browser'[u].add) <= BrowserBuffer /\ Len(browser'[u].remove) <= BrowserBuffer
  <2>1. CASE u = t
    BY <1>1, <2>1
  <2>2. CASE u # t
    BY <1>1, <2>2 DEF Bounded
  <2> QED BY <2>1, <2>2
<1>4. Held' = Held
  BY DEF Held
<1> QED BY <1>2, <1>3, <1>4 DEF Bounded

LEMMA DeliverItemKeeps ==
    ASSUME Typed, Bounded, NEW sig \in Signals, sig.svc \in Services, DeliverItem(sig), UNCHANGED resolver
    PROVE  /\ browser' \in [TypeSet -> Browsers] /\ Bounded'
           /\ env' \in Surroundings /\ env'.browsing = env.browsing /\ owner' = owner
<1> DEFINE t == TypeOf[sig.svc]
           s == sig.svc
<1>1. browser \in [TypeSet -> Browsers] /\ env \in Surroundings
  BY DEF Typed
<1>2. CASE UNCHANGED browser
  <2>1. Bounded'
    BY <1>2, SameLimits
  <2>2. env' = env \/ env' = [env EXCEPT !.upsets = @ + 1]
    BY DEF DeliverItem
  <2>3. env' \in Surroundings /\ env'.browsing = env.browsing
    BY <1>1, <2>2 DEF Surroundings
  <2> QED BY <1>1, <1>2, <2>1, <2>3 DEF DeliverItem
<1>3. CASE t \in TypeSet /\ env' = env /\ Len(browser[t].add) < BrowserBuffer
           /\ browser' = [browser EXCEPT ![t].add = Append(@, s)]
  <2> DEFINE b == [browser[t] EXCEPT !.add = Append(browser[t].add, s)]
  <2>1. browser[t] \in Browsers
    BY <1>1, <1>3
  <2>2. /\ Append(browser[t].add, s) \in Seq(Services) /\ Len(Append(browser[t].add, s)) <= BrowserBuffer
    BY <1>3, <2>1, ItemQueued DEF Browsers
  <2>3. b \in Browsers /\ b.add = Append(browser[t].add, s) /\ b.remove = browser[t].remove
    BY <2>1, <2>2 DEF Browsers
  <2>4. browser' = [browser EXCEPT ![t] = b]
    BY <1>1, <1>3
  <2>5. Len(b.add) <= BrowserBuffer /\ Len(b.remove) <= BrowserBuffer
    BY <1>3, <2>2, <2>3 DEF Bounded
  <2> HIDE DEF b
  <2>6. browser' \in [TypeSet -> Browsers] /\ Bounded'
    BY <1>3, <2>3, <2>4, <2>5, BrowserSteps
  <2> QED BY <1>1, <1>3, <2>6 DEF DeliverItem
<1>4. CASE t \in TypeSet /\ env' = env /\ Len(browser[t].remove) < BrowserBuffer
           /\ browser' = [browser EXCEPT ![t].remove = Append(@, s)]
  <2> DEFINE b == [browser[t] EXCEPT !.remove = Append(browser[t].remove, s)]
  <2>1. browser[t] \in Browsers
    BY <1>1, <1>4
  <2>2. /\ Append(browser[t].remove, s) \in Seq(Services) /\ Len(Append(browser[t].remove, s)) <= BrowserBuffer
    BY <1>4, <2>1, ItemQueued DEF Browsers
  <2>3. b \in Browsers /\ b.remove = Append(browser[t].remove, s) /\ b.add = browser[t].add
    BY <2>1, <2>2 DEF Browsers
  <2>4. browser' = [browser EXCEPT ![t] = b]
    BY <1>1, <1>4
  <2>5. Len(b.add) <= BrowserBuffer /\ Len(b.remove) <= BrowserBuffer
    BY <1>4, <2>2, <2>3 DEF Bounded
  <2> HIDE DEF b
  <2>6. browser' \in [TypeSet -> Browsers] /\ Bounded'
    BY <1>4, <2>3, <2>4, <2>5, BrowserSteps
  <2> QED BY <1>1, <1>4, <2>6 DEF DeliverItem
<1>5. CASE t \notin TypeSet
  <2>1. /\ [browser EXCEPT ![t].add = Append(@, s)] = browser
        /\ [browser EXCEPT ![t].remove = Append(@, s)] = browser
    BY <1>1, <1>5
  <2>2. browser' \in {browser, [browser EXCEPT ![t].add = Append(@, s)],
                      [browser EXCEPT ![t].remove = Append(@, s)]}
    BY DEF DeliverItem
  <2>3. UNCHANGED browser
    <3> HIDE DEF t, s
    <3> QED BY <2>1, <2>2
  <2> QED BY <1>2, <2>3
<1> QED BY <1>2, <1>3, <1>4, <1>5 DEF DeliverItem

LEMMA RouteKeeps ==
    ASSUME SupervisorInv, Route
    PROVE  SupervisorInv'
<1>1. Typed /\ Bounded
  BY DEF SupervisorInv
<1>2. /\ signals \in Seq(Signals) /\ signals # <<>> /\ signals' = Tail(signals)
      /\ UNCHANGED <<run, up, done, conn, router, resolver, view>>
  BY <1>1 DEF Typed, Route
<1> DEFINE sig == Head(signals)
<1>3. sig \in Signals /\ signals' \in Seq(Signals)
  BY <1>2
<1>4. /\ browser' \in [TypeSet -> Browsers] /\ Bounded'
      /\ env' \in Surroundings /\ env'.browsing = env.browsing
      /\ owner' \in {"none", "lost", "changed"}
  <2> HIDE DEF sig
  <2>1. CASE sig.svc \in Services
    <3>1. DeliverItem(sig)
      BY <2>1 DEF Route, sig
    <3> QED BY <1>1, <1>2, <1>3, <2>1, <3>1, DeliverItemKeeps DEF Typed
  <2>2. CASE sig.svc \notin Services
    <3>1. DeliverOwner(sig)
      BY <2>2 DEF Route, sig
    <3>2. owner' \in {"none", "lost", "changed"}
      <4>1. sig.name \in {"lost", "changed"}
        BY <1>3, <2>2 DEF Signals
      <4> QED BY <1>1, <3>1, <4>1 DEF DeliverOwner, Typed
    <3>3. Bounded'
      BY <1>1, <1>2, <3>1, SameLimits DEF DeliverOwner
    <3> QED BY <1>1, <3>1, <3>2, <3>3 DEF DeliverOwner, Typed
  <2> QED BY <2>1, <2>2
<1>5. Typed'
  BY <1>1, <1>2, <1>3, <1>4 DEF Typed
<1> QED BY <1>2, <1>4, <1>5, RunStays

LEMMA RouterExitsKeeps ==
    ASSUME SupervisorInv, RouterExits
    PROVE  SupervisorInv'
<1>1. Typed'
  <2>1. {up', done', router'} \subseteq BOOLEAN
    BY DEF SupervisorInv, Typed, RouterExits
  <2> QED BY <2>1 DEF SupervisorInv, Typed, RouterExits
<1>2. Bounded'
  BY SameLimits DEF SupervisorInv, RouterExits
<1>3. ConnectionsReleased' /\ Routed' /\ Browsing' /\ Gauge' /\ InRange'
  BY DEF SupervisorInv, ConnectionsReleased, Routed, Browsing, Gauge, InRange, RouterExits
<1> QED BY <1>1, <1>2, <1>3 DEF SupervisorInv

-----------------------------------------------------------------------------
(* Consumers and resolvers *)

\* Nobody new holds a token.
LEMMA NobodyAcquires ==
    ASSUME Bounded, Held' \subseteq Held
    PROVE  (Cardinality(Held) <= ResolveConcurrency)'
<1>1. IsFiniteSet(Held) /\ IsFiniteSet(Held')
  BY AvahiAssumption, FS_Subset DEF Held
<1>2. Cardinality(Held') <= Cardinality(Held)
  BY <1>1, FS_Subset
<1>3. Cardinality(Held) \in Nat /\ Cardinality(Held') \in Nat
  BY <1>1, FS_CardinalityType
<1> QED BY <1>2, <1>3, AvahiAssumption DEF Bounded

LEMMA TakeAddKeeps ==
    ASSUME SupervisorInv, NEW t \in TypeSet, TakeAdd(t)
    PROVE  SupervisorInv'
<1>1. /\ browser \in [TypeSet -> Browsers] /\ resolver \in [Resolvers -> Workers]
      /\ browser[t] \in Browsers /\ browser[t].add # <<>>
      /\ UNCHANGED <<run, up, done, conn, router, signals, owner, view, env>>
  BY DEF SupervisorInv, Typed, TakeAdd
<1> DEFINE r == CHOOSE w \in Resolvers : resolver[w].st = "none"
           s == Head(browser[t].add)
           q == Tail(browser[t].add)
<1>2. r \in Resolvers /\ resolver[r].st = "none"
  BY DEF TakeAdd
<1>3. s \in Services /\ q \in Seq(Services) /\ Len(q) <= Len(browser[t].add)
  BY <1>1 DEF Browsers
<1>4. /\ resolver' = [resolver EXCEPT ![r] = [svc |-> s, st |-> "queued"]]
      /\ browser' = [browser EXCEPT ![t].add = q]
  BY <1>1 DEF TakeAdd
<1> HIDE DEF r, s, q
<1>5. [svc |-> s, st |-> "queued"] \in Workers
  BY <1>3 DEF Workers
<1>6. resolver' \in [Resolvers -> Workers]
  BY <1>1, <1>4, <1>5
<1>7. browser' \in [TypeSet -> Browsers]
  <2>1. [browser[t] EXCEPT !.add = q] \in Browsers
    BY <1>1, <1>3 DEF Browsers
  <2>2. browser' = [browser EXCEPT ![t] = [browser[t] EXCEPT !.add = q]]
    BY <1>1, <1>4
  <2> QED BY <1>1, <2>1, <2>2
<1>8. Typed'
  BY <1>1, <1>6, <1>7 DEF SupervisorInv, Typed
<1>9. Bounded'
  <2>1. ASSUME NEW u \in TypeSet
        PROVE  Len(browser'[u].add) <= BrowserBuffer /\ Len(browser'[u].remove) <= BrowserBuffer
    <3>1. Len(browser[u].add) <= BrowserBuffer /\ Len(browser[u].remove) <= BrowserBuffer
      BY DEF SupervisorInv, Bounded
    <3>2. CASE u = t
      <4>1. browser'[t].add = q /\ browser'[t].remove = browser[t].remove
        BY <1>1, <1>4 DEF Browsers
      <4>2. Len(q) \in Nat /\ Len(browser[t].add) \in Nat
        BY <1>1, <1>3 DEF Browsers
      <4> QED BY <1>3, <3>1, <3>2, <4>1, <4>2, AvahiAssumption
    <3>3. CASE u # t
      BY <1>1, <1>4, <3>1, <3>3
    <3> QED BY <3>2, <3>3
  <2>2. Held' \subseteq Held
    BY <1>1, <1>2, <1>4 DEF Held
  <2> QED BY <2>1, <2>2, NobodyAcquires DEF SupervisorInv, Bounded
<1> QED BY <1>1, <1>8, <1>9, RunStays

LEMMA TakeRemoveKeeps ==
    ASSUME SupervisorInv, NEW t \in TypeSet, TakeRemove(t)
    PROVE  SupervisorInv'
<1>1. /\ browser \in [TypeSet -> Browsers] /\ view \in [Services -> Knowledge]
      /\ browser[t] \in Browsers /\ browser[t].remove # <<>>
      /\ UNCHANGED <<run, up, done, conn, router, signals, owner, resolver, env>>
  BY DEF SupervisorInv, Typed, TakeRemove
<1> DEFINE s == Head(browser[t].remove)
           q == Tail(browser[t].remove)
           b == [browser[t] EXCEPT !.remove = q]
<1>2. s \in Services /\ q \in Seq(Services) /\ Len(q) <= Len(browser[t].remove)
  BY <1>1 DEF Browsers
<1>3. browser' = [browser EXCEPT ![t] = b]
  BY <1>1 DEF TakeRemove
<1>4. view' \in [Services -> Knowledge]
  BY <1>1, <1>2 DEF TakeRemove, Emit, Told, Knowledge
<1> HIDE DEF s, q
<1>5. b \in Browsers /\ b.remove = q /\ b.add = browser[t].add
  BY <1>1, <1>2 DEF Browsers
<1>6. Len(b.add) <= BrowserBuffer /\ Len(b.remove) <= BrowserBuffer
  <2>1. Len(browser[t].add) <= BrowserBuffer /\ Len(browser[t].remove) <= BrowserBuffer
    BY DEF SupervisorInv, Bounded
  <2>2. Len(q) \in Nat /\ Len(browser[t].remove) \in Nat
    BY <1>1, <1>2 DEF Browsers
  <2> HIDE DEF b
  <2> QED BY <1>2, <1>5, <2>1, <2>2, AvahiAssumption
<1> HIDE DEF b
<1>7. browser' \in [TypeSet -> Browsers] /\ Bounded'
  BY <1>1, <1>3, <1>5, <1>6, BrowserSteps DEF SupervisorInv
<1>8. Typed'
  BY <1>1, <1>4, <1>7 DEF SupervisorInv, Typed
<1> QED BY <1>1, <1>7, <1>8, RunStays

LEMMA ConsumerReturnsKeeps ==
    ASSUME SupervisorInv, NEW t \in TypeSet, ConsumerReturns(t)
    PROVE  SupervisorInv'
<1>1. browser' = [browser EXCEPT ![t] = NoBrowser]
  BY DEF ConsumerReturns
<1>2. NoBrowser \in Browsers /\ Len(NoBrowser.add) <= BrowserBuffer /\ Len(NoBrowser.remove) <= BrowserBuffer
  BY NoBrowserTyped, AvahiAssumption
<1>3. browser' \in [TypeSet -> Browsers] /\ Bounded'
  BY <1>1, <1>2, BrowserSteps DEF SupervisorInv, ConsumerReturns
<1>4. Typed'
  BY <1>3 DEF SupervisorInv, Typed, ConsumerReturns
<1> QED BY <1>3, <1>4, RunStays DEF ConsumerReturns

\* A goroutine moves on; only Acquire may add a holder, and it counts them first.
LEMMA WorkerSteps ==
    ASSUME SupervisorInv, NEW r \in Resolvers, NEW st \in {"none", "calling", "answered"}, Becomes(r, st),
           view' \in [Services -> Knowledge], env' = env,
           \/ st = "none"
           \/ st = "answered" /\ resolver[r].st = "calling"
           \/ st = "calling" /\ Cardinality(Held) < ResolveConcurrency
    PROVE  SupervisorInv'
<1>1. /\ resolver \in [Resolvers -> Workers] /\ resolver[r] \in Workers
      /\ UNCHANGED <<run, up, done, conn, router, signals, owner, browser, env>>
  BY DEF SupervisorInv, Typed, Becomes
<1> DEFINE w == IF st = "none" THEN NoResolver ELSE [resolver[r] EXCEPT !.st = st]
<1>2. resolver' = [resolver EXCEPT ![r] = w]
  BY <1>1 DEF Becomes
<1>3. w \in Workers /\ w.st = st
  BY <1>1 DEF Workers, NoResolver
<1> HIDE DEF w
<1>4. resolver' \in [Resolvers -> Workers]
  BY <1>1, <1>2, <1>3
<1>5. Typed'
  BY <1>1, <1>4 DEF SupervisorInv, Typed
<1>6. (Cardinality(Held) <= ResolveConcurrency)'
  <2>1. CASE st = "none" \/ resolver[r].st = "calling"
    <3>1. Held' \subseteq Held
      BY <1>1, <1>2, <1>3, <2>1 DEF Held
    <3> QED BY <3>1, NobodyAcquires DEF SupervisorInv
  <2>2. CASE st = "calling" /\ Cardinality(Held) < ResolveConcurrency
    <3>1. Held' \subseteq Held \cup {r}
      BY <1>1, <1>2, <1>3 DEF Held
    <3>2. IsFiniteSet(Held) /\ IsFiniteSet(Held \cup {r}) /\ IsFiniteSet(Held')
      BY AvahiAssumption, FS_Subset, FS_AddElement DEF Held
    <3>3. Cardinality(Held \cup {r}) <= Cardinality(Held) + 1
      BY <3>2, FS_AddElement, FS_CardinalityType
    <3>4. Cardinality(Held') <= Cardinality(Held \cup {r})
      BY <3>1, <3>2, FS_Subset
    <3>5. Cardinality(Held) \in Nat /\ Cardinality(Held \cup {r}) \in Nat /\ Cardinality(Held') \in Nat
      BY <3>2, FS_CardinalityType
    <3> QED BY <2>2, <3>3, <3>4, <3>5, AvahiAssumption
  <2> QED BY <2>1, <2>2
<1>7. Bounded'
  BY <1>1, <1>6 DEF SupervisorInv, Bounded
<1> QED BY <1>1, <1>5, <1>7, RunStays

LEMMA ResolveKeeps ==
    ASSUME SupervisorInv, NEW r \in Resolvers, Resolve(r)
    PROVE  SupervisorInv'
<1>1. view \in [Services -> Knowledge]
  BY DEF SupervisorInv, Typed
<1>2. CASE Acquire(r)
  BY <1>1, <1>2, WorkerSteps DEF Acquire
<1>3. CASE Resolves(r)
  BY <1>1, <1>3, WorkerSteps DEF Resolves
<1>4. CASE ResolveFails(r)
  BY <1>1, <1>4, WorkerSteps DEF ResolveFails
<1>5. CASE EmitResolved(r)
  <2>1. view' \in [Services -> Knowledge]
    BY <1>1, <1>5 DEF EmitResolved, Told, Knowledge
  <2> QED BY <1>5, <2>1, WorkerSteps DEF EmitResolved
<1> QED BY <1>2, <1>3, <1>4, <1>5 DEF Resolve

-----------------------------------------------------------------------------
(* The bus, the daemon, the network *)

LEMMA Signalled ==
    ASSUME Typed, NEW sig \in Signals, Signal(sig)
    PROVE  signals' \in Seq(Signals)
BY DEF Typed, Signal

\* The surroundings change, and perhaps tell: nothing of Run is touched.
LEMMA WorldSteps ==
    ASSUME SupervisorInv, env' \in Surroundings, env'.browsing \subseteq env.browsing, signals' \in Seq(Signals),
           done' \in BOOLEAN, UNCHANGED <<run, up, conn, router, owner, browser, resolver, view>>
    PROVE  SupervisorInv'
<1>1. Typed'
  <2>1. {up', done', router'} \subseteq BOOLEAN
    BY DEF SupervisorInv, Typed
  <2> QED BY <2>1 DEF SupervisorInv, Typed
<1>2. Bounded'
  BY SameLimits DEF SupervisorInv
<1> QED BY <1>1, <1>2, RunStays

LEMMA ChangingKeeps ==
    ASSUME SupervisorInv, NEW s \in Services, Announce(s) \/ Withdraw(s)
    PROVE  SupervisorInv'
<1>1. env \in Surroundings /\ signals \in Seq(Signals) /\ done \in BOOLEAN
  BY DEF SupervisorInv, Typed
<1>2. PICK a \in SUBSET Services : Changing(s, a)
  BY <1>1 DEF Announce, Withdraw, Surroundings
<1>3. env' = [env EXCEPT !.upsets = @ + 1, !.announced = a]
  BY <1>2 DEF Changing
<1>4. env' \in Surroundings /\ env'.browsing = env.browsing
  <2> DEFINE u == env.upsets + 1
  <2>1. env' = [env EXCEPT !.upsets = u, !.announced = a] /\ u \in Nat
    BY <1>1, <1>3 DEF Surroundings
  <2> HIDE DEF u
  <2> QED BY <1>1, <2>1 DEF Surroundings
<1>5. signals' \in Seq(Signals)
  <2> DEFINE n == IF s \in a THEN "new" ELSE "remove"
  <2>1. n \in {"new", "remove"}
    OBVIOUS
  <2>2. UNCHANGED signals \/ Signal([name |-> n, svc |-> s])
    BY <1>2 DEF Changing
  <2> HIDE DEF n
  <2>3. [name |-> n, svc |-> s] \in Signals
    BY <2>1 DEF Signals
  <2> QED BY <1>1, <2>2, <2>3, Signalled DEF SupervisorInv
<1> QED BY <1>1, <1>2, <1>4, <1>5, WorldSteps DEF Changing

LEMMA DaemonKeeps ==
    ASSUME SupervisorInv, DaemonStops \/ DaemonWedges \/ BrowserWedges \/ Recover
    PROVE  SupervisorInv'
<1>1. env \in Surroundings /\ signals \in Seq(Signals) /\ done \in BOOLEAN /\ Typed
  BY DEF SupervisorInv, Typed
<1>2. UNCHANGED <<run, up, done, conn, router, owner, browser, resolver, view>>
  BY DEF DaemonStops, DaemonWedges, BrowserWedges, Recover, Fault
<1>3. \/ env' = [[env EXCEPT !.daemon = "gone", !.browsing = {}] EXCEPT !.upsets = @ + 1]
      \/ env' = [[env EXCEPT !.daemon = "wedged"] EXCEPT !.upsets = @ + 1]
      \/ \E t \in env.browsing : env' = [[env EXCEPT !.browsing = @ \ {t}] EXCEPT !.upsets = @ + 1]
      \/ env' = [env EXCEPT !.daemon = "up"]
      \/ env' = [env EXCEPT !.bus = "up"]
  BY DEF DaemonStops, DaemonWedges, BrowserWedges, Recover, Fault
<1>4. env' \in Surroundings /\ env'.browsing \subseteq env.browsing
  <2> DEFINE u == env.upsets + 1
  <2>1. u \in Nat
    BY <1>1 DEF Surroundings
  <2>2. \/ env' = [env EXCEPT !.daemon = "gone", !.browsing = {}, !.upsets = u]
        \/ env' = [env EXCEPT !.daemon = "wedged", !.upsets = u]
        \/ \E t \in env.browsing : env' = [env EXCEPT !.browsing = env.browsing \ {t}, !.upsets = u]
        \/ env' = [env EXCEPT !.daemon = "up"]
        \/ env' = [env EXCEPT !.bus = "up"]
    BY <1>1, <1>3 DEF Surroundings
  <2> HIDE DEF u
  <2>3. ASSUME NEW t \in env.browsing, env' = [env EXCEPT !.browsing = env.browsing \ {t}, !.upsets = u]
        PROVE  env' \in Surroundings /\ env'.browsing \subseteq env.browsing
    BY <1>1, <2>1, <2>3 DEF Surroundings
  <2> QED BY <1>1, <2>1, <2>2, <2>3 DEF Surroundings
<1>5. signals' \in Seq(Signals)
  <2>1. \A n \in {"lost", "changed"} : [name |-> n, svc |-> NoService] \in Signals
    BY DEF Signals
  <2>2. UNCHANGED signals \/ \E n \in {"lost", "changed"} : Signal([name |-> n, svc |-> NoService])
    BY DEF DaemonStops, DaemonWedges, BrowserWedges, Recover
  <2> QED BY <1>1, <2>1, <2>2, Signalled
<1> QED BY <1>1, <1>2, <1>4, <1>5, WorldSteps

LEMMA BusDropsKeeps ==
    ASSUME SupervisorInv, BusDrops
    PROVE  SupervisorInv'
<1>1. env \in Surroundings /\ conn \in {"none", "open", "broken"}
  BY DEF SupervisorInv, Typed
<1>2. env' = [[env EXCEPT !.bus = "down", !.browsing = {}] EXCEPT !.upsets = @ + 1]
  BY DEF BusDrops, Fault
<1>3. env' \in Surroundings /\ env'.browsing = {}
  <2> DEFINE u == env.upsets + 1
  <2>1. env' = [env EXCEPT !.bus = "down", !.browsing = {}, !.upsets = u] /\ u \in Nat
    BY <1>1, <1>2 DEF Surroundings
  <2> HIDE DEF u
  <2> QED BY <1>1, <2>1 DEF Surroundings
<1>4. /\ conn' \in {"none", "open", "broken"} /\ (conn' = "none" <=> conn = "none") /\ (conn = "broken" => conn' = "broken")
      /\ UNCHANGED <<run, up, done, router, signals, owner, browser, resolver, view>>
  BY <1>1 DEF BusDrops, Fault
<1>5. Typed'
  <2>1. {up', done', router'} \subseteq BOOLEAN
    BY <1>4 DEF SupervisorInv, Typed
  <2> QED BY <1>3, <1>4, <2>1 DEF SupervisorInv, Typed
<1>6. Bounded'
  BY <1>4, SameLimits DEF SupervisorInv
<1>7. ConnectionsReleased' /\ Routed' /\ Browsing'
  BY <1>3, <1>4 DEF SupervisorInv, ConnectionsReleased, Routed, Browsing
<1>8. Gauge' /\ InRange'
  BY <1>4 DEF SupervisorInv, Gauge, InRange
<1> QED BY <1>5, <1>6, <1>7, <1>8 DEF SupervisorInv

LEMMA ShutdownKeeps ==
    ASSUME SupervisorInv, Shutdown
    PROVE  SupervisorInv'
<1>1. env \in Surroundings /\ signals \in Seq(Signals)
  BY DEF SupervisorInv, Typed
<1>2. done' \in BOOLEAN
  BY DEF Shutdown
<1> QED BY <1>1, <1>2, WorldSteps DEF Shutdown

-----------------------------------------------------------------------------
(* The theorems *)

LEMMA InitHolds == Init => SupervisorInv
<1> SUFFICES ASSUME Init PROVE SupervisorInv
  OBVIOUS
<1>1. run \in Runs /\ run.pc = "dial" /\ run.next = 1 /\ 1 <= Len(Types)
  <2>1. "dial" \in Places /\ "none" \in Reasons /\ 0 \in 0 .. MaxBackoff /\ 1 \in 1 .. Len(Types) + 1
        /\ 0 \in 0 .. 1 /\ 1 <= Len(Types)
    BY Named, AvahiAssumption DEF Reasons
  <2>2. FALSE \in BOOLEAN
    OBVIOUS
  <2> QED BY <2>1, <2>2 DEF Init, Runs
<1>2. env \in Surroundings /\ env.browsing = {}
  BY DEF Init, Surroundings
<1>3. Typed
  <2>1. {up, done, router} \subseteq BOOLEAN
    BY DEF Init
  <2>2. browser \in [TypeSet -> Browsers]
    BY NoBrowserTyped DEF Init
  <2>3. resolver \in [Resolvers -> Workers]
    BY DEF Init, NoResolver, Workers
  <2>4. signals \in Seq(Signals) /\ view \in [Services -> Knowledge]
    BY DEF Init, Knowledge
  <2> QED BY <1>1, <1>2, <2>1, <2>2, <2>3, <2>4 DEF Init, Typed
<1>4. Bounded
  <2>1. Held = {}
    BY DEF Init, Held, NoResolver
  <2>2. Cardinality(Held) = 0
    BY <2>1, FS_EmptySet
  <2>3. \A t \in TypeSet : Len(browser[t].add) = 0 /\ Len(browser[t].remove) = 0
    BY NoBrowserTyped DEF Init
  <2> QED BY <2>2, <2>3, AvahiAssumption DEF Bounded
<1>5. ConnectionsReleased /\ Routed /\ Browsing
  BY <1>1, <1>2, Named DEF Init, ConnectionsReleased, Routed, Browsing
<1>6. Gauge /\ InRange
  BY <1>1 DEF Init, Gauge, InRange
<1> QED BY <1>3, <1>4, <1>5, <1>6 DEF SupervisorInv

LEMMA NextKeeps == SupervisorInv /\ [Next]_vars => SupervisorInv'
<1> SUFFICES ASSUME SupervisorInv, [Next]_vars PROVE SupervisorInv'
  OBVIOUS
<1>1. CASE Supervise
  <2>1. CASE BrowseFails \/ \E i \in 1 .. Len(Stages) : HandshakeFails(i)
    BY <2>1, SetupFailsKeeps
  <2>2. CASE SessionEnds \/ Wake \/ Stop \/ Reset \/ CreateBrowser \/ RegisterBrowser
    BY <2>2, SessionEndsKeeps, PausesKeep, ResetKeeps, CreateBrowserKeeps, RegisterBrowserKeeps
  <2>3. CASE \E i \in 1 .. Len(Stages) : Handshake(i)
    BY <2>3, HandshakeKeeps
  <2> QED BY <1>1, <2>1, <2>2, <2>3 DEF Supervise
<1>2. CASE WatchDone \/ WatchOwner \/ Probe \/ Rebrowse
  BY <1>2, WatchKeeps
<1>3. CASE Route \/ RouterExits
  BY <1>3, RouteKeeps, RouterExitsKeeps
<1>4. CASE \E t \in TypeSet : Consume(t)
  BY <1>4, TakeAddKeeps, TakeRemoveKeeps, ConsumerReturnsKeeps DEF Consume
<1>5. CASE \E r \in Resolvers : Resolve(r)
  BY <1>5, ResolveKeeps
<1>6. CASE Environment
  BY <1>6, ChangingKeeps, DaemonKeeps, BusDropsKeeps, ShutdownKeeps DEF Environment
<1>7. CASE UNCHANGED vars
  <2>1. UNCHANGED <<run, up, conn, router, env>> /\ UNCHANGED <<browser, resolver>>
    BY <1>7 DEF vars
  <2>2. Typed' /\ Bounded'
    BY <1>7, <2>1, SameLimits DEF SupervisorInv, Typed, vars
  <2> QED BY <2>1, <2>2, RunStays
<1> QED BY <1>1, <1>2, <1>3, <1>4, <1>5, <1>6, <1>7 DEF Next

\* The invariant that carries the rest: types and limits, what is open where Run stands, the
\* router of an established connection, the daemon's browsers, and the gauge (avahi.go:119-213).
THEOREM SupervisorInvariant == Spec => []SupervisorInv
<1> QED BY InitHolds, NextKeeps, PTL DEF Spec

\* Between two sessions nothing of the last one is open, and no channel or semaphore is ever
\* fuller than it may be, however connection, daemon and program end (the deferred Close of
\* session, the sends of deliverItem, the semaphore of resolve).
THEOREM SessionsStayReleased == Spec => []SessionInv
<1>1. SupervisorInv => SessionInv
  <2> SUFFICES ASSUME SupervisorInv PROVE SessionInv
    OBVIOUS
  <2>1. run.backoff \in 0 .. MaxBackoff /\ run.failures \in 0 .. 1
    BY DEF SupervisorInv, Typed, Runs
  <2>2. view \in [Services -> {"unknown", "verified", "unverified"}]
    BY DEF SupervisorInv, Typed, Knowledge
  <2>3. TypeOK
    BY <2>1, <2>2 DEF SupervisorInv, Typed, Bounded, TypeOK
  <2> QED BY <2>3 DEF SupervisorInv, SessionInv
<1> QED BY <1>1, SupervisorInvariant, PTL

\* The watch sees the owners channel closed only when the connection broke.
ClosedMeansBroken == run.pc = "watch" /\ ~router => conn = "broken"

\* The watch never takes its own doing for a lost bus: the router of a session that is established
\* does not return by itself (client.route), so that "dbus_closed" tells of the connection.
THEOREM ClosedOnlyWhenBroken == Spec => []ClosedMeansBroken
<1>1. SupervisorInv => ClosedMeansBroken
  BY DEF SupervisorInv, Routed, Serving, ClosedMeansBroken
<1> QED BY <1>1, SupervisorInvariant, PTL

\* Run gives up for good only before the first session that came to be watched, where Avahi is
\* required, and with the gauge down: "only ever true before the first successful session"
\* (Discoverer.Run, Health.Fatal).
THEOREM FatalBeforeFirstSession == Spec => FatalOnlyAtStartup
<1>1. SupervisorInv /\ [Next]_vars
        => [run'.pc = "fatal" /\ run.pc # "fatal" => Required /\ ~up /\ ~run.everConnected]_vars
  <2> SUFFICES ASSUME SupervisorInv, Next, run'.pc = "fatal", run.pc # "fatal"
               PROVE  Required /\ ~up /\ ~run.everConnected
    OBVIOUS
  <2>1. run \in Runs
    BY DEF SupervisorInv, Typed
  <2>2. BrowseFails \/ \E i \in 1 .. Len(Stages) : HandshakeFails(i)
    <3>1. run' # run
      OBVIOUS
    <3>2. ~SessionEnds /\ ~Wake /\ ~Stop /\ ~Reset /\ ~CreateBrowser /\ ~RegisterBrowser
      BY <2>1 DEF SessionEnds, Wake, Stop, Reset, CreateBrowser, RegisterBrowser, Runs
    <3>3. ASSUME NEW i \in 1 .. Len(Stages), Handshake(i)
          PROVE  FALSE
      BY <2>1, <3>3, Named DEF Handshake, Runs
    <3>4. ~WatchDone /\ ~WatchOwner /\ ~Probe /\ ~Rebrowse
      BY <2>1 DEF WatchDone, WatchOwner, Probe, Rebrowse, Leave, Runs
    <3>5. ~Route /\ ~RouterExits /\ ~\E t \in TypeSet : Consume(t)
      BY <3>1 DEF Route, RouterExits, Consume, TakeAdd, TakeRemove, ConsumerReturns
    <3>6. ~\E r \in Resolvers : Resolve(r)
      BY <3>1 DEF Resolve, Acquire, Resolves, ResolveFails, EmitResolved, Becomes
    <3>7. ~Environment
      BY <3>1 DEF Environment, Announce, Withdraw, Changing, DaemonStops, DaemonWedges, BrowserWedges,
                  BusDrops, Recover, Shutdown, Fault
    <3> QED BY <3>2, <3>3, <3>4, <3>5, <3>6, <3>7 DEF Next, Supervise
  <2>3. SessionFails /\ run.pc \notin {"watch", "waiting"}
    BY <2>2, Named DEF BrowseFails, HandshakeFails
  <2>4. ~run.everConnected /\ Required
    BY <2>1, <2>3 DEF SessionFails, Runs
  <2> QED BY <2>3, <2>4 DEF SupervisorInv, Gauge
<1> QED BY <1>1, SupervisorInvariant, PTL DEF Spec, FatalOnlyAtStartup
=============================================================================
