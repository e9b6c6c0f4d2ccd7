----------------------------- MODULE CloudAccount -----------------------------
(***************************************************************************)
(* One Shelly Cloud account and the two loops that share its client:       *)
(* NameStore.Run (internal/shellycloud/names.go), which asks for the       *)
(* device list and then the rooms, and the discovery source's Run          *)
(* (internal/discovery/shellycloud), which asks for every device's status. *)
(* The client admits one request at a time and leaves a pause after each   *)
(* (client.go).  Discovery is held back for the first refresh of the names *)
(* (awaitCloudNames in internal/app/app.go).                               *)
(*                                                                         *)
(* Time is a countdown: rest is the time left until notBefore.  What the   *)
(* account holds is a version number, 0 for nothing.  How long a loop      *)
(* sleeps between its rounds is left open.                                 *)
(***************************************************************************)
EXTENDS Integers

CONSTANTS
    Gap,                \* MinRequestGap
    Pause,              \* rateLimitPause
    Retries,            \* rateLimitRetries
    MaxVersion,         \* bound: how often the account changes
    MaxUpsets           \* bound: how often the cloud changes its mood

ASSUME CloudAssumption ==
    /\ Gap \in Nat \ {0} /\ Pause \in Nat /\ Gap <= Pause /\ Retries \in Nat
    /\ MaxVersion \in Nat \ {0} /\ MaxUpsets \in Nat

VARIABLES
    caller,     \* the goroutines of the two loops, and the locals of post
    slot,       \* Client.slot: its holder
    rest,       \* time left until Client.notBefore
    store,      \* NameStore: names, rooms, up, loaded
    source,     \* Discoverer: health.Up, and what discovery was told last
    wait,       \* where awaitCloudNames is
    done,       \* the program's context is done
    cloud,      \* the account and the mood of the service
    due         \* history: time left of the pause the last response called for

vars == <<caller, slot, rest, store, source, wait, done, cloud, due>>

Callers == {"names", "status"}
Free    == "free"

\* What post returns.
Error(kind) == [kind |-> kind, version |-> 0]
NoAnswer    == Error("failed")

OwedAfter(answer) == IF answer.kind = "limited" THEN Pause ELSE Gap

At(pc, ask, list) == [pc |-> pc, ask |-> ask, attempt |-> 0, answer |-> NoAnswer, list |-> list]
Goto(c, pc)  == caller' = [caller EXCEPT ![c].pc = pc]
Ask(c, what) == caller' = [caller EXCEPT ![c] = At("slot", what, NoAnswer)]
Rest(c, pc)  == caller' = [caller EXCEPT ![c] = At(pc, caller[c].ask, NoAnswer)]

-----------------------------------------------------------------------------
(* Client.post *)

\* acquire: the slot.
TakeSlot(c) ==
    /\ caller[c].pc = "slot" /\ slot = Free
    /\ slot' = c /\ Goto(c, "rest")
    /\ UNCHANGED <<rest, store, source, wait, done, cloud, due>>

GiveUpSlot(c) ==
    /\ caller[c].pc = "slot" /\ done
    /\ caller' = [caller EXCEPT ![c].pc = "return", ![c].answer = NoAnswer]
    /\ UNCHANGED <<slot, rest, store, source, wait, done, cloud, due>>

\* acquire: the pause, and the request.
Send(c) ==
    /\ caller[c].pc = "rest" /\ rest = 0
    /\ Goto(c, "request")
    /\ UNCHANGED <<slot, rest, store, source, wait, done, cloud, due>>

\* Mutant: a pause that is cut short keeps the slot.
CancelRestHolding(c) ==
    /\ caller[c].pc = "rest" /\ rest > 0 /\ done
    /\ caller' = [caller EXCEPT ![c].pc = "return", ![c].answer = NoAnswer]
    /\ UNCHANGED <<slot, rest, store, source, wait, done, cloud, due>>

CancelRest(c) ==
    /\ caller[c].pc = "rest" /\ rest > 0 /\ done
    /\ slot' = Free
    /\ caller' = [caller EXCEPT ![c].pc = "return", ![c].answer = NoAnswer]
    /\ UNCHANGED <<rest, store, source, wait, done, cloud, due>>

\* do: its answer, its time limit, or the end of the context.
Answers ==
    {CASE cloud.mood = "good"    -> [kind |-> "ok", version |-> cloud.version]
       [] cloud.mood = "garbled" -> Error("garbled")
       [] cloud.mood = "limits"  -> Error("limited")
       [] OTHER                  -> NoAnswer}
    \cup (IF done THEN {NoAnswer} ELSE {})

Respond(c) ==
    /\ caller[c].pc = "request"
    /\ \E answer \in Answers :
          /\ caller' = [caller EXCEPT ![c].pc = "release", ![c].answer = answer]
          /\ due' = OwedAfter(answer)
    /\ UNCHANGED <<slot, rest, store, source, wait, done, cloud>>

AfterRelease(c) ==
    /\ slot' = Free
    /\ caller' = IF caller[c].answer.kind = "limited" /\ caller[c].attempt < Retries
                 THEN [caller EXCEPT ![c].pc = "slot", ![c].attempt = @ + 1, ![c].answer = NoAnswer]
                 ELSE [caller EXCEPT ![c].pc = "return", ![c].attempt = 0]
    /\ UNCHANGED <<store, source, wait, done, cloud, due>>

\* Mutant: a refused request is followed by the ordinary pause.
ReleaseAfterGap(c) == caller[c].pc = "release" /\ rest' = Gap /\ AfterRelease(c)

\* release, which only the holder's successor can observe; then the retry, or the return of post.
Release(c) == caller[c].pc = "release" /\ rest' = OwedAfter(caller[c].answer) /\ AfterRelease(c)

Post(c) == TakeSlot(c) \/ GiveUpSlot(c) \/ Send(c) \/ CancelRest(c) \/ Respond(c) \/ Release(c)

-----------------------------------------------------------------------------
(* The names *)

Returned(c, ask) == caller[c].pc = "return" /\ caller[c].ask = ask

\* Only with the list in hand are the rooms asked for.
ListReturns ==
    /\ Returned("names", "list") /\ caller["names"].answer.kind \in {"ok", "garbled"}
    /\ caller' = [caller EXCEPT !["names"] = At("slot", "rooms", caller["names"].answer)]
    /\ UNCHANGED <<slot, rest, store, source, wait, done, cloud, due>>

\* A list that decodes becomes the names; whatever happened, the first refresh is over.
RefreshEnds(list, rooms) ==
    /\ store' = IF done THEN [store EXCEPT !.rooms = rooms]
                ELSE IF list.kind = "ok"
                THEN [rooms |-> rooms, up |-> TRUE, loaded |-> TRUE,
                      names |-> [list |-> list.version, rooms |-> rooms]]
                ELSE [store EXCEPT !.rooms = rooms, !.up = FALSE, !.loaded = TRUE]
    /\ Rest("names", "sleep")
    /\ UNCHANGED <<slot, rest, source, wait, done, cloud, due>>

ListFails ==
    /\ Returned("names", "list") /\ caller["names"].answer.kind \notin {"ok", "garbled"}
    /\ RefreshEnds(caller["names"].answer, store.rooms)

\* Mutant: room names are fetched once and never replaced.
RoomsReturnOnce ==
    /\ Returned("names", "rooms")
    /\ LET answer == caller["names"].answer
       IN  RefreshEnds(caller["names"].list,
                       IF store.rooms = 0 /\ answer.kind = "ok" THEN answer.version ELSE store.rooms)

\* A failed request keeps the rooms; an answer of another shape costs them.
RoomsReturn ==
    /\ Returned("names", "rooms")
    /\ LET answer == caller["names"].answer
       IN  RefreshEnds(caller["names"].list,
                       IF answer.kind \in {"ok", "garbled"} THEN answer.version ELSE store.rooms)

-----------------------------------------------------------------------------
(* The discovery source *)

\* The first poll follows the wait for the names.
StatusReturns ==
    /\ Returned("status", "status")
    /\ LET answer == caller["status"].answer
       IN  source' = IF answer.kind = "ok"
                     THEN [up |-> TRUE, told |-> answer.version] ELSE [source EXCEPT !.up = FALSE]
    /\ Rest("status", "sleep")
    /\ UNCHANGED <<slot, rest, store, wait, done, cloud, due>>

\* Publishing the devices is cut short by the context.
StatusCut ==
    /\ Returned("status", "status") /\ done
    /\ Rest("status", "stopped")
    /\ UNCHANGED <<slot, rest, store, source, wait, done, cloud, due>>

\* awaitCloudNames: its timer.
StartupWaitEnds ==
    /\ wait = "names" /\ wait' = "over"
    /\ UNCHANGED <<caller, slot, rest, store, source, done, cloud, due>>

DiscoveryBegins ==
    /\ wait' = "started" /\ Ask("status", "status")
    /\ UNCHANGED <<slot, rest, store, source, done, cloud, due>>

\* awaitCloudNames returns when the first refresh is over, late or the context done.
AwaitCloudNames ==
    /\ wait = "over" \/ (wait = "names" /\ (store.loaded \/ done))
    /\ DiscoveryBegins

-----------------------------------------------------------------------------
(* Both loops *)

\* The timer of the interval, or of the retry.
Wake(c) ==
    /\ caller[c].pc = "sleep"
    /\ Ask(c, IF c = "names" THEN "list" ELSE "status")
    /\ UNCHANGED <<slot, rest, store, source, wait, done, cloud, due>>

Stop(c) ==
    /\ caller[c].pc = "sleep" /\ done
    /\ Goto(c, "stopped")
    /\ UNCHANGED <<slot, rest, store, source, wait, done, cloud, due>>

-----------------------------------------------------------------------------
(* The cloud, time and shutdown *)

\* Bound: the cloud no longer changes once the program is shutting down.
CloudChanges ==
    /\ ~done
    /\ \/ cloud.version < MaxVersion /\ cloud' = [cloud EXCEPT !.version = @ + 1]
       \/ /\ cloud.upsets < MaxUpsets
          /\ \E mood \in {"good", "limits", "down", "garbled"} \ {cloud.mood} :
                cloud' = [cloud EXCEPT !.mood = mood, !.upsets = @ + 1]
    /\ UNCHANGED <<caller, slot, rest, store, source, wait, done, due>>

Tick ==
    /\ rest > 0 \/ due > 0
    /\ rest' = IF rest > 0 THEN rest - 1 ELSE 0
    /\ due' = IF due > 0 THEN due - 1 ELSE 0
    /\ UNCHANGED <<caller, slot, store, source, wait, done, cloud>>

Shutdown ==
    /\ ~done /\ done' = TRUE
    /\ UNCHANGED <<caller, slot, rest, store, source, wait, cloud, due>>

-----------------------------------------------------------------------------
Init ==
    /\ caller = [c \in Callers |-> IF c = "names" THEN At("slot", "list", NoAnswer)
                                   ELSE At("held", "status", NoAnswer)]
    /\ slot = Free /\ rest = 0 /\ wait = "names" /\ done = FALSE
    /\ store = [names |-> [list |-> 0, rooms |-> 0], rooms |-> 0, up |-> FALSE, loaded |-> FALSE]
    /\ source = [up |-> FALSE, told |-> 0]
    /\ cloud \in [version : {1}, mood : {"good", "limits"}, upsets : {0}]
    /\ due = 0

Next ==
    \/ \E c \in Callers : Post(c) \/ Wake(c) \/ Stop(c)
    \/ ListReturns \/ ListFails \/ RoomsReturn
    \/ StatusReturns \/ StatusCut \/ StartupWaitEnds \/ AwaitCloudNames
    \/ CloudChanges \/ Tick \/ Shutdown

\* A blocked sender is served in its turn, and of two ready arms either is chosen in the end;
\* every request ends by its time limit and every timer fires.
Fairness ==
    /\ \A c \in Callers :
          /\ SF_vars(TakeSlot(c)) /\ SF_vars(Stop(c))
          /\ WF_vars(GiveUpSlot(c) \/ Send(c) \/ CancelRest(c) \/ Respond(c) \/ Release(c))
          /\ WF_vars(Wake(c))
    /\ WF_vars(ListReturns \/ ListFails \/ RoomsReturn) /\ WF_vars(StatusReturns \/ StatusCut)
    /\ WF_vars(StartupWaitEnds) /\ WF_vars(AwaitCloudNames) /\ WF_vars(Tick)

Spec == Init /\ [][Next]_vars /\ Fairness

-----------------------------------------------------------------------------
(* Properties *)

\* Every variable has its type; the slot is held by the loop whose request it is.
TypeOK ==
    /\ \A c \in Callers :
          /\ caller[c].attempt \in 0 .. Retries
          /\ caller[c].pc \in {"rest", "request", "release"} <=> slot = c
    /\ slot \in Callers \cup {Free}
    /\ rest \in 0 .. Pause /\ due \in 0 .. Pause
    /\ store.rooms \in 0 .. MaxVersion /\ source.told \in 0 .. MaxVersion
    /\ store.up \in BOOLEAN /\ store.loaded \in BOOLEAN /\ wait \in {"names", "over", "started"} /\ done \in BOOLEAN

\* "every caller sharing it stays within the account's rate limit together": a request starts
\* alone, and no sooner after the last response than that response called for.
RateKept ==
    [][\A c \in Callers :
          caller'[c].pc = "request" /\ caller[c].pc # "request"
              => /\ due = 0
                 /\ \A o \in Callers \ {c} : caller[o].pc # "request"]_vars

Mirrored ==
    IF cloud.mood = "good"
    THEN /\ store.up /\ store.names = [list |-> cloud.version, rooms |-> cloud.version]
         /\ source.up /\ source.told = cloud.version
    ELSE ~store.up /\ ~source.up

\* Once the cloud settles, as the bounds make it, so does what the exporter says of it: an account
\* that can be read is mirrored in full, the rooms included; an outage of any kind is reported by
\* both gauges.  Discovery has begun by then.
CloudIsMirrored == <>[](Mirrored \/ done)

\* After the context is done both loops end, the one that still waited for the names as well, and
\* neither takes the slot with it.
ShutdownFreesSlot == done ~> (slot = Free /\ \A c \in Callers : caller[c].pc = "stopped")
=============================================================================
