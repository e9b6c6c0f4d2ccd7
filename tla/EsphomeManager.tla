---------------------------- MODULE EsphomeManager ----------------------------
(***************************************************************************)
(* The ESPHome connections and who may hold them:                          *)
(* internal/esphome/manager.go.  Manager.Sync, called every ten seconds by *)
(* app.refreshSelfMetrics, matches device goroutines to the registry's     *)
(* snapshot; Manager.Run tears them down when the program ends.  Both stop *)
(* a goroutine by cancelling its context and waiting, for ConnectBudget at *)
(* most, for its exit.  A goroutine takes the steps of EsphomeLife, its    *)
(* dial split at the connect semaphore.                                    *)
(***************************************************************************)
EXTENDS Integers, FiniteSets

CONSTANTS
    Ids, Addrs, Ports,
    Goroutines,     \* bound: device goroutines there may be at a time
    MaxConcurrentConnects,
    MaxChanges,     \* bound: changes of the registry's snapshot
    Nothing         \* no address, device or goroutine

ASSUME ManagerAssumption ==
    /\ Nothing \notin Ids \cup Addrs \cup Goroutines /\ Ports # {}
    /\ IsFiniteSet(Goroutines)
    /\ MaxConcurrentConnects \in Nat \ {0} /\ MaxChanges \in Nat

VARIABLES
    known,      \* the registry's snapshot: what it knows of each ESPHome device
    changes,
    managed,    \* Manager.devices
    reported,   \* goroutines logged as not having exited
    gor,        \* the device goroutines
    sync,       \* Sync: where it is and its local variables
    run,        \* Run: likewise
    done        \* the program's context is done

vars == <<known, changes, managed, reported, gor, sync, run, done>>

\* A device in the snapshot: its primary address, its port and its epoch.
Absent  == [here |-> FALSE, addr |-> Nothing, port |-> CHOOSE p \in Ports : TRUE, epoch |-> 0]
Unused  == [id |-> Nothing, dials |-> Absent, life |-> "none", cancelled |-> FALSE]
AtWork  == {"queued", "dialling", "open"}
Lives   == {"resting"} \cup AtWork
Managed == {managed[id] : id \in Ids} \ {Nothing}

-----------------------------------------------------------------------------
(* The registry, seen from here: its epoch moves with the addresses only. *)

Change(id, d) ==
    /\ changes < MaxChanges
    /\ changes' = changes + 1
    /\ known' = [known EXCEPT ![id] = d]
    /\ UNCHANGED <<managed, reported, gor, sync, run, done>>

\* A device that is new, or forgotten and new again, starts with the first epoch; every
\* node announces the same port until it is given another.
Appear(id, a) ==
    ~known[id].here /\ Change(id, [Absent EXCEPT !.here = TRUE, !.addr = a,
                                               !.epoch = IF a = Nothing THEN 0 ELSE 1])

Move(id, a) ==
    /\ known[id].here /\ a # known[id].addr
    /\ Change(id, [known[id] EXCEPT !.addr = a, !.epoch = @ + 1])

ChangePort(id, p) ==
    known[id].here /\ p # known[id].port /\ Change(id, [known[id] EXCEPT !.port = p])

Forget(id) == known[id].here /\ Change(id, Absent)

-----------------------------------------------------------------------------
(* Sync *)

Goto(pc) == sync' = [sync EXCEPT !.pc = pc]

\* A tick: Sync gets the current snapshot, unless Run has not begun or the context is done.
SyncBegins ==
    /\ sync.pc = "idle" /\ run.pc # "starting" /\ ~done
    /\ sync' = [sync EXCEPT !.pc = "prune", !.want = known,
                            !.todo = {id \in Ids : known[id].here /\ known[id].addr # Nothing}]
    /\ UNCHANGED <<known, changes, managed, reported, gor, run, done>>

\* Under the lock: devices that are gone or have no address are no longer managed.
Prune ==
    /\ sync.pc = "prune"
    /\ LET gone == {id \in Ids \ sync.todo : managed[id] # Nothing}
       IN  /\ sync' = [sync EXCEPT !.pc = "stop", !.stop = {managed[id] : id \in gone}]
           /\ managed' = [id \in Ids |-> IF id \in gone THEN Nothing ELSE managed[id]]
    /\ UNCHANGED <<known, changes, reported, gor, run, done>>

Cancelling(g) == gor' = [gor EXCEPT ![g].cancelled = TRUE]

StopNext ==
    /\ sync.pc = "stop"
    /\ \/ \E g \in sync.stop :
             /\ Cancelling(g)
             /\ sync' = [sync EXCEPT !.pc = "await", !.stop = @ \ {g}, !.on = g]
       \/ sync.stop = {} /\ Goto("ensure") /\ UNCHANGED gor
    /\ UNCHANGED <<known, changes, managed, reported, run, done>>

Exited(g) == gor[g].life = "exited"

\* awaitExit gives up on a goroutine that is in a call of the library: such a call does not
\* look at the context.  Whatever else it does, ConnectBudget is ample.
TimesOut(g) == gor[g].life = "open" /\ reported' = reported \cup {g}

\* Back to the next one to stop, or on to the replacement.
SyncAwaits ==
    /\ sync.pc = "await"
    /\ \/ Exited(sync.on) /\ UNCHANGED reported
       \/ TimesOut(sync.on)
    /\ sync' = [sync EXCEPT !.pc = IF sync.id = Nothing THEN "stop" ELSE "insert",
                            !.on = Nothing]
    /\ UNCHANGED <<known, changes, managed, gor, run, done>>

\* Mutant: only the epoch is compared.
SameEpoch(g, d) == gor[g].dials.epoch = d.epoch

SameDial(g, d) == gor[g].dials.epoch = d.epoch /\ gor[g].dials.addr = d.addr

\* Mutant: the replacement does not wait for the old goroutine's exit.
EnsureAtOnce(id) ==
    /\ sync.pc = "ensure" /\ id \in sync.todo
    /\ LET g == managed[id]
       IN  IF g # Nothing /\ SameDial(g, sync.want[id])
           THEN sync' = [sync EXCEPT !.todo = @ \ {id}] /\ UNCHANGED <<managed, gor>>
           ELSE /\ sync' = [sync EXCEPT !.todo = @ \ {id}, !.id = id, !.pc = "insert"]
                /\ managed' = [managed EXCEPT ![id] = Nothing]
                /\ IF g = Nothing THEN UNCHANGED gor ELSE Cancelling(g)
    /\ UNCHANGED <<known, changes, reported, run, done>>

\* ensure, for the wanted devices in any order: a device that moved gets a new goroutine,
\* after its old one.
Ensure(id) ==
    /\ sync.pc = "ensure" /\ id \in sync.todo
    /\ LET g == managed[id]
           next == [sync EXCEPT !.todo = @ \ {id}]
       IN  IF g # Nothing /\ SameDial(g, sync.want[id])
           THEN sync' = next /\ UNCHANGED <<managed, gor>>
           ELSE IF g # Nothing
           THEN /\ managed' = [managed EXCEPT ![id] = Nothing]
                /\ Cancelling(g)
                /\ sync' = [next EXCEPT !.id = id, !.on = g, !.pc = "await"]
           ELSE sync' = [next EXCEPT !.id = id, !.pc = "insert"] /\ UNCHANGED <<managed, gor>>
    /\ UNCHANGED <<known, changes, reported, run, done>>

Free(g) ==
    /\ gor[g].life \in {"none", "exited"}
    /\ g \notin Managed \cup sync.stop \cup run.rest \cup {sync.on, run.on}

\* The new goroutine dials what the snapshot said when Sync began.
Insert ==
    /\ sync.pc = "insert" /\ \E g \in Goroutines : Free(g)
    /\ LET g == CHOOSE g \in Goroutines : Free(g)
       IN  /\ gor' = [gor EXCEPT ![g] = [id |-> sync.id, dials |-> sync.want[sync.id],
                                         life |-> "resting", cancelled |-> FALSE]]
           /\ managed' = [managed EXCEPT ![sync.id] = g]
           /\ reported' = reported \ {g}
    /\ sync' = [sync EXCEPT !.id = Nothing, !.pc = "ensure"]
    /\ UNCHANGED <<known, changes, run, done>>

SyncReturns ==
    /\ sync.pc = "ensure" /\ sync.todo = {}
    /\ Goto("idle")
    /\ UNCHANGED <<known, changes, managed, reported, gor, run, done>>

-----------------------------------------------------------------------------
(* Run *)

RunBegins ==
    /\ run.pc = "starting"
    /\ run' = [run EXCEPT !.pc = "running"]
    /\ UNCHANGED <<known, changes, managed, reported, gor, sync, done>>

\* Signal: the context of the program, and with it that of every device, is done.
Shutdown ==
    /\ ~done
    /\ done' = TRUE
    /\ UNCHANGED <<known, changes, managed, reported, gor, sync, run>>

\* Under the lock, Run takes what is managed.
TearDown ==
    /\ run.pc = "running" /\ done
    /\ run' = [run EXCEPT !.pc = "stop", !.rest = Managed]
    /\ managed' = [id \in Ids |-> Nothing]
    /\ UNCHANGED <<known, changes, reported, gor, sync, done>>

RunStopsNext ==
    /\ run.pc = "stop"
    /\ \/ \E g \in run.rest :
             /\ Cancelling(g)
             /\ run' = [run EXCEPT !.pc = "await", !.rest = @ \ {g}, !.on = g]
       \/ run.rest = {} /\ run' = [run EXCEPT !.pc = "returned"] /\ UNCHANGED gor
    /\ UNCHANGED <<known, changes, managed, reported, sync, done>>

RunAwaits ==
    /\ run.pc = "await"
    /\ \/ Exited(run.on) /\ UNCHANGED reported
       \/ TimesOut(run.on)
    /\ run' = [run EXCEPT !.pc = "stop", !.on = Nothing]
    /\ UNCHANGED <<known, changes, managed, gor, sync, done>>

-----------------------------------------------------------------------------
(* The device goroutines, as in EsphomeLife *)

\* Mutant: a device's context does not descend from the program's.
CancelledAlone(g) == gor[g].cancelled

Cancelled(g) == gor[g].cancelled \/ done

Live(g, from, to) ==
    /\ gor[g].life = from
    /\ gor' = [gor EXCEPT ![g].life = to]
    /\ UNCHANGED <<known, changes, managed, reported, sync, run, done>>

Dialling == {g \in Goroutines : gor[g].life = "dialling"}

\* gatedDial holds the semaphore for the dial alone, and waits for it under the context.
Dial(g) == ~Cancelled(g) /\ Live(g, "resting", "queued")
Acquire(g) ==
    /\ Cardinality(Dialling) < MaxConcurrentConnects
    /\ Live(g, "queued", "dialling")
NotAcquired(g) == Cancelled(g) /\ Live(g, "queued", "resting")
Connect(g)     == Live(g, "dialling", "open")
GiveUp(g)      == Live(g, "dialling", "resting")
Close(g)       == Live(g, "open", "resting")
Exit(g)        == Cancelled(g) /\ Live(g, "resting", "exited")

-----------------------------------------------------------------------------

Init ==
    /\ known = [id \in Ids |-> Absent] /\ changes = 0
    /\ managed = [id \in Ids |-> Nothing] /\ reported = {}
    /\ gor = [g \in Goroutines |-> Unused]
    /\ sync = [pc |-> "idle", want |-> known, stop |-> {}, todo |-> {}, id |-> Nothing,
               on |-> Nothing]
    /\ run = [pc |-> "starting", rest |-> {}, on |-> Nothing]
    /\ done = FALSE

Snapshot ==
    \E id \in Ids :
        \/ \E a \in Addrs \cup {Nothing} : Appear(id, a) \/ Move(id, a)
        \/ \E p \in Ports : ChangePort(id, p)
        \/ Forget(id)

Sync ==
    \/ SyncBegins \/ Prune \/ StopNext \/ SyncAwaits \/ Insert \/ SyncReturns
    \/ \E id \in Ids : Ensure(id)

Run == RunBegins \/ TearDown \/ RunStopsNext \/ RunAwaits

Device(g) ==
    \/ Dial(g) \/ Acquire(g) \/ NotAcquired(g) \/ Connect(g) \/ GiveUp(g) \/ Close(g) \/ Exit(g)

\* What a cancelled goroutine does next, and the end of a dial.
WindsUp(g) ==
    NotAcquired(g) \/ Connect(g) \/ GiveUp(g) \/ (Cancelled(g) /\ Close(g)) \/ Exit(g)

Next == Snapshot \/ Sync \/ Run \/ Shutdown \/ \E g \in Goroutines : Device(g)

\* Both loops run; dials and, in the end, the library's calls return.
Fairness ==
    /\ WF_vars(Sync) /\ WF_vars(Run)
    /\ \A g \in Goroutines : WF_vars(WindsUp(g))

Spec == Init /\ [][Next]_vars /\ Fairness

-----------------------------------------------------------------------------
(* Properties *)

Known == [here : BOOLEAN, addr : Addrs \cup {Nothing}, port : Ports, epoch : 0 .. MaxChanges]
Maybe(S) == S \cup {Nothing}

\* Every variable keeps its type.
TypeOK ==
    /\ known \in [Ids -> Known] /\ changes \in 0 .. MaxChanges
    /\ managed \in [Ids -> Maybe(Goroutines)] /\ reported \subseteq Goroutines
    /\ gor \in [Goroutines -> [id : Maybe(Ids), dials : Known, cancelled : BOOLEAN,
                               life : Lives \cup {"none", "exited"}]]
    /\ sync \in [pc : {"idle", "prune", "stop", "await", "ensure", "insert"},
                 want : [Ids -> Known], stop : SUBSET Goroutines, todo : SUBSET Ids,
                 id : Maybe(Ids), on : Maybe(Goroutines)]
    /\ run \in [pc : {"starting", "running", "stop", "await", "returned"},
                rest : SUBSET Goroutines, on : Maybe(Goroutines)]
    /\ done \in BOOLEAN

\* The dials at a time keep to the connect semaphore's limit.
SemaphoreKept == Cardinality(Dialling) <= MaxConcurrentConnects

\* A goroutine that nobody has told to stop is the one managed for its device, or on the
\* list of those about to be told: no interleaving of Sync and Run loses track of a
\* goroutine that would hold one of the device's API slots for ever.
EveryConnectionManaged ==
    \A g \in Goroutines :
        gor[g].life \in Lives /\ ~Cancelled(g) =>
            managed[gor[g].id] = g \/ g \in sync.stop \cup run.rest

\* "Manager keeps exactly one live connection per known ESPHome device": a device has a
\* second goroutine that dials or holds a connection only after the log said that the
\* first one did not exit.
OneConnectionUnlessReported ==
    \A g, h \in Goroutines :
        g # h /\ {gor[g].life, gor[h].life} \subseteq AtWork /\ gor[g].id = gor[h].id =>
            g \in reported \/ h \in reported

\* Between them: the connections at work are the managed ones, and at most those that the log
\* reported or that are about to be stopped besides; and no more dial than may.
ConnectionsAccounted == TypeOK /\ SemaphoreKept /\ EveryConnectionManaged /\ OneConnectionUnlessReported

\* When the registry's snapshot settles, Sync ends with a goroutine for each device that
\* has an address, dialling that address, and with none for any other.
SyncConverges ==
    <>[](\/ done
         \/ \A id \in Ids :
               IF known[id].here /\ known[id].addr # Nothing
               THEN managed[id] # Nothing /\ gor[managed[id]].dials.addr = known[id].addr
               ELSE managed[id] = Nothing)

\* "Run owns the manager's lifetime, tearing every connection down on cancellation": in
\* the end Run has returned and every goroutine has exited, those included that a Sync
\* under way started while Run was tearing down.
AllTornDown ==
    done ~> /\ run.pc = "returned"
            /\ \A g \in Goroutines : gor[g].life \notin Lives
=============================================================================
