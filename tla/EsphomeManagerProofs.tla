------------------------ MODULE EsphomeManagerProofs ------------------------
(***************************************************************************)
(* Every connection is accounted for, whatever the number of devices, of   *)
(* goroutines and of changes.  The inductive invariant, ManagerInv, adds   *)
(* to the property what Sync's local variables say of the goroutines that  *)
(* it has taken off the map and not yet awaited.                           *)
(***************************************************************************)
EXTENDS EsphomeManager, FiniteSetTheorems, TLAPS

-----------------------------------------------------------------------------
(* The invariant *)

\* The local variables of Sync and Run, by position.
Positions ==
    /\ sync.pc \in {"idle", "prune", "ensure", "insert"} => sync.stop = {}
    /\ sync.pc = "await" <=> sync.on # Nothing
    /\ sync.pc = "await" /\ sync.id # Nothing => sync.stop = {}
    /\ sync.pc = "insert" => sync.id # Nothing
    /\ sync.pc \notin {"await", "insert"} => sync.id = Nothing
    /\ sync.id # Nothing => managed[sync.id] = Nothing
    /\ run.pc = "await" => run.on # Nothing

\* An epoch counts changes of the snapshot.
EpochsCount == \A id \in Ids : known[id].epoch <= changes

\* The map leads to goroutines of the device itself.
Owned ==
    /\ \A id \in Ids : managed[id] # Nothing => gor[managed[id]].id = id
    /\ \A g \in Goroutines : gor[g].life # "none" => gor[g].id \in Ids

\* What Sync has taken off the map and not awaited yet.
Pending == sync.stop \cup ({sync.on} \ {Nothing})

\* Sync puts no replacement on the map while an old goroutine of that device is pending.
Apart ==
    /\ \A g \in Pending : gor[g].id \in Ids /\ managed[gor[g].id] = Nothing
    /\ \A g, h \in Pending : gor[g].id = gor[h].id => g = h
    /\ sync.on \notin sync.stop

\* Until the program ends, a goroutine that runs is on the map, pending, or reported.
Traced ==
    ~done => \A g \in Goroutines :
                gor[g].life \in Lives =>
                    managed[gor[g].id] = g \/ g \in Pending \/ g \in reported

Accounts == Owned /\ Apart /\ Traced /\ EveryConnectionManaged /\ OneConnectionUnlessReported

ManagerInv == TypeOK /\ SemaphoreKept /\ Positions /\ EpochsCount /\ Accounts

-----------------------------------------------------------------------------
(* What a step need not disturb *)

\* Fewer dial than before.
LEMMA FewerDial ==
    ASSUME SemaphoreKept, Dialling' \subseteq Dialling
    PROVE  SemaphoreKept'
  <1>1. IsFiniteSet(Dialling) /\ IsFiniteSet(Dialling')
    BY ManagerAssumption, FS_Subset DEF Dialling
  <1>2. Cardinality(Dialling') <= Cardinality(Dialling)
    BY <1>1, FS_Subset
  <1>3. Cardinality(Dialling) \in Nat /\ Cardinality(Dialling') \in Nat
    BY <1>1, FS_CardinalityType
  <1> QED BY <1>2, <1>3, ManagerAssumption DEF SemaphoreKept

\* One connection each follows while the program runs: of two goroutines that are not reported,
\* one would be on the map and the other pending.
LEMMA OneUnlessReported ==
    ASSUME TypeOK, Owned, Apart, Traced, ~done
    PROVE  OneConnectionUnlessReported
  <1> SUFFICES ASSUME NEW g \in Goroutines, NEW h \in Goroutines, g # h,
                      {gor[g].life, gor[h].life} \subseteq AtWork, gor[g].id = gor[h].id,
                      g \notin reported, h \notin reported
               PROVE  FALSE
    BY DEF OneConnectionUnlessReported
  <1>1. gor[g].life \in Lives /\ gor[h].life \in Lives
    BY DEF Lives
  <1>2. /\ managed[gor[g].id] = g \/ g \in Pending
        /\ managed[gor[h].id] = h \/ h \in Pending
    BY <1>1 DEF Traced
  <1>3. g # Nothing /\ h # Nothing
    BY ManagerAssumption
  <1> QED BY <1>2, <1>3 DEF Apart

\* The registry's epoch runs no faster than its changes.
LEMMA ChangeKeeps ==
    ASSUME ManagerInv, NEW id \in Ids, NEW d \in Known, d.epoch <= changes + 1, Change(id, d)
    PROVE  ManagerInv'
  <1>1. known' \in [Ids -> Known] /\ changes' \in 0 .. MaxChanges
    BY ManagerAssumption DEF ManagerInv, TypeOK, Change
  <1>2. UNCHANGED <<managed, reported, gor, sync, run, done>>
    BY DEF Change
  <1>3. EpochsCount'
    BY DEF ManagerInv, TypeOK, EpochsCount, Change, Known
  <1>4. TypeOK'
    BY <1>1, <1>2 DEF ManagerInv, TypeOK
  <1>5. Positions' /\ SemaphoreKept'
    BY <1>2 DEF ManagerInv, Positions, SemaphoreKept, Dialling
  <1>6. Accounts'
    BY <1>2 DEF ManagerInv, Accounts, Owned, Apart, Pending, Traced, EveryConnectionManaged, Cancelled,
               OneConnectionUnlessReported
  <1> QED BY <1>3, <1>4, <1>5, <1>6 DEF ManagerInv

LEMMA AbsentType == Absent \in Known /\ Absent.epoch = 0
  BY ManagerAssumption DEF Absent, Known

LEMMA AppearKeeps ==
    ASSUME ManagerInv, NEW id \in Ids, NEW a \in Addrs \cup {Nothing}, Appear(id, a)
    PROVE  ManagerInv'
  <1>1. changes \in Nat /\ changes < MaxChanges /\ MaxChanges \in Nat
    BY ManagerAssumption DEF ManagerInv, TypeOK, Appear, Change
  <1>2. PICK e \in 0 .. MaxChanges : e = (IF a = Nothing THEN 0 ELSE 1) /\ e <= changes + 1
    BY <1>1
  <1> DEFINE d == [Absent EXCEPT !.here = TRUE, !.addr = a, !.epoch = e]
  <1>3. d \in Known /\ d.epoch = e
    BY AbsentType DEF Known
  <1>4. Change(id, d)
    BY <1>2 DEF Appear
  <1> QED BY <1>2, <1>3, <1>4, ChangeKeeps

LEMMA MoveKeeps ==
    ASSUME ManagerInv, NEW id \in Ids, NEW a \in Addrs \cup {Nothing}, Move(id, a)
    PROVE  ManagerInv'
  <1>1. changes \in Nat /\ changes < MaxChanges /\ MaxChanges \in Nat
    BY ManagerAssumption DEF ManagerInv, TypeOK, Move, Change
  <1>2. known[id] \in Known /\ known[id].epoch <= changes
    BY DEF ManagerInv, TypeOK, EpochsCount
  <1>3. known[id].epoch \in 0 .. MaxChanges
    BY <1>2 DEF Known
  <1>4. PICK e \in 0 .. MaxChanges : e = known[id].epoch + 1 /\ e <= changes + 1
    BY <1>1, <1>2, <1>3
  <1> DEFINE d == [known[id] EXCEPT !.addr = a, !.epoch = e]
  <1>5. d \in Known /\ d.epoch = e
    BY <1>2 DEF Known
  <1>6. Change(id, d)
    BY <1>4 DEF Move
  <1> QED BY <1>4, <1>5, <1>6, ChangeKeeps

LEMMA ChangePortKeeps ==
    ASSUME ManagerInv, NEW id \in Ids, NEW p \in Ports, ChangePort(id, p)
    PROVE  ManagerInv'
  <1> DEFINE d == [known[id] EXCEPT !.port = p]
  <1>1. known[id] \in Known /\ known[id].epoch <= changes /\ changes \in Nat
    BY ManagerAssumption DEF ManagerInv, TypeOK, EpochsCount
  <1>2. d \in Known /\ d.epoch = known[id].epoch /\ known[id].epoch \in Nat
    BY <1>1 DEF Known
  <1>3. Change(id, d)
    BY DEF ChangePort
  <1> HIDE DEF d
  <1>4. d.epoch <= changes + 1
    BY <1>1, <1>2
  <1> QED BY <1>2, <1>3, <1>4, ChangeKeeps

LEMMA ForgetKeeps ==
    ASSUME ManagerInv, NEW id \in Ids, Forget(id)
    PROVE  ManagerInv'
  <1>1. Absent.epoch <= changes + 1
    BY AbsentType DEF ManagerInv, TypeOK
  <1> QED BY <1>1, AbsentType, ChangeKeeps DEF Forget

LEMMA SnapshotKeeps ==
    ASSUME ManagerInv, Snapshot
    PROVE  ManagerInv'
  BY AppearKeeps, MoveKeeps, ChangePortKeeps, ForgetKeeps DEF Snapshot

-----------------------------------------------------------------------------
(* Sync *)

\* The part of the invariant about goroutines, when none of them moves and the map, what Sync
\* and Run hold and the reports are as before.
LEMMA NothingMoves ==
    ASSUME ManagerInv, UNCHANGED <<managed, reported, gor, done>>, Pending' = Pending,
           (sync.on \notin sync.stop)', sync'.stop = sync.stop, run'.rest = run.rest
    PROVE  Accounts' /\ SemaphoreKept'
  BY DEF ManagerInv, Accounts, Owned, Apart, Traced, EveryConnectionManaged, Cancelled,
         OneConnectionUnlessReported, SemaphoreKept, Dialling

LEMMA SyncBeginsKeeps ==
    ASSUME ManagerInv, SyncBegins
    PROVE  ManagerInv'
  <1>1. /\ sync'.pc = "prune" /\ sync'.stop = sync.stop /\ sync'.id = sync.id /\ sync'.on = sync.on
        /\ sync.pc = "idle"
    BY DEF ManagerInv, TypeOK, SyncBegins
  <1>2. TypeOK'
    BY DEF ManagerInv, TypeOK, SyncBegins
  <1>3. Positions' /\ EpochsCount'
    BY <1>1 DEF ManagerInv, Positions, EpochsCount, SyncBegins
  <1>4. Accounts' /\ SemaphoreKept'
    BY <1>1, NothingMoves DEF ManagerInv, Accounts, Apart, Pending, SyncBegins
  <1> QED BY <1>2, <1>3, <1>4 DEF ManagerInv

LEMMA SyncReturnsKeeps ==
    ASSUME ManagerInv, SyncReturns
    PROVE  ManagerInv'
  <1>1. /\ sync'.pc = "idle" /\ sync'.stop = sync.stop /\ sync'.id = sync.id /\ sync'.on = sync.on
        /\ sync.pc = "ensure"
    BY DEF ManagerInv, TypeOK, SyncReturns, Goto
  <1>2. TypeOK'
    BY DEF ManagerInv, TypeOK, SyncReturns, Goto
  <1>3. Positions' /\ EpochsCount'
    BY <1>1 DEF ManagerInv, Positions, EpochsCount, SyncReturns
  <1>4. Accounts' /\ SemaphoreKept'
    BY <1>1, NothingMoves DEF ManagerInv, Accounts, Apart, Pending, SyncReturns
  <1> QED BY <1>2, <1>3, <1>4 DEF ManagerInv

\* What Prune takes off the map becomes pending, one goroutine for each device.
LEMMA PruneKeeps ==
    ASSUME ManagerInv, Prune
    PROVE  ManagerInv'
  <1> DEFINE gone == {id \in Ids \ sync.todo : managed[id] # Nothing}
  <1>1. /\ sync' = [sync EXCEPT !.pc = "stop", !.stop = {managed[id] : id \in gone}]
        /\ managed' = [id \in Ids |-> IF id \in gone THEN Nothing ELSE managed[id]]
        /\ sync.pc = "prune" /\ UNCHANGED <<known, changes, reported, gor, run, done>>
    BY DEF Prune
  <1>2. /\ sync'.pc = "stop" /\ sync'.stop = {managed[id] : id \in gone}
        /\ sync'.id = sync.id /\ sync'.on = sync.on
    BY <1>1 DEF ManagerInv, TypeOK
  <1>3. sync.stop = {} /\ sync.on = Nothing /\ sync.id = Nothing
    BY <1>1 DEF ManagerInv, Positions
  <1>4. \A id \in gone : managed[id] \in Goroutines /\ gor[managed[id]].id = id
    BY DEF ManagerInv, TypeOK, Maybe, Accounts, Owned
  <1>5. TypeOK'
    <2>1. managed' \in [Ids -> Maybe(Goroutines)]
      BY <1>1 DEF ManagerInv, TypeOK, Maybe
    <2>2. {managed[id] : id \in gone} \subseteq Goroutines
      BY <1>4
    <2> HIDE DEF gone
    <2> QED BY <1>1, <2>1, <2>2 DEF ManagerInv, TypeOK
  <1>6. Positions' /\ EpochsCount'
    BY <1>1, <1>2, <1>3 DEF ManagerInv, Positions, EpochsCount
  <1>7. Pending = {} /\ Pending' = {managed[id] : id \in gone}
    BY <1>2, <1>3 DEF Pending
  <1>8. Owned'
    BY <1>1 DEF ManagerInv, Accounts, Owned
  <1>9. Apart'
    <2>1. \A g \in Pending' : gor[g].id \in gone /\ managed[gor[g].id] = g
      BY <1>4, <1>7
    <2>2. sync'.on \notin sync'.stop
      BY <1>2, <1>3, <1>4, ManagerAssumption
    <2> QED BY <1>1, <1>2, <2>1, <2>2 DEF Apart
  <1>10. Traced'
    BY <1>1, <1>7 DEF ManagerInv, Accounts, Owned, Traced, Lives, AtWork
  <1>11. EveryConnectionManaged'
    BY <1>1, <1>2, <1>3 DEF ManagerInv, Accounts, Owned, EveryConnectionManaged, Cancelled, Lives, AtWork
  <1>12. OneConnectionUnlessReported' /\ SemaphoreKept'
    BY <1>1 DEF ManagerInv, Accounts, OneConnectionUnlessReported, SemaphoreKept, Dialling
  <1> QED BY <1>5, <1>6, <1>8, <1>9, <1>10, <1>11, <1>12 DEF ManagerInv, Accounts

\* Telling a goroutine to stop: it runs on, but no longer counts on anybody.
LEMMA CancelType ==
    ASSUME ManagerInv, NEW g \in Goroutines, Cancelling(g)
    PROVE  /\ gor' \in [Goroutines -> [id : Maybe(Ids), dials : Known, cancelled : BOOLEAN,
                                       life : Lives \cup {"none", "exited"}]]
           /\ \A h \in Goroutines : gor'[h].id = gor[h].id /\ gor'[h].life = gor[h].life
                                    /\ gor'[h].cancelled = (gor[h].cancelled \/ h = g)
  <1> DEFINE T == [id : Maybe(Ids), dials : Known, cancelled : BOOLEAN, life : Lives \cup {"none", "exited"}]
  <1>1. gor \in [Goroutines -> T]
    BY DEF ManagerInv, TypeOK
  <1>2. \A h \in Goroutines : gor'[h] = IF h = g THEN [gor[g] EXCEPT !.cancelled = TRUE] ELSE gor[h]
    BY <1>1 DEF Cancelling
  <1>3. [gor[g] EXCEPT !.cancelled = TRUE] \in T
    BY <1>1
  <1>4. gor' \in [Goroutines -> T]
    BY <1>1, <1>3 DEF Cancelling
  <1>5. ASSUME NEW h \in Goroutines
        PROVE  gor'[h].id = gor[h].id /\ gor'[h].life = gor[h].life
               /\ gor'[h].cancelled = (gor[h].cancelled \/ h = g)
    <2>1. CASE h = g
      <3>1. gor[g] \in T /\ gor'[g] = [gor[g] EXCEPT !.cancelled = TRUE]
        BY <1>1, <1>2
      <3>2. gor'[g].id = gor[g].id /\ gor'[g].life = gor[g].life /\ gor'[g].cancelled = TRUE
        BY <3>1
      <3> QED BY <2>1, <3>2
    <2>2. CASE h # g
      <3>1. gor'[h] = gor[h]
        BY <1>2, <2>2
      <3>2. gor[h].cancelled \in BOOLEAN
        BY <1>1
      <3> QED BY <2>2, <3>1, <3>2
    <2> QED BY <2>1, <2>2
  <1> QED BY <1>4, <1>5

LEMMA StopNextKeeps ==
    ASSUME ManagerInv, StopNext
    PROVE  ManagerInv'
  <1>1. sync.pc = "stop" /\ UNCHANGED <<known, changes, managed, reported, run, done>>
    BY DEF StopNext
  <1>2. sync.on = Nothing /\ sync.id = Nothing
    BY <1>1 DEF ManagerInv, Positions
  <1>3. ASSUME NEW g \in sync.stop, Cancelling(g),
               sync' = [sync EXCEPT !.pc = "await", !.stop = @ \ {g}, !.on = g]
        PROVE  ManagerInv'
    <2>1. g \in Goroutines /\ g # Nothing
      BY ManagerAssumption DEF ManagerInv, TypeOK
    <2>2. /\ sync'.pc = "await" /\ sync'.stop = sync.stop \ {g} /\ sync'.on = g
          /\ sync'.id = sync.id
      BY <1>3 DEF ManagerInv, TypeOK
    <2>3. /\ gor' \in [Goroutines -> [id : Maybe(Ids), dials : Known, cancelled : BOOLEAN,
                                      life : Lives \cup {"none", "exited"}]]
          /\ \A h \in Goroutines : gor'[h].id = gor[h].id /\ gor'[h].life = gor[h].life
                                   /\ gor'[h].cancelled = (gor[h].cancelled \/ h = g)
      BY <1>3, <2>1, CancelType
    <2>4. TypeOK'
      BY <1>1, <1>3, <2>1, <2>3 DEF ManagerInv, TypeOK, Maybe
    <2>5. Positions' /\ EpochsCount'
      BY <1>1, <1>2, <2>1, <2>2 DEF ManagerInv, Positions, EpochsCount
    <2>6. Pending' = Pending
      BY <1>2, <2>1, <2>2 DEF Pending
    <2>7. Owned'
      BY <1>1, <2>3 DEF ManagerInv, TypeOK, Maybe, Accounts, Owned
    <2>8. Apart'
      <3>1. Pending \subseteq Goroutines
        BY DEF ManagerInv, TypeOK, Maybe, Pending
      <3> QED BY <1>1, <2>2, <2>3, <2>6, <3>1 DEF ManagerInv, Accounts, Apart
    <2>9. Traced'
      BY <1>1, <2>3, <2>6 DEF ManagerInv, Accounts, Traced
    <2>10. EveryConnectionManaged'
      BY <1>1, <2>2, <2>3 DEF ManagerInv, Accounts, EveryConnectionManaged, Cancelled
    <2>11. OneConnectionUnlessReported' /\ SemaphoreKept'
      <3>1. Dialling' = Dialling
        BY <2>3 DEF Dialling
      <3> QED BY <1>1, <2>3, <3>1 DEF ManagerInv, Accounts, OneConnectionUnlessReported, SemaphoreKept
    <2> QED BY <2>4, <2>5, <2>7, <2>8, <2>9, <2>10, <2>11 DEF ManagerInv, Accounts
  <1>4. ASSUME sync.stop = {}, Goto("ensure"), UNCHANGED gor
        PROVE  ManagerInv'
    <2>1. /\ sync'.pc = "ensure" /\ sync'.stop = sync.stop /\ sync'.id = sync.id
          /\ sync'.on = sync.on
      BY <1>4 DEF ManagerInv, TypeOK, Goto
    <2>2. TypeOK'
      BY <1>1, <1>4 DEF ManagerInv, TypeOK, Goto
    <2>3. Positions' /\ EpochsCount'
      BY <1>1, <1>4, <1>2, <2>1 DEF ManagerInv, Positions, EpochsCount
    <2>4. Accounts' /\ SemaphoreKept'
      BY <1>1, <1>4, <2>1, NothingMoves DEF ManagerInv, Accounts, Apart, Pending
    <2> QED BY <2>2, <2>3, <2>4 DEF ManagerInv
  <1> QED BY <1>3, <1>4 DEF StopNext

\* The one awaited has exited, or is reported: it need not be pending any more.
LEMMA SyncAwaitsKeeps ==
    ASSUME ManagerInv, SyncAwaits
    PROVE  ManagerInv'
  <1>1. /\ sync.pc = "await" /\ UNCHANGED <<known, changes, managed, gor, run, done>>
        /\ sync' = [sync EXCEPT !.pc = IF sync.id = Nothing THEN "stop" ELSE "insert", !.on = Nothing]
    BY DEF SyncAwaits
  <1>2. sync.on \in Goroutines /\ sync.on # Nothing
    BY <1>1 DEF ManagerInv, TypeOK, Maybe, Positions
  <1>3. /\ sync'.pc = (IF sync.id = Nothing THEN "stop" ELSE "insert") /\ sync'.stop = sync.stop
        /\ sync'.id = sync.id /\ sync'.on = Nothing
    BY <1>1 DEF ManagerInv, TypeOK
  <1>4. \/ gor[sync.on].life = "exited" /\ reported' = reported
        \/ gor[sync.on].life = "open" /\ reported' = reported \cup {sync.on}
    BY DEF SyncAwaits, Exited, TimesOut
  <1>5. TypeOK'
    <2>1. reported' \subseteq Goroutines
      BY <1>2, <1>4 DEF ManagerInv, TypeOK
    <2>2. sync' \in [pc : {"idle", "prune", "stop", "await", "ensure", "insert"},
                     want : [Ids -> Known], stop : SUBSET Goroutines, todo : SUBSET Ids,
                     id : Maybe(Ids), on : Maybe(Goroutines)]
      BY <1>1 DEF ManagerInv, TypeOK, Maybe
    <2> QED BY <1>1, <2>1, <2>2 DEF ManagerInv, TypeOK
  <1>6. Positions' /\ EpochsCount'
    BY <1>1, <1>3 DEF ManagerInv, Positions, EpochsCount
  <1>7. Pending' = Pending \ {sync.on}
    BY <1>2, <1>3 DEF Pending, ManagerInv, Accounts, Apart
  <1>8. Owned'
    BY <1>1 DEF ManagerInv, Accounts, Owned
  <1>9. Apart'
    <2>1. Nothing \notin sync.stop
      BY ManagerAssumption DEF ManagerInv, TypeOK
    <2> QED BY <1>1, <1>3, <1>7, <2>1 DEF ManagerInv, Accounts, Apart
  <1>10. Traced'
    BY <1>1, <1>2, <1>4, <1>7 DEF ManagerInv, Accounts, Traced, Lives, AtWork
  <1>11. EveryConnectionManaged'
    BY <1>1, <1>3 DEF ManagerInv, Accounts, EveryConnectionManaged, Cancelled
  <1>12. OneConnectionUnlessReported' /\ SemaphoreKept'
    BY <1>1, <1>4 DEF ManagerInv, Accounts, OneConnectionUnlessReported, SemaphoreKept, Dialling
  <1> QED BY <1>5, <1>6, <1>8, <1>9, <1>10, <1>11, <1>12 DEF ManagerInv, Accounts

LEMMA EnsureKeeps ==
    ASSUME ManagerInv, NEW id \in Ids, Ensure(id)
    PROVE  ManagerInv'
  <1> DEFINE g == managed[id]
             next == [sync EXCEPT !.todo = @ \ {id}]
  <1>1. /\ sync.pc = "ensure" /\ UNCHANGED <<known, changes, reported, run, done>>
        /\ sync.stop = {} /\ sync.on = Nothing /\ sync.id = Nothing
    BY DEF ManagerInv, Positions, Ensure
  <1>2. id # Nothing /\ g \in Maybe(Goroutines)
    BY ManagerAssumption DEF ManagerInv, TypeOK
  <1>3. ASSUME sync' = next, UNCHANGED <<managed, gor>>
        PROVE  ManagerInv'
    <2>1. /\ sync'.pc = sync.pc /\ sync'.stop = sync.stop /\ sync'.id = sync.id
          /\ sync'.on = sync.on
      BY <1>3 DEF ManagerInv, TypeOK
    <2>2. TypeOK'
      BY <1>1, <1>3 DEF ManagerInv, TypeOK
    <2>3. Positions' /\ EpochsCount'
      BY <1>1, <1>3, <2>1 DEF ManagerInv, Positions, EpochsCount
    <2>4. Accounts' /\ SemaphoreKept'
      BY <1>1, <1>3, <2>1, NothingMoves DEF ManagerInv, Accounts, Apart, Pending
    <2> QED BY <2>2, <2>3, <2>4 DEF ManagerInv
  <1>4. ASSUME g = Nothing, sync' = [next EXCEPT !.id = id, !.pc = "insert"], UNCHANGED <<managed, gor>>
        PROVE  ManagerInv'
    <2>1. /\ sync'.pc = "insert" /\ sync'.stop = sync.stop /\ sync'.id = id
          /\ sync'.on = sync.on
      BY <1>4 DEF ManagerInv, TypeOK
    <2>2. TypeOK'
      BY <1>1, <1>4 DEF ManagerInv, TypeOK, Maybe
    <2>3. Positions' /\ EpochsCount'
      BY <1>1, <1>2, <1>4, <2>1 DEF ManagerInv, Positions, EpochsCount
    <2>4. Accounts' /\ SemaphoreKept'
      BY <1>1, <1>4, <2>1, NothingMoves DEF ManagerInv, Accounts, Apart, Pending
    <2> QED BY <2>2, <2>3, <2>4 DEF ManagerInv
  <1>5. ASSUME g # Nothing, managed' = [managed EXCEPT ![id] = Nothing], Cancelling(g),
               sync' = [next EXCEPT !.id = id, !.on = g, !.pc = "await"]
        PROVE  ManagerInv'
    <2>1. g \in Goroutines /\ gor[g].id = id
      BY <1>2, <1>5 DEF Maybe, ManagerInv, Accounts, Owned
    <2> HIDE DEF g
    <2>2. /\ sync'.pc = "await" /\ sync'.stop = {} /\ sync'.id = id /\ sync'.on = g
      BY <1>1, <1>5 DEF ManagerInv, TypeOK
    <2>3. /\ gor' \in [Goroutines -> [id : Maybe(Ids), dials : Known, cancelled : BOOLEAN,
                                      life : Lives \cup {"none", "exited"}]]
          /\ \A h \in Goroutines : gor'[h].id = gor[h].id /\ gor'[h].life = gor[h].life
                                   /\ gor'[h].cancelled = (gor[h].cancelled \/ h = g)
      BY <1>5, <2>1, CancelType
    <2>4. managed' \in [Ids -> Maybe(Goroutines)]
          /\ \A i \in Ids : managed'[i] = IF i = id THEN Nothing ELSE managed[i]
      BY <1>5 DEF ManagerInv, TypeOK, Maybe
    <2>5. TypeOK'
      <3>1. sync' \in [pc : {"idle", "prune", "stop", "await", "ensure", "insert"},
                       want : [Ids -> Known], stop : SUBSET Goroutines, todo : SUBSET Ids,
                       id : Maybe(Ids), on : Maybe(Goroutines)]
        BY <1>5, <2>1 DEF ManagerInv, TypeOK, Maybe
      <3> QED BY <1>1, <2>3, <2>4, <3>1 DEF ManagerInv, TypeOK
    <2>6. Positions' /\ EpochsCount'
      BY <1>1, <1>2, <1>5, <2>2, <2>4 DEF ManagerInv, Positions, EpochsCount
    <2>7. Pending = {} /\ Pending' = {g}
      BY <1>1, <1>5, <2>2 DEF Pending
    <2>8. Owned'
      BY <2>3, <2>4 DEF ManagerInv, TypeOK, Maybe, Accounts, Owned
    <2>9. Apart'
      BY <2>1, <2>2, <2>3, <2>4, <2>7 DEF Apart
    <2>10. Traced'
      BY <1>1, <2>1, <2>3, <2>4, <2>7 DEF g, ManagerInv, Accounts, Owned, Traced, Lives, AtWork
    <2>11. EveryConnectionManaged'
      BY <1>1, <2>1, <2>2, <2>3, <2>4 DEF g, ManagerInv, Accounts, Owned, EveryConnectionManaged, Cancelled,
                                          Lives, AtWork
    <2>12. OneConnectionUnlessReported' /\ SemaphoreKept'
      <3>1. Dialling' = Dialling
        BY <2>3 DEF Dialling
      <3> QED BY <1>1, <2>3, <3>1 DEF ManagerInv, Accounts, OneConnectionUnlessReported, SemaphoreKept
    <2> QED BY <2>5, <2>6, <2>8, <2>9, <2>10, <2>11, <2>12 DEF ManagerInv, Accounts
  <1> QED BY <1>3, <1>4, <1>5 DEF Ensure

\* The replacement: its slot was free, and nothing of that device is pending any more.
LEMMA InsertKeeps ==
    ASSUME ManagerInv, Insert
    PROVE  ManagerInv'
  <1> DEFINE g == CHOOSE f \in Goroutines : Free(f)
             entry == [id |-> sync.id, dials |-> sync.want[sync.id], life |-> "resting", cancelled |-> FALSE]
  <1>1. g \in Goroutines /\ Free(g)
    BY DEF Insert
  <1>2. /\ sync.pc = "insert" /\ gor' = [gor EXCEPT ![g] = entry]
        /\ managed' = [managed EXCEPT ![sync.id] = g] /\ reported' = reported \ {g}
        /\ sync' = [sync EXCEPT !.id = Nothing, !.pc = "ensure"]
        /\ UNCHANGED <<known, changes, run, done>>
    BY DEF Insert
  <1> HIDE DEF g
  <1>3. sync.id \in Ids /\ managed[sync.id] = Nothing /\ sync.stop = {} /\ sync.on = Nothing
    BY <1>2 DEF ManagerInv, TypeOK, Maybe, Positions
  <1>4. g \notin Managed /\ gor[g].life \in {"none", "exited"} /\ g # Nothing
    BY <1>1, ManagerAssumption DEF Free
  <1>5. /\ sync'.pc = "ensure" /\ sync'.stop = {} /\ sync'.id = Nothing /\ sync'.on = Nothing
    BY <1>2, <1>3 DEF ManagerInv, TypeOK
  <1>6. \A h \in Goroutines : gor'[h] = IF h = g THEN entry ELSE gor[h]
    BY <1>2 DEF ManagerInv, TypeOK
  <1>7. \A id \in Ids : managed'[id] = IF id = sync.id THEN g ELSE managed[id]
    BY <1>2 DEF ManagerInv, TypeOK
  <1>8. \A id \in Ids : managed[id] # g
    BY <1>4 DEF Managed
  <1>9. TypeOK'
    <2>1. entry \in [id : Maybe(Ids), dials : Known, cancelled : BOOLEAN,
                     life : Lives \cup {"none", "exited"}]
      BY <1>3 DEF ManagerInv, TypeOK, Maybe, Lives
    <2> HIDE DEF entry
    <2>2. gor' \in [Goroutines -> [id : Maybe(Ids), dials : Known, cancelled : BOOLEAN,
                                   life : Lives \cup {"none", "exited"}]]
      BY <1>1, <1>2, <2>1 DEF ManagerInv, TypeOK
    <2>3. managed' \in [Ids -> Maybe(Goroutines)]
      BY <1>1, <1>2 DEF ManagerInv, TypeOK, Maybe
    <2>4. sync' \in [pc : {"idle", "prune", "stop", "await", "ensure", "insert"},
                     want : [Ids -> Known], stop : SUBSET Goroutines, todo : SUBSET Ids,
                     id : Maybe(Ids), on : Maybe(Goroutines)]
      BY <1>2 DEF ManagerInv, TypeOK, Maybe
    <2>5. reported' \subseteq Goroutines
      BY <1>2 DEF ManagerInv, TypeOK
    <2> QED BY <1>2, <2>2, <2>3, <2>4, <2>5 DEF ManagerInv, TypeOK
  <1>10. Positions' /\ EpochsCount'
    BY <1>2, <1>5 DEF ManagerInv, Positions, EpochsCount
  <1>11. Pending = {} /\ Pending' = {}
    BY <1>3, <1>5 DEF Pending
  <1>12. Owned'
    <2>1. ASSUME NEW id \in Ids, managed'[id] # Nothing
          PROVE  gor'[managed'[id]].id = id
      <3>1. CASE id = sync.id
        BY <1>1, <1>6, <1>7, <3>1
      <3>2. CASE id # sync.id
        BY <1>6, <1>7, <1>8, <2>1, <3>2 DEF ManagerInv, TypeOK, Maybe, Accounts, Owned
      <3> QED BY <3>1, <3>2
    <2>2. \A h \in Goroutines : gor'[h].life # "none" => gor'[h].id \in Ids
      BY <1>3, <1>6 DEF ManagerInv, Accounts, Owned
    <2> QED BY <2>1, <2>2 DEF Owned
  <1>13. Apart'
    BY <1>5, <1>11 DEF Apart
  <1>14. \A h \in Goroutines : h # g /\ gor[h].life # "none" /\ managed[gor[h].id] = h =>
              managed'[gor'[h].id] = h
    <2> SUFFICES ASSUME NEW h \in Goroutines, h # g, gor[h].life # "none", managed[gor[h].id] = h
                 PROVE  managed'[gor'[h].id] = h
      OBVIOUS
    <2>1. gor'[h] = gor[h] /\ gor[h].id \in Ids /\ h # Nothing
      BY <1>6, ManagerAssumption DEF ManagerInv, Accounts, Owned
    <2>2. gor[h].id # sync.id
      BY <1>3, <2>1
    <2> QED BY <1>7, <2>1, <2>2
  <1>15. managed'[gor'[g].id] = g
    BY <1>1, <1>3, <1>6, <1>7
  <1>16. Traced'
    <2> SUFFICES ASSUME ~done, NEW h \in Goroutines, gor'[h].life \in Lives
                 PROVE  managed'[gor'[h].id] = h \/ h \in reported'
      BY <1>2, <1>11 DEF Traced
    <2>1. CASE h = g
      BY <1>15, <2>1
    <2>2. CASE h # g
      BY <1>2, <1>6, <1>11, <1>14, <2>2 DEF ManagerInv, Accounts, Traced, Lives, AtWork
    <2> QED BY <2>1, <2>2
  <1>17. EveryConnectionManaged'
    <2> SUFFICES ASSUME NEW h \in Goroutines, gor'[h].life \in Lives, ~gor'[h].cancelled, ~done
                 PROVE  managed'[gor'[h].id] = h \/ h \in run'.rest
      BY <1>2, <1>5 DEF EveryConnectionManaged, Cancelled
    <2>1. CASE h = g
      BY <1>15, <2>1
    <2>2. CASE h # g
      <3>1. managed[gor[h].id] = h \/ h \in run.rest
        BY <1>3, <1>6, <2>2 DEF ManagerInv, Accounts, EveryConnectionManaged, Cancelled
      <3> QED BY <1>2, <1>6, <1>14, <2>2, <3>1 DEF Lives, AtWork
    <2> QED BY <2>1, <2>2
  <1>18. OneConnectionUnlessReported'
    BY <1>2, <1>6 DEF ManagerInv, Accounts, OneConnectionUnlessReported, AtWork
  <1>19. SemaphoreKept'
    <2>1. Dialling' \subseteq Dialling
      BY <1>6 DEF Dialling
    <2> QED BY <2>1, FewerDial DEF ManagerInv
  <1> QED BY <1>9, <1>10, <1>12, <1>13, <1>16, <1>17, <1>18, <1>19 DEF ManagerInv, Accounts

LEMMA SyncKeeps ==
    ASSUME ManagerInv, Sync
    PROVE  ManagerInv'
  BY SyncBeginsKeeps, PruneKeeps, StopNextKeeps, SyncAwaitsKeeps, InsertKeeps, SyncReturnsKeeps, EnsureKeeps
     DEF Sync

-----------------------------------------------------------------------------
(* Run and the signal *)

LEMMA RunBeginsKeeps ==
    ASSUME ManagerInv, RunBegins
    PROVE  ManagerInv'
  <1>1. run'.pc = "running" /\ run'.rest = run.rest /\ run'.on = run.on
    BY DEF ManagerInv, TypeOK, RunBegins
  <1>2. TypeOK'
    BY DEF ManagerInv, TypeOK, RunBegins
  <1>3. Positions' /\ EpochsCount'
    BY <1>1 DEF ManagerInv, Positions, EpochsCount, RunBegins
  <1>4. Accounts' /\ SemaphoreKept'
    BY <1>1, NothingMoves DEF ManagerInv, Accounts, Apart, Pending, RunBegins
  <1> QED BY <1>2, <1>3, <1>4 DEF ManagerInv

\* From here on every goroutine's context is done.
LEMMA ShutdownKeeps ==
    ASSUME ManagerInv, Shutdown
    PROVE  ManagerInv'
  <1>1. done' = TRUE /\ UNCHANGED <<known, changes, managed, reported, gor, sync, run>>
    BY DEF Shutdown
  <1>2. TypeOK' /\ Positions' /\ EpochsCount' /\ SemaphoreKept'
    BY <1>1 DEF ManagerInv, TypeOK, Positions, EpochsCount, SemaphoreKept, Dialling
  <1>3. Owned' /\ Apart' /\ OneConnectionUnlessReported'
    BY <1>1 DEF ManagerInv, Accounts, Owned, Apart, Pending, OneConnectionUnlessReported
  <1>4. Traced' /\ EveryConnectionManaged'
    BY <1>1 DEF Traced, EveryConnectionManaged, Cancelled
  <1> QED BY <1>2, <1>3, <1>4 DEF ManagerInv, Accounts

LEMMA TearDownKeeps ==
    ASSUME ManagerInv, TearDown
    PROVE  ManagerInv'
  <1>1. /\ done /\ run' = [run EXCEPT !.pc = "stop", !.rest = Managed]
        /\ managed' = [id \in Ids |-> Nothing]
        /\ UNCHANGED <<known, changes, reported, gor, sync, done>>
    BY DEF TearDown
  <1>2. Managed \subseteq Goroutines
    BY DEF Managed, ManagerInv, TypeOK, Maybe
  <1>3. managed' \in [Ids -> Maybe(Goroutines)]
    BY <1>1 DEF Maybe
  <1> HIDE DEF Managed
  <1>4. TypeOK'
    BY <1>1, <1>2, <1>3 DEF ManagerInv, TypeOK
  <1>5. run'.pc = "stop"
    BY <1>1 DEF ManagerInv, TypeOK
  <1>6. Positions' /\ EpochsCount' /\ SemaphoreKept'
    BY <1>1, <1>5 DEF ManagerInv, TypeOK, Maybe, Positions, EpochsCount, SemaphoreKept, Dialling
  <1>7. Owned' /\ Apart' /\ OneConnectionUnlessReported'
    BY <1>1 DEF ManagerInv, Accounts, Owned, Apart, Pending, OneConnectionUnlessReported
  <1>8. Traced' /\ EveryConnectionManaged'
    BY <1>1 DEF Traced, EveryConnectionManaged, Cancelled
  <1> QED BY <1>4, <1>6, <1>7, <1>8 DEF ManagerInv, Accounts

\* Run stops what it took: none of it counts on anybody since the signal.
LEMMA RunStopsNextKeeps ==
    ASSUME ManagerInv, RunStopsNext
    PROVE  ManagerInv'
  <1>1. UNCHANGED <<known, changes, managed, reported, sync, done>>
    BY DEF RunStopsNext
  <1>2. ASSUME NEW g \in run.rest, Cancelling(g),
               run' = [run EXCEPT !.pc = "await", !.rest = @ \ {g}, !.on = g]
        PROVE  ManagerInv'
    <2>1. g \in Goroutines /\ g # Nothing
      BY ManagerAssumption DEF ManagerInv, TypeOK
    <2>2. run'.pc = "await" /\ run'.rest = run.rest \ {g} /\ run'.on = g
      BY <1>2 DEF ManagerInv, TypeOK
    <2>3. /\ gor' \in [Goroutines -> [id : Maybe(Ids), dials : Known, cancelled : BOOLEAN,
                                      life : Lives \cup {"none", "exited"}]]
          /\ \A h \in Goroutines : gor'[h].id = gor[h].id /\ gor'[h].life = gor[h].life
                                   /\ gor'[h].cancelled = (gor[h].cancelled \/ h = g)
      BY <1>2, <2>1, CancelType
    <2>4. TypeOK'
      BY <1>1, <1>2, <2>1, <2>3 DEF ManagerInv, TypeOK, Maybe
    <2>5. Positions' /\ EpochsCount'
      BY <1>1, <2>1, <2>2 DEF ManagerInv, Positions, EpochsCount
    <2>6. Pending' = Pending /\ Pending \subseteq Goroutines
      BY <1>1 DEF Pending, ManagerInv, TypeOK, Maybe
    <2>7. Owned'
      BY <1>1, <2>3 DEF ManagerInv, TypeOK, Maybe, Accounts, Owned
    <2>8. Apart'
      BY <1>1, <2>3, <2>6 DEF ManagerInv, Accounts, Apart
    <2>9. Traced'
      BY <1>1, <2>3, <2>6 DEF ManagerInv, Accounts, Traced
    <2>10. EveryConnectionManaged'
      BY <1>1, <2>2, <2>3 DEF ManagerInv, Accounts, EveryConnectionManaged, Cancelled
    <2>11. OneConnectionUnlessReported' /\ SemaphoreKept'
      <3>1. Dialling' = Dialling
        BY <2>3 DEF Dialling
      <3> QED BY <1>1, <2>3, <3>1 DEF ManagerInv, Accounts, OneConnectionUnlessReported, SemaphoreKept
    <2> QED BY <2>4, <2>5, <2>7, <2>8, <2>9, <2>10, <2>11 DEF ManagerInv, Accounts
  <1>3. ASSUME run.rest = {}, run' = [run EXCEPT !.pc = "returned"], UNCHANGED gor
        PROVE  ManagerInv'
    <2>1. run'.pc = "returned" /\ run'.rest = run.rest
      BY <1>3 DEF ManagerInv, TypeOK
    <2>2. TypeOK'
      BY <1>1, <1>3 DEF ManagerInv, TypeOK
    <2>3. Positions' /\ EpochsCount'
      BY <1>1, <1>3, <2>1 DEF ManagerInv, Positions, EpochsCount
    <2>4. Accounts' /\ SemaphoreKept'
      BY <1>1, <1>3, <2>1, NothingMoves DEF ManagerInv, Accounts, Apart, Pending
    <2> QED BY <2>2, <2>3, <2>4 DEF ManagerInv
  <1> QED BY <1>2, <1>3 DEF RunStopsNext

LEMMA RunAwaitsKeeps ==
    ASSUME ManagerInv, RunAwaits
    PROVE  ManagerInv'
  <1>1. /\ run.pc = "await" /\ UNCHANGED <<known, changes, managed, gor, sync, done>>
        /\ run' = [run EXCEPT !.pc = "stop", !.on = Nothing]
    BY DEF RunAwaits
  <1>2. run.on \in Goroutines
    BY <1>1 DEF ManagerInv, TypeOK, Maybe, Positions
  <1>3. run'.pc = "stop" /\ run'.rest = run.rest
    BY <1>1 DEF ManagerInv, TypeOK
  <1>4. reported \subseteq reported' /\ reported' \subseteq reported \cup {run.on}
    BY DEF RunAwaits, Exited, TimesOut
  <1>5. reported' \subseteq Goroutines
    BY <1>2, <1>4 DEF ManagerInv, TypeOK
  <1>6. TypeOK'
    BY <1>1, <1>5 DEF ManagerInv, TypeOK, Maybe
  <1>7. Positions' /\ EpochsCount' /\ SemaphoreKept'
    BY <1>1, <1>3 DEF ManagerInv, Positions, EpochsCount, SemaphoreKept, Dialling
  <1>8. Owned' /\ Apart' /\ EveryConnectionManaged'
    BY <1>1, <1>3 DEF ManagerInv, Accounts, Owned, Apart, Pending, EveryConnectionManaged, Cancelled
  <1>9. Traced' /\ OneConnectionUnlessReported'
    BY <1>1, <1>4 DEF ManagerInv, Accounts, Traced, Pending, OneConnectionUnlessReported
  <1> QED BY <1>6, <1>7, <1>8, <1>9 DEF ManagerInv, Accounts

LEMMA RunKeeps ==
    ASSUME ManagerInv, Run
    PROVE  ManagerInv'
  BY RunBeginsKeeps, TearDownKeeps, RunStopsNextKeeps, RunAwaitsKeeps DEF Run

-----------------------------------------------------------------------------
(* The device goroutines *)

\* A step of a goroutine's life leaves it where it was on the map or among the pending.  It goes
\* to work only while the program runs.
LEMMA LiveKeeps ==
    ASSUME ManagerInv, NEW g \in Goroutines,
           NEW from \in Lives, NEW to \in Lives \cup {"exited"}, Live(g, from, to),
           from \notin AtWork /\ to \in AtWork => ~done,
           SemaphoreKept'
    PROVE  ManagerInv'
  <1> DEFINE T == [id : Maybe(Ids), dials : Known, cancelled : BOOLEAN, life : Lives \cup {"none", "exited"}]
  <1>1. /\ gor[g].life = from /\ gor' = [gor EXCEPT ![g].life = to]
        /\ UNCHANGED <<known, changes, managed, reported, sync, run, done>>
    BY DEF Live
  <1>2. gor \in [Goroutines -> T]
    BY DEF ManagerInv, TypeOK
  <1>3. \A h \in Goroutines : gor'[h] = IF h = g THEN [gor[g] EXCEPT !.life = to] ELSE gor[h]
    BY <1>1, <1>2
  <1>4. \A h \in Goroutines : /\ gor'[h].id = gor[h].id /\ gor'[h].cancelled = gor[h].cancelled
                              /\ gor'[h].life = IF h = g THEN to ELSE gor[h].life
    BY <1>2, <1>3
  <1>5. [gor[g] EXCEPT !.life = to] \in T
    BY <1>2
  <1>6. TypeOK'
    <2>1. gor' \in [Goroutines -> T]
      BY <1>1, <1>2, <1>5
    <2> QED BY <1>1, <2>1 DEF ManagerInv, TypeOK
  <1>7. Positions' /\ EpochsCount'
    BY <1>1 DEF ManagerInv, Positions, EpochsCount
  <1>8. Pending' = Pending /\ Pending \subseteq Goroutines
    BY <1>1 DEF Pending, ManagerInv, TypeOK, Maybe
  <1>9. from # "none" /\ to # "none"
    BY DEF Lives, AtWork
  <1>10. Owned'
    BY <1>1, <1>4, <1>9 DEF ManagerInv, TypeOK, Maybe, Accounts, Owned
  <1>11. Apart'
    BY <1>1, <1>4, <1>8 DEF ManagerInv, Accounts, Apart
  <1>12. Traced'
    BY <1>1, <1>4, <1>8 DEF ManagerInv, Accounts, Traced
  <1>13. EveryConnectionManaged'
    BY <1>1, <1>4 DEF ManagerInv, Accounts, EveryConnectionManaged, Cancelled
  <1>14. OneConnectionUnlessReported'
    <2>1. CASE ~done
      <3>1. (TypeOK /\ Owned /\ Apart /\ Traced /\ ~done)'
        BY <1>1, <1>6, <1>10, <1>11, <1>12, <2>1
      <3>2. TypeOK' /\ Owned' /\ Apart' /\ Traced' /\ ~done' => OneConnectionUnlessReported'
        BY OneUnlessReported, PTL
      <3> QED BY <3>1, <3>2
    <2>2. CASE done
      <3>1. to \in AtWork => gor[g].life \in AtWork
        BY <1>1, <2>2
      <3>2. \A h \in Goroutines : gor'[h].life \in AtWork => gor[h].life \in AtWork
        BY <1>4, <3>1
      <3> QED BY <1>1, <1>4, <3>2 DEF ManagerInv, Accounts, OneConnectionUnlessReported
    <2> QED BY <2>1, <2>2
  <1> QED BY <1>6, <1>7, <1>10, <1>11, <1>12, <1>13, <1>14 DEF ManagerInv, Accounts

\* Only Acquire adds to the goroutines that dial, and it looks at the limit.
LEMMA DialsKept ==
    ASSUME ManagerInv, NEW g \in Goroutines, NEW from, NEW to, to # "dialling", Live(g, from, to)
    PROVE  SemaphoreKept'
  <1>1. \A h \in Goroutines : gor'[h].life = IF h = g THEN to ELSE gor[h].life
    BY DEF Live, ManagerInv, TypeOK
  <1>2. Dialling' \subseteq Dialling
    BY <1>1 DEF Dialling
  <1> QED BY <1>2, FewerDial DEF ManagerInv

LEMMA AcquireKeeps ==
    ASSUME ManagerInv, NEW g \in Goroutines, Acquire(g)
    PROVE  ManagerInv'
  <1>1. \A h \in Goroutines : gor'[h].life = IF h = g THEN "dialling" ELSE gor[h].life
    BY DEF Acquire, Live, ManagerInv, TypeOK
  <1>2. g \notin Dialling /\ Dialling' = Dialling \cup {g}
    BY <1>1 DEF Acquire, Live, Dialling
  <1>3. IsFiniteSet(Dialling) /\ Cardinality(Dialling) \in Nat
    BY ManagerAssumption, FS_Subset, FS_CardinalityType DEF Dialling
  <1>4. Cardinality(Dialling') = Cardinality(Dialling) + 1
    BY <1>2, <1>3, FS_AddElement
  <1>5. SemaphoreKept'
    BY <1>3, <1>4, ManagerAssumption DEF Acquire, SemaphoreKept
  <1> QED BY <1>5, LiveKeeps DEF Acquire, Lives, AtWork

LEMMA DeviceKeeps ==
    ASSUME ManagerInv, NEW g \in Goroutines, Device(g)
    PROVE  ManagerInv'
  <1>1. CASE Dial(g)
    <2>1. ~done /\ Live(g, "resting", "queued")
      BY <1>1 DEF Dial, Cancelled
    <2> QED BY <2>1, DialsKept, LiveKeeps DEF Lives, AtWork
  <1>2. CASE NotAcquired(g)
    BY <1>2, DialsKept, LiveKeeps DEF NotAcquired, Lives, AtWork
  <1>3. CASE Connect(g)
    BY <1>3, DialsKept, LiveKeeps DEF Connect, Lives, AtWork
  <1>4. CASE GiveUp(g)
    BY <1>4, DialsKept, LiveKeeps DEF GiveUp, Lives, AtWork
  <1>5. CASE Close(g)
    BY <1>5, DialsKept, LiveKeeps DEF Close, Lives, AtWork
  <1>6. CASE Exit(g)
    BY <1>6, DialsKept, LiveKeeps DEF Exit, Lives, AtWork
  <1> QED BY <1>1, <1>2, <1>3, <1>4, <1>5, <1>6, AcquireKeeps DEF Device

-----------------------------------------------------------------------------
(* Theorems *)

LEMMA InitManager == Init => ManagerInv
  <1> SUFFICES ASSUME Init PROVE ManagerInv
    OBVIOUS
  <1>1. Absent \in Known /\ known \in [Ids -> Known] /\ \A id \in Ids : known[id].epoch = 0
    BY AbsentType DEF Init
  <1>2. TypeOK
    <2>1. Unused \in [id : Maybe(Ids), dials : Known, cancelled : BOOLEAN,
                      life : Lives \cup {"none", "exited"}]
      BY <1>1 DEF Unused, Maybe
    <2>2. gor \in [Goroutines -> [id : Maybe(Ids), dials : Known, cancelled : BOOLEAN,
                                  life : Lives \cup {"none", "exited"}]]
      BY <2>1 DEF Init
    <2>3. /\ sync.pc = "idle" /\ sync.stop = {} /\ sync.todo = {} /\ sync.id = Nothing
          /\ sync.on = Nothing /\ sync.want = known
          /\ sync = [pc |-> sync.pc, want |-> sync.want, stop |-> sync.stop, todo |-> sync.todo,
                     id |-> sync.id, on |-> sync.on]
      BY DEF Init
    <2>4. sync \in [pc : {"idle", "prune", "stop", "await", "ensure", "insert"},
                    want : [Ids -> Known], stop : SUBSET Goroutines, todo : SUBSET Ids,
                    id : Maybe(Ids), on : Maybe(Goroutines)]
      BY <1>1, <2>3 DEF Maybe
    <2>5. run \in [pc : {"starting", "running", "stop", "await", "returned"},
                   rest : SUBSET Goroutines, on : Maybe(Goroutines)]
      BY DEF Init, Maybe
    <2>6. changes \in 0 .. MaxChanges /\ managed \in [Ids -> Maybe(Goroutines)]
      BY ManagerAssumption DEF Init, Maybe
    <2> QED BY <1>1, <2>2, <2>4, <2>5, <2>6 DEF Init, TypeOK
  <1>3. Positions /\ EpochsCount
    BY <1>1 DEF Init, Positions, EpochsCount
  <1>4. \A g \in Goroutines : gor[g].life = "none"
    BY DEF Init, Unused
  <1>5. SemaphoreKept
    <2>1. Dialling = {}
      BY <1>4 DEF Dialling
    <2> QED BY <2>1, FS_EmptySet, ManagerAssumption DEF SemaphoreKept
  <1>6. Owned
    BY <1>4 DEF Init, Owned
  <1>7. Apart
    BY DEF Init, Apart, Pending
  <1>8. Traced /\ EveryConnectionManaged /\ OneConnectionUnlessReported
    BY <1>4 DEF Traced, EveryConnectionManaged, OneConnectionUnlessReported, Lives, AtWork
  <1> QED BY <1>2, <1>3, <1>5, <1>6, <1>7, <1>8 DEF ManagerInv, Accounts

LEMMA NextManager == ManagerInv /\ [Next]_vars => ManagerInv'
  <1> SUFFICES ASSUME ManagerInv, [Next]_vars PROVE ManagerInv'
    OBVIOUS
  <1>1. CASE UNCHANGED vars
    BY <1>1 DEF vars, ManagerInv, TypeOK, SemaphoreKept, Dialling, Positions, EpochsCount, Accounts, Owned,
                Apart, Pending, Traced, EveryConnectionManaged, Cancelled, OneConnectionUnlessReported
  <1> QED BY <1>1, SnapshotKeeps, SyncKeeps, RunKeeps, ShutdownKeeps, DeviceKeeps DEF Next

\* The inductive invariant: whatever Sync has taken off Manager.devices is in its hands until the
\* goroutine has exited or is reported (Sync, ensure and awaitExit in manager.go).
THEOREM ManagerInvariant == Spec => []ManagerInv
  BY InitManager, NextManager, PTL DEF Spec

\* No interleaving of Sync, Run and timeouts loses track of a goroutine that holds one of a node's
\* slots, gives a device a second connection unreported, or dials beyond the semaphore.
THEOREM ConnectionsStayAccounted == Spec => []ConnectionsAccounted
  <1>1. ManagerInv => ConnectionsAccounted
    BY DEF ManagerInv, Accounts, ConnectionsAccounted
  <1> QED BY <1>1, ManagerInvariant, PTL
=============================================================================
