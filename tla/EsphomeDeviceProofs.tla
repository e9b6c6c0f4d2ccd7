------------------------- MODULE EsphomeDeviceProofs -------------------------
(***************************************************************************)
(* The theorems about one connection, for every set of entities, of builds *)
(* and of bounds.                                                          *)
(***************************************************************************)
EXTENDS EsphomeDevice, FiniteSetTheorems, TLAPS

-----------------------------------------------------------------------------
(* The goroutine implements EsphomeLife, step by step. *)

LEMMA HangupCloses ==
    ASSUME pc \in Session, Hangup, UNCHANGED cancelled
    PROVE  Life!Close
  BY DEF Life!Close, Hangup, Session, Serving

\* A connection that ends was open, and one that stays open takes no step of EsphomeLife.
LEMMA RunImplementsLife ==
    ASSUME Run
    PROVE  [Life!Next]_(Life!vars)
  <1> USE DEF Life!Next, Life!vars
  <1>1. CASE WakeUp
    BY <1>1 DEF WakeUp, Life!Dial, Session, Serving
  <1>2. CASE DialSucceeds
    BY <1>2 DEF DialSucceeds, Life!Connect, Session, Serving
  <1>3. CASE DialFails
    BY <1>3 DEF DialFails, Life!GiveUp, Session, Serving
  <1>4. CASE Authenticated \/ DeviceInfo \/ Enumerate \/ Subscribe
    BY <1>4 DEF Authenticated, DeviceInfo, Enumerate, Subscribe, Session, Serving
  <1>5. CASE AuthFails
    BY <1>5, HangupCloses DEF AuthFails, Session, Serving
  <1>6. CASE SubscribeFails \/ CallFails
    BY <1>6, HangupCloses DEF SubscribeFails, CallFails, Session, Serving
  <1>7. CASE Leave
    BY <1>7, HangupCloses DEF Leave, Session, Serving
  <1>8. CASE PingUnanswered \/ PingDelayed
    <2>1. pc = "up" /\ (Hangup \/ pc' = pc) /\ cancelled' = cancelled
      BY <1>8 DEF PingUnanswered, PingDelayed, MissPing
    <2> QED BY <2>1, HangupCloses DEF Session, Serving
  <1>9. CASE Ping \/ RefreshDue \/ RefreshFails \/ Refreshed \/ Relisted
    BY <1>9 DEF Ping, RefreshDue, RefreshFails, Refreshed, Relisted, Session, Serving
  <1>10. CASE Ended
    BY <1>10 DEF Ended, Life!Exit, Session, Serving
  <1>11. CASE Exit
    BY <1>11 DEF Exit, Life!Exit, Session, Serving
  <1> QED BY <1>1, <1>2, <1>3, <1>4, <1>5, <1>6, <1>7, <1>8, <1>9, <1>10, <1>11 DEF Run

LEMMA OthersLeaveLife ==
    ASSUME Reader \/ Node
    PROVE  UNCHANGED <<pc, cancelled>>
  <1>1. CASE Reader
    BY <1>1 DEF Reader, DeliverState, DeliverBye, DeliverEof, DeliverAnswer
  <1>2. CASE Node
    BY <1>2 DEF Node, Answer, Dump, Report, Reboot, PowerLoss, Reset, Flash, Boot
  <1> QED BY <1>1, <1>2

\* A device goroutine starts at rest, and every step of it, of its reader and of the node
\* is a step that the manager counts on, or none: it dials only before it is cancelled,
\* holds one connection at a time, and exits only after Cancel.  (That it does exit is
\* ImplementsLife's liveness, which TLC checks.)
THEOREM StepsImplementLife == Spec => Life!Init /\ [][Life!Next]_(Life!vars)
  <1>1. Init => Life!Init
    BY DEF Init, Life!Init, Session, Serving
  <1>2. [Next]_vars => [Life!Next]_(Life!vars)
    <2> SUFFICES ASSUME [Next]_vars
                 PROVE  [Life!Next]_(Life!vars)
      OBVIOUS
    <2>1. CASE Run
      BY <2>1, RunImplementsLife
    <2>2. CASE Reader \/ Node
      BY <2>2, OthersLeaveLife DEF Life!vars
    <2>3. CASE Cancel
      BY <2>3 DEF Cancel, Life!Next, Life!Cancel, Life!vars, Session, Serving
    <2>4. CASE UNCHANGED vars
      BY <2>4 DEF vars, Life!vars
    <2> QED BY <2>1, <2>2, <2>3, <2>4 DEF Next
  <1> QED BY <1>1, <1>2, PTL DEF Spec

-----------------------------------------------------------------------------
(* Types, bounds and the one socket *)

LEMMA VersionsAre == Versions = 1 .. Len(Firmwares) /\ 1 \in Versions /\ Versions \subseteq Nat
                     /\ \A v \in Versions : Firmwares[v] \in SUBSET Keys
  BY DeviceAssumption DEF Versions

LEMMA KeysAreNumbers == \A k \in Keys : k \in Nat
  BY DeviceAssumption

LEMMA Bounds ==
    /\ MaxEntities \in Nat /\ MaxOrphans \in Nat /\ PingFailThreshold \in Nat
    /\ MaxSeq \in Nat /\ MaxFaults \in Nat
  BY DeviceAssumption

\* Of the entities that are kept, each has fewer than MaxEntities before it: their ranks
\* are distinct.
LEMMA TruncateBounds ==
    ASSUME NEW listed \in SUBSET Keys
    PROVE  /\ Truncate(listed) \in SUBSET listed /\ Truncate(listed) \in SUBSET Keys
           /\ Cardinality(Truncate(listed)) <= MaxEntities
  <1> DEFINE before(k) == {i \in listed : i < k}
             rank == [k \in Truncate(listed) |-> Cardinality(before(k))]
  <1>1. \A k \in listed : IsFiniteSet(before(k)) /\ Cardinality(before(k)) \in Nat
    BY DeviceAssumption, FS_Subset, FS_CardinalityType
  <1>2. \A k \in Truncate(listed) : k \in listed /\ Cardinality(before(k)) < MaxEntities
    BY DEF Truncate
  <1>3. \A j, k \in listed : j < k => Cardinality(before(j)) < Cardinality(before(k))
    <2> SUFFICES ASSUME NEW j \in listed, NEW k \in listed, j < k
                 PROVE  Cardinality(before(j)) < Cardinality(before(k))
      OBVIOUS
    <2>1. j \in Nat /\ k \in Nat /\ \A i \in listed : i \in Nat
      BY KeysAreNumbers
    <2>2. \A i \in listed : i < j => i < k
      BY <2>1
    <2>3. before(j) \in SUBSET before(k) /\ j \in before(k)
      BY <2>2
    <2>4. j \notin before(j)
      BY <2>1
    <2>5. Cardinality(before(j)) <= Cardinality(before(k)) /\ Cardinality(before(j)) # Cardinality(before(k))
      BY <1>1, <2>3, <2>4, FS_Subset
    <2> QED BY <1>1, <2>5
  <1>4. rank \in [Truncate(listed) -> 0 .. MaxEntities - 1]
    <2>1. \A k \in Truncate(listed) : Cardinality(before(k)) \in 0 .. MaxEntities - 1
      BY <1>1, <1>2, Bounds
    <2> HIDE DEF before
    <2> QED BY <2>1
  <1>5. \A j, k \in Truncate(listed) : rank[j] = rank[k] => j = k
    <2> SUFFICES ASSUME NEW j \in Truncate(listed), NEW k \in Truncate(listed), rank[j] = rank[k], j # k
                 PROVE  FALSE
      OBVIOUS
    <2>1. j \in listed /\ k \in listed /\ j \in Nat /\ k \in Nat
      BY <1>2, KeysAreNumbers
    <2>2. j < k \/ k < j
      BY <2>1
    <2> QED BY <1>1, <1>2, <1>3, <2>1, <2>2
  <1>6. rank \in Injection(Truncate(listed), 0 .. MaxEntities - 1)
    BY <1>4, <1>5 DEF Injection, IsInjective
  <1>7. Cardinality(0 .. MaxEntities - 1) = MaxEntities /\ IsFiniteSet(0 .. MaxEntities - 1)
    BY FS_Interval, Bounds
  <1>8. Cardinality(Truncate(listed)) <= MaxEntities
    BY <1>6, <1>7, FS_Injection
  <1> QED BY <1>2, <1>8

\* A swap leaves fewer orphans.
LEMMA SwapTyped ==
    ASSUME TypeOK, NEW listed \in SUBSET Keys, cache' = Swap(listed)
    PROVE  CacheTyped'
  <1> DEFINE orphaned == {k \in Keys : cache.orphans[k] # 0}
  <1>1. Truncate(listed) \in SUBSET Keys /\ Cardinality(Truncate(listed)) <= MaxEntities
    BY TruncateBounds
  <1>2. cache'.entities = Truncate(listed)
    BY DEF TypeOK, CacheTyped, Swap
  <1>3. cache'.states \in Readings /\ cache'.orphans \in Readings
    <2>1. /\ 0 \in 0 .. MaxSeq
          /\ \A k \in Keys : cache.states[k] \in 0 .. MaxSeq /\ cache.orphans[k] \in 0 .. MaxSeq
      BY Bounds DEF TypeOK, CacheTyped, Readings
    <2>2. /\ cache'.states = [k \in Keys |-> IF k \notin Truncate(listed) THEN 0
                                             ELSE IF cache.orphans[k] # 0 THEN cache.orphans[k]
                                             ELSE cache.states[k]]
          /\ cache'.orphans = [k \in Keys |-> IF k \in Truncate(listed) THEN 0 ELSE cache.orphans[k]]
      BY DEF TypeOK, CacheTyped, Swap
    <2> QED BY <2>1, <2>2 DEF Readings
  <1>4. cache' \in [connected : BOOLEAN, info : Versions \cup {0}, entities : SUBSET Keys,
                    truncated : BOOLEAN, states : Readings, orphans : Readings]
    BY <1>1, <1>2, <1>3 DEF TypeOK, CacheTyped, Swap
  <1>5. {k \in Keys : cache'.orphans[k] # 0} \in SUBSET orphaned
    BY DEF TypeOK, CacheTyped, Swap
  <1>6. Cardinality({k \in Keys : cache'.orphans[k] # 0}) <= Cardinality(orphaned)
    BY <1>5, DeviceAssumption, FS_Subset
  <1>7. /\ Cardinality(orphaned) \in Nat /\ Cardinality(orphaned) <= MaxOrphans
        /\ Cardinality({k \in Keys : cache'.orphans[k] # 0}) \in Nat
    BY <1>5, DeviceAssumption, FS_Subset, FS_CardinalityType DEF TypeOK, CacheTyped
  <1> QED BY <1>1, <1>2, <1>4, <1>6, <1>7, DeviceAssumption DEF CacheTyped

\* What fits in a finite set and one element more counts at most one more.
LEMMA OneMore ==
    ASSUME NEW S, IsFiniteSet(S), NEW e, NEW T \in SUBSET (S \cup {e})
    PROVE  Cardinality(T) \in Nat /\ Cardinality(T) <= Cardinality(S) + 1
  <1>1. Cardinality(S) \in Nat
    BY FS_CardinalityType
  <1>2. IsFiniteSet(S \cup {e})
    BY FS_AddElement
  <1>3. Cardinality(S \cup {e}) = IF e \in S THEN Cardinality(S) ELSE Cardinality(S) + 1
    BY FS_AddElement
  <1>4. Cardinality(S \cup {e}) \in Nat /\ Cardinality(S \cup {e}) <= Cardinality(S) + 1
    BY <1>1, <1>3
  <1>5. IsFiniteSet(T) /\ Cardinality(T) <= Cardinality(S \cup {e})
    BY <1>2, FS_Subset
  <1>6. Cardinality(T) \in Nat
    BY <1>5, FS_CardinalityType
  <1> QED BY <1>1, <1>4, <1>5, <1>6

\* An orphan is added only below the bound.
LEMMA PutStateTyped ==
    ASSUME TypeOK, NEW k \in Keys, NEW v \in 1 .. MaxSeq, PutState(k, v)
    PROVE  CacheTyped'
  <1> DEFINE orphaned == {j \in Keys : cache.orphans[j] # 0}
  <1>1. v \in 0 .. MaxSeq
    BY DeviceAssumption
  <1>2. CASE k \in cache.entities
    <2>1. cache' = [cache EXCEPT !.states[k] = v]
      BY <1>2 DEF PutState
    <2>2. cache'.states \in Readings /\ cache'.orphans = cache.orphans /\ cache'.entities = cache.entities
      BY <1>1, <2>1 DEF TypeOK, CacheTyped, Readings
    <2>3. cache' \in [connected : BOOLEAN, info : Versions \cup {0}, entities : SUBSET Keys,
                      truncated : BOOLEAN, states : Readings, orphans : Readings]
      BY <2>1, <2>2 DEF TypeOK, CacheTyped
    <2> QED BY <2>2, <2>3 DEF TypeOK, CacheTyped
  <1>3. CASE k \notin cache.entities /\ Cardinality(orphaned) < MaxOrphans
    <2>1. cache' = [cache EXCEPT !.orphans[k] = v]
      BY <1>3 DEF PutState
    <2>2. cache'.orphans \in Readings /\ cache'.entities = cache.entities /\ cache'.states = cache.states
      BY <1>1, <2>1 DEF TypeOK, CacheTyped, Readings
    <2>3. cache' \in [connected : BOOLEAN, info : Versions \cup {0}, entities : SUBSET Keys,
                      truncated : BOOLEAN, states : Readings, orphans : Readings]
      BY <2>1, <2>2 DEF TypeOK, CacheTyped
    <2>4. {j \in Keys : cache'.orphans[j] # 0} \in SUBSET (orphaned \cup {k})
      BY <2>1 DEF TypeOK, CacheTyped
    <2>5. IsFiniteSet(orphaned) /\ Cardinality(orphaned) \in Nat
      BY DeviceAssumption, FS_Subset, FS_CardinalityType
    <2>6. Cardinality({j \in Keys : cache'.orphans[j] # 0}) <= Cardinality(orphaned) + 1
          /\ Cardinality({j \in Keys : cache'.orphans[j] # 0}) \in Nat
      <3> HIDE DEF orphaned
      <3> QED BY <2>4, <2>5, OneMore
    <2>7. Cardinality({j \in Keys : cache'.orphans[j] # 0}) <= MaxOrphans
      <3>1. Cardinality(orphaned) \in Nat /\ MaxOrphans \in Nat /\ Cardinality(orphaned) < MaxOrphans
        BY <1>3, <2>5, DeviceAssumption
      <3> HIDE DEF orphaned
      <3> QED BY <2>6, <3>1
    <2> QED BY <2>2, <2>3, <2>7 DEF TypeOK, CacheTyped
  <1>4. CASE k \notin cache.entities /\ ~(Cardinality(orphaned) < MaxOrphans)
    BY <1>4 DEF PutState, TypeOK, CacheTyped
  <1> QED BY <1>2, <1>3, <1>4

LEMMA SameCacheTyped ==
    ASSUME TypeOK, cache' = cache
    PROVE  CacheTyped'
  BY DEF TypeOK, CacheTyped

\* The fields that a session sets, each by itself.
LEMMA FieldTyped ==
    ASSUME TypeOK, NEW c \in BOOLEAN, NEW v \in Versions,
           cache' = [cache EXCEPT !.connected = c] \/ cache' = [cache EXCEPT !.info = v]
    PROVE  CacheTyped'
  <1>1. cache'.entities = cache.entities /\ cache'.orphans = cache.orphans
    BY DEF TypeOK, CacheTyped
  <1>2. cache' \in [connected : BOOLEAN, info : Versions \cup {0}, entities : SUBSET Keys,
                    truncated : BOOLEAN, states : Readings, orphans : Readings]
    BY DEF TypeOK, CacheTyped
  <1> QED BY <1>1, <1>2 DEF TypeOK, CacheTyped

LEMMA FaultTyped == TypeOK /\ Fault => faults' \in 0 .. MaxFaults
  <1> SUFFICES ASSUME TypeOK, Fault
               PROVE  faults' \in 0 .. MaxFaults
    OBVIOUS
  <1>1. faults \in 0 .. MaxFaults /\ faults > 0 /\ faults' = faults - 1
    BY DEF TypeOK, NodeTyped, Fault
  <1> QED BY <1>1, Bounds

LEMMA AnswerTyped ==
    ASSUME TypeOK, Answered
    PROVE  answer[2] \in Versions
  BY DEF TypeOK, RunTyped, Answered

LEMMA HangupKeeps ==
    ASSUME DeviceInv, pc \in Session, Hangup, UNCHANGED <<mode, transport, cancelled, cache, node, seq>>,
           faults' \in 0 .. MaxFaults
    PROVE  DeviceInv'
  <1>1. CacheTyped'
    BY SameCacheTyped DEF DeviceInv
  <1>2. RunTyped'
    <2>1. open' \in Nat /\ misses' \in 0 .. PingFailThreshold
      BY Bounds DEF DeviceInv, OneSocket, Hangup
    <2>2. {cancelled', bye', done'} \subseteq BOOLEAN
      BY DEF DeviceInv, TypeOK, RunTyped, Hangup
    <2>3. answer' \in {<<>>} \cup ({"auth", "info", "list"} \X Versions) /\ pc' = "ended"
      BY DEF Hangup
    <2> QED BY <2>1, <2>2, <2>3 DEF DeviceInv, TypeOK, RunTyped
  <1>3. NodeTyped'
    BY DEF DeviceInv, TypeOK, NodeTyped, Hangup
  <1>4. OneSocket'
    BY DEF DeviceInv, OneSocket, Hangup, Session, Serving
  <1> QED BY <1>1, <1>2, <1>3, <1>4 DEF DeviceInv, TypeOK

LEMMA ConnectingTyped ==
    ASSUME DeviceInv, WakeUp \/ DialSucceeds \/ DialFails \/ Authenticated \/ AuthFails
    PROVE  DeviceInv'
  <1>1. CASE WakeUp
    <2>1. CacheTyped'
      BY <1>1, SameCacheTyped DEF DeviceInv, WakeUp
    <2>2. mode' \in {"noise", "plaintext"}
      BY <1>1 DEF DeviceInv, TypeOK, RunTyped, WakeUp
    <2>3. RunTyped'
      BY <1>1, <2>2 DEF DeviceInv, TypeOK, RunTyped, WakeUp, client
    <2>4. NodeTyped'
      BY <1>1 DEF DeviceInv, TypeOK, NodeTyped, WakeUp, line, world
    <2>5. OneSocket'
      BY <1>1 DEF DeviceInv, OneSocket, WakeUp, Session, Serving
    <2> QED BY <2>1, <2>3, <2>4, <2>5 DEF DeviceInv, TypeOK
  <1>2. CASE DialSucceeds
    <2>1. /\ pc = "dial" /\ pc' \in {"auth", "info"} /\ open' = open + 1
          /\ transport' \in {transport, mode} /\ answer' = <<>> /\ asked' \in {"auth", "info"}
          /\ link' = "live" /\ dump' = "none" /\ wire' = <<>> /\ bye' = FALSE /\ done' = FALSE
          /\ UNCHANGED <<mode, misses, cancelled, cache, node, seq, faults>>
      BY <1>2 DEF DialSucceeds, Call, world
    <2>2. CacheTyped'
      BY <2>1, SameCacheTyped DEF DeviceInv
    <2>3. RunTyped'
      <3>1. {cancelled', bye', done'} \subseteq BOOLEAN
        BY <1>2, <2>1 DEF DeviceInv, TypeOK, RunTyped, DialSucceeds
      <3>2. /\ mode' \in {"noise", "plaintext"} /\ transport' \in {"unknown", "noise", "plaintext"}
            /\ misses' \in 0 .. PingFailThreshold /\ open' \in Nat
        BY <2>1 DEF DeviceInv, TypeOK, RunTyped
      <3> QED BY <2>1, <3>1, <3>2 DEF RunTyped, Session
    <2>4. NodeTyped'
      BY <2>1 DEF DeviceInv, TypeOK, NodeTyped
    <2>5. OneSocket'
      BY <2>1 DEF DeviceInv, OneSocket, Session, Serving
    <2> QED BY <2>2, <2>3, <2>4, <2>5 DEF DeviceInv, TypeOK
  <1>3. CASE DialFails
    <2>1. CacheTyped'
      BY <1>3, SameCacheTyped DEF DeviceInv, DialFails
    <2>2. RunTyped'
      BY <1>3 DEF DeviceInv, TypeOK, RunTyped, DialFails, client, Session, Serving
    <2>3. NodeTyped'
      BY <1>3, FaultTyped DEF DeviceInv, TypeOK, NodeTyped, DialFails, line
    <2>4. OneSocket'
      BY <1>3 DEF DeviceInv, OneSocket, DialFails, Session, Serving
    <2> QED BY <2>1, <2>2, <2>3, <2>4 DEF DeviceInv, TypeOK
  <1>4. CASE AuthFails
    <2>1. faults' \in 0 .. MaxFaults
      BY <1>4, FaultTyped DEF DeviceInv, TypeOK, NodeTyped, AuthFails, Fails
    <2> QED BY <1>4, <2>1, HangupKeeps DEF AuthFails, Session
  <1>5. CASE Authenticated
    <2>1. CacheTyped'
      BY <1>5, SameCacheTyped DEF DeviceInv, Authenticated
    <2>2. RunTyped'
      <3>1. answer' \in {<<>>} \cup ({"auth", "info", "list"} \X Versions)
        BY <1>5 DEF Authenticated, Call
      <3>2. pc' = "info" /\ transport' = mode /\ UNCHANGED <<mode, misses, cancelled, open, bye, done>>
        BY <1>5 DEF Authenticated
      <3>3. {cancelled', bye', done'} \subseteq BOOLEAN
        BY <3>2 DEF DeviceInv, TypeOK, RunTyped
      <3>4. /\ mode' \in {"noise", "plaintext"} /\ transport' \in {"unknown", "noise", "plaintext"}
            /\ misses' \in 0 .. PingFailThreshold /\ open' \in Nat
        BY <3>2 DEF DeviceInv, TypeOK, RunTyped
      <3> QED BY <3>1, <3>2, <3>3, <3>4 DEF RunTyped, Session
    <2>3. NodeTyped'
      BY <1>5 DEF DeviceInv, TypeOK, NodeTyped, Authenticated, Call, world
    <2>4. OneSocket'
      BY <1>5 DEF DeviceInv, OneSocket, Authenticated, Session, Serving
    <2> QED BY <2>1, <2>2, <2>3, <2>4 DEF DeviceInv, TypeOK
  <1> QED BY <1>1, <1>2, <1>3, <1>4, <1>5

LEMMA SessionTyped ==
    ASSUME DeviceInv, DeviceInfo \/ Enumerate \/ Subscribe \/ SubscribeFails \/ CallFails
    PROVE  DeviceInv'
  <1>1. CASE DeviceInfo \/ Enumerate \/ Subscribe
    <2>1. CacheTyped'
      <3>1. CASE DeviceInfo
        BY <3>1, AnswerTyped, FieldTyped DEF DeviceInv, DeviceInfo
      <3>2. CASE Enumerate
        BY <3>2, AnswerTyped, VersionsAre, SwapTyped DEF DeviceInv, Enumerate, Listing
      <3>3. CASE Subscribe
        BY <3>3, VersionsAre, FieldTyped DEF DeviceInv, Subscribe
      <3> QED BY <1>1, <3>1, <3>2, <3>3
    <2>2. RunTyped'
      BY <1>1 DEF DeviceInv, TypeOK, RunTyped, DeviceInfo, Enumerate, Subscribe, Call, client, Session, Serving
    <2>3. NodeTyped'
      BY <1>1 DEF DeviceInv, TypeOK, NodeTyped, DeviceInfo, Enumerate, Subscribe, Call, line, world
    <2>4. OneSocket'
      BY <1>1 DEF DeviceInv, OneSocket, DeviceInfo, Enumerate, Subscribe, Session, Serving
    <2> QED BY <2>1, <2>2, <2>3, <2>4 DEF DeviceInv, TypeOK
  <1>2. CASE SubscribeFails
    <2>1. faults' \in 0 .. MaxFaults
      BY <1>2 DEF DeviceInv, TypeOK, NodeTyped, SubscribeFails, world
    <2> QED BY <1>2, <2>1, HangupKeeps DEF SubscribeFails, Session, world
  <1>3. CASE CallFails
    <2>1. faults' \in 0 .. MaxFaults
      BY <1>3, FaultTyped DEF DeviceInv, TypeOK, NodeTyped, CallFails, Fails
    <2> QED BY <1>3, <2>1, HangupKeeps DEF CallFails, Session, Serving
  <1> QED BY <1>1, <1>2, <1>3

LEMMA PumpTyped ==
    ASSUME DeviceInv, Leave \/ Ping \/ PingUnanswered \/ PingDelayed \/ RefreshDue \/ RefreshFails
                        \/ Refreshed \/ Relisted
    PROVE  DeviceInv'
  <1>1. CASE Leave
    <2>1. faults' \in 0 .. MaxFaults
      BY <1>1 DEF DeviceInv, TypeOK, NodeTyped, Leave, world
    <2> QED BY <1>1, <2>1, HangupKeeps DEF Leave, Session, Serving, world
  <1>2. CASE PingUnanswered \/ PingDelayed
    <2>1. faults' \in 0 .. MaxFaults
      BY <1>2, FaultTyped DEF DeviceInv, TypeOK, NodeTyped, PingUnanswered, PingDelayed
    <2>2. MissPing
      BY <1>2 DEF PingUnanswered, PingDelayed
    <2>3. CASE misses + 1 >= PingFailThreshold
      BY <2>1, <2>2, <2>3, HangupKeeps DEF MissPing, Session, Serving
    <2>4. CASE ~(misses + 1 >= PingFailThreshold)
      <3>1. misses' = misses + 1 /\ misses' \in 0 .. PingFailThreshold
        BY <2>2, <2>4, Bounds DEF DeviceInv, TypeOK, RunTyped, MissPing
      <3>2. CacheTyped'
        BY <2>2, SameCacheTyped DEF DeviceInv, MissPing
      <3>3. RunTyped' /\ OneSocket'
        BY <2>2, <2>4, <3>1 DEF DeviceInv, TypeOK, RunTyped, OneSocket, MissPing, client
      <3>4. NodeTyped'
        BY <2>1, <2>2, <2>4 DEF DeviceInv, TypeOK, NodeTyped, MissPing, line
      <3> QED BY <3>2, <3>3, <3>4 DEF DeviceInv, TypeOK
    <2> QED BY <2>3, <2>4
  <1>3. CASE Ping \/ RefreshDue \/ RefreshFails \/ Refreshed \/ Relisted
    <2>1. CacheTyped'
      <3>1. CASE Ping \/ RefreshDue \/ RefreshFails
        BY <3>1, SameCacheTyped DEF DeviceInv, Ping, RefreshDue, RefreshFails
      <3>2. CASE Refreshed
        BY <3>2, SameCacheTyped, AnswerTyped, FieldTyped DEF DeviceInv, Refreshed
      <3>3. CASE Relisted
        BY <3>3, AnswerTyped, VersionsAre, SwapTyped DEF DeviceInv, Relisted, Listing
      <3> QED BY <1>3, <3>1, <3>2, <3>3
    <2>2. RunTyped'
      BY <1>3, Bounds DEF DeviceInv, TypeOK, RunTyped, Ping, RefreshDue, RefreshFails, Refreshed, Relisted, Call,
                  client, Session, Serving
    <2>3. NodeTyped'
      BY <1>3, FaultTyped DEF DeviceInv, TypeOK, NodeTyped, Ping, RefreshDue, RefreshFails, Refreshed, Relisted, Fails,
                  Call, line, world
    <2>4. OneSocket'
      BY <1>3 DEF DeviceInv, OneSocket, Ping, RefreshDue, RefreshFails, Refreshed, Relisted, Session, Serving
    <2> QED BY <2>1, <2>2, <2>3, <2>4 DEF DeviceInv, TypeOK
  <1> QED BY <1>1, <1>2, <1>3

LEMMA RestingTyped ==
    ASSUME DeviceInv, Ended \/ Exit \/ Cancel
    PROVE  DeviceInv'
  <1>1. CacheTyped'
    BY SameCacheTyped, VersionsAre, FieldTyped DEF DeviceInv, Ended, Exit, Cancel
  <1>2. RunTyped'
    BY DEF DeviceInv, TypeOK, RunTyped, Ended, Exit, Cancel, client
  <1>3. NodeTyped'
    BY DEF DeviceInv, TypeOK, NodeTyped, Ended, Exit, Cancel, line, world
  <1>4. OneSocket'
    BY DEF DeviceInv, OneSocket, Ended, Exit, Cancel, Session, Serving
  <1> QED BY <1>1, <1>2, <1>3, <1>4 DEF DeviceInv, TypeOK

-----------------------------------------------------------------------------
(* The socket's messages *)

\* The first message leaves the wire.
LEMMA TailFacts ==
    ASSUME TypeOK, wire # <<>>
    PROVE  /\ Head(wire) = wire[1] /\ Head(wire) \in Messages /\ 1 \in DOMAIN wire
           /\ Tail(wire) \in Seq(Messages)
           /\ \A i \in DOMAIN Tail(wire) : i \in Nat /\ i + 1 \in DOMAIN wire /\ Tail(wire)[i] = wire[i + 1]
           /\ \A i \in DOMAIN wire : i # 1 => i - 1 \in DOMAIN Tail(wire) /\ Tail(wire)[i - 1] = wire[i]
  BY DEF TypeOK, NodeTyped

\* Messages are added behind those in transit.
LEMMA ConcatFacts ==
    ASSUME TypeOK, NEW s \in Seq(Messages)
    PROVE  /\ wire \o s \in Seq(Messages)
           /\ \A i \in DOMAIN wire : i \in Nat /\ i \in DOMAIN (wire \o s) /\ (wire \o s)[i] = wire[i]
           /\ \A i \in DOMAIN s : i + Len(wire) \in DOMAIN (wire \o s) /\ (wire \o s)[i + Len(wire)] = s[i]
           /\ \A i \in DOMAIN (wire \o s) :
                 \/ i \in DOMAIN wire
                 \/ i - Len(wire) \in DOMAIN s /\ (wire \o s)[i] = s[i - Len(wire)] /\ \A j \in DOMAIN wire : j < i
  BY DEF TypeOK, NodeTyped

LEMMA AppendFacts ==
    ASSUME TypeOK, NEW m \in Messages
    PROVE  /\ Append(wire, m) \in Seq(Messages)
           /\ \A i \in DOMAIN wire : i \in Nat /\ i \in DOMAIN Append(wire, m) /\ Append(wire, m)[i] = wire[i]
           /\ Len(wire) + 1 \in DOMAIN Append(wire, m) /\ Append(wire, m)[Len(wire) + 1] = m
           /\ \A i \in DOMAIN Append(wire, m) :
                 i \in DOMAIN wire \/ (i = Len(wire) + 1 /\ \A j \in DOMAIN wire : j < i)
  BY DEF TypeOK, NodeTyped

\* The node's answer to a subscription: each entity that has a reading, once.
LEMMA DumpFacts ==
    ASSUME TypeOK, NEW keys \in SetToSeqs({k \in Keys : node.reading[k] # 0})
    PROVE  LET states == [i \in DOMAIN keys |-> State(keys[i], node.reading[keys[i]])]
           IN  /\ states \in Seq(Messages)
               /\ \A i \in DOMAIN states : keys[i] \in Keys /\ states[i] = State(keys[i], node.reading[keys[i]])
               /\ \A i, j \in DOMAIN states : i # j => keys[i] # keys[j]
               /\ \A k \in Keys : node.reading[k] # 0 => \E i \in DOMAIN states : states[i] = State(k, node.reading[k])
  <1> DEFINE said == {k \in Keys : node.reading[k] # 0}
             states == [i \in DOMAIN keys |-> State(keys[i], node.reading[keys[i]])]
  <1>1. IsFiniteSet(said) /\ Cardinality(said) \in Nat
    BY DeviceAssumption, FS_Subset, FS_CardinalityType
  <1>2. keys \in [1 .. Cardinality(said) -> said] /\ \A i, j \in 1 .. Cardinality(said) : i # j => keys[i] # keys[j]
    BY DEF SetToSeqs
  <1>3. keys \in Injection(1 .. Cardinality(said), said)
    BY <1>2 DEF Injection, IsInjective
  <1>4. Cardinality(1 .. Cardinality(said)) = Cardinality(said)
    BY <1>1, FS_Interval
  <1>5. keys \in Surjection(1 .. Cardinality(said), said)
    BY <1>1, <1>3, <1>4, FS_Injection
  <1>6. \A k \in said : \E i \in 1 .. Cardinality(said) : keys[i] = k
    BY <1>5 DEF Surjection
  <1>7. \A k \in said : State(k, node.reading[k]) \in Messages
    <2> SUFFICES ASSUME NEW k \in said
                 PROVE  State(k, node.reading[k]) \in Messages
      OBVIOUS
    <2>1. node.reading[k] \in 1 .. MaxSeq
      BY Bounds DEF TypeOK, NodeTyped, Readings
    <2> QED BY <2>1 DEF State, Messages
  <1>8. DOMAIN keys = 1 .. Cardinality(said) /\ DOMAIN states = 1 .. Cardinality(said)
    BY <1>2
  <1>9. \A i \in 1 .. Cardinality(said) : keys[i] \in said /\ states[i] = State(keys[i], node.reading[keys[i]])
    BY <1>2
  <1>10. \A i \in 1 .. Cardinality(said) : states[i] \in Messages
    BY <1>7, <1>9
  <1> HIDE DEF said, states
  <1>11. states = [i \in 1 .. Cardinality(said) |-> states[i]]
    BY <1>8 DEF states
  <1>12. states \in Seq(Messages)
    BY <1>1, <1>10, <1>11
  <1> QED BY <1>2, <1>6, <1>8, <1>9, <1>12 DEF said, states

LEMMA ReaderTyped ==
    ASSUME DeviceInv, Reader
    PROVE  DeviceInv'
  <1>1. wire # <<>> /\ wire' = Tail(wire) /\ UNCHANGED <<pc, mode, transport, misses, cancelled, open>>
        /\ UNCHANGED <<link, asked, dump, node, seq, faults>>
    BY DEF Reader, DeliverState, DeliverBye, DeliverEof, DeliverAnswer, Arrives, world
  <1>2. wire' \in Seq(Messages) /\ Head(wire) \in Messages
    BY <1>1, TailFacts DEF DeviceInv
  <1>3. NodeTyped'
    BY <1>1, <1>2 DEF DeviceInv, TypeOK, NodeTyped
  <1>4. OneSocket'
    BY <1>1 DEF DeviceInv, OneSocket
  <1>5. CacheTyped'
    <2>1. CASE DeliverState
      <3>1. Head(wire)[1] = "state"
        BY <2>1 DEF DeliverState, Arrives
      <3>2. Head(wire)[2] \in Keys /\ Head(wire)[3] \in 1 .. MaxSeq
        BY <1>2, <3>1 DEF Messages
      <3> QED BY <2>1, <3>2, PutStateTyped DEF DeviceInv, DeliverState
    <2>2. CASE DeliverBye \/ DeliverEof \/ DeliverAnswer
      BY <2>2, SameCacheTyped DEF DeviceInv, DeliverBye, DeliverEof, DeliverAnswer
    <2> QED BY <2>1, <2>2 DEF Reader
  <1>6. answer' \in {<<>>} \cup ({"auth", "info", "list"} \X Versions)
    <2>1. CASE UNCHANGED answer
      BY <2>1 DEF DeviceInv, TypeOK, RunTyped
    <2>2. CASE DeliverAnswer /\ answer' = Head(wire)
      <3>1. Head(wire)[1] \in {"auth", "info", "list"}
        BY <2>2 DEF DeliverAnswer, Arrives
      <3>2. Head(wire) \in {"auth", "info", "list"} \X Versions
        BY <1>2, <3>1 DEF Messages
      <3> QED BY <2>2, <3>2
    <2> QED BY <2>1, <2>2 DEF Reader, DeliverState, DeliverBye, DeliverEof, DeliverAnswer, client
  <1>7. {cancelled', bye', done'} \subseteq BOOLEAN
    <2>1. bye' \in BOOLEAN
      BY DEF DeviceInv, TypeOK, RunTyped, Reader, DeliverState, DeliverBye, DeliverEof, DeliverAnswer, client
    <2>2. done' \in BOOLEAN
      BY DEF DeviceInv, TypeOK, RunTyped, Reader, DeliverState, DeliverBye, DeliverEof, DeliverAnswer, client
    <2> QED BY <1>1, <2>1, <2>2 DEF DeviceInv, TypeOK, RunTyped
  <1>8. RunTyped'
    BY <1>1, <1>6, <1>7 DEF DeviceInv, TypeOK, RunTyped
  <1> QED BY <1>3, <1>4, <1>5, <1>8 DEF DeviceInv, TypeOK

\* The last words of a node that goes.
LEMMA CutTyped ==
    ASSUME TypeOK, NEW words \in Seq({<<"bye">>, <<"eof">>}), Cut(words)
    PROVE  wire' \in Seq(Messages) /\ link' \in {"none", "live", "cut"}
  <1>1. words \in Seq(Messages)
    BY DEF Messages
  <1> QED BY <1>1, ConcatFacts DEF Cut, TypeOK, NodeTyped

LEMMA LastWords ==
    /\ <<>> \in Seq({<<"bye">>, <<"eof">>})
    /\ << <<"eof">> >> \in Seq({<<"bye">>, <<"eof">>})
    /\ << <<"bye">>, <<"eof">> >> \in Seq({<<"bye">>, <<"eof">>})
  OBVIOUS

LEMMA NobodyTyped == Nobody \in Readings
  BY Bounds DEF Nobody, Readings

LEMMA NodeTypedKeeps ==
    ASSUME DeviceInv, Node
    PROVE  DeviceInv'
  <1>1. UNCHANGED <<pc, mode, transport, misses, cancelled, open, cache, client>>
    BY DEF Node, Answer, Dump, Report, Reboot, PowerLoss, Reset, Flash, Boot
  <1>2. RunTyped' /\ OneSocket' /\ CacheTyped'
    BY <1>1, SameCacheTyped DEF DeviceInv, TypeOK, RunTyped, OneSocket, client
  <1>3. CASE Answer
    <2>1. <<asked, node.fw>> \in Messages
      BY <1>3 DEF DeviceInv, TypeOK, NodeTyped, Answer, Messages
    <2>2. wire' \in Seq(Messages)
      BY <1>3, <2>1, AppendFacts DEF DeviceInv, Answer
    <2>3. NodeTyped'
      BY <1>3, <2>2 DEF DeviceInv, TypeOK, NodeTyped, Answer, world
    <2> QED BY <1>2, <2>3 DEF DeviceInv, TypeOK
  <1>4. CASE Dump
    <2>1. wire' \in Seq(Messages)
      BY <1>4, DumpFacts, ConcatFacts DEF DeviceInv, Dump
    <2>2. NodeTyped'
      BY <1>4, <2>1 DEF DeviceInv, TypeOK, NodeTyped, Dump, world
    <2> QED BY <1>2, <2>2 DEF DeviceInv, TypeOK
  <1>5. ASSUME NEW k \in Keys, Report(k)
        PROVE  NodeTyped'
    <2>1. seq' = seq + 1 /\ seq' \in 1 .. MaxSeq
      BY <1>5, Bounds DEF DeviceInv, TypeOK, NodeTyped, Report
    <2>2. State(k, seq') \in Messages
      BY <2>1 DEF State, Messages
    <2>3. wire' \in Seq(Messages)
      BY <1>5, <2>2, AppendFacts DEF DeviceInv, TypeOK, NodeTyped, Report
    <2>4. node' = [node EXCEPT !.reading[k] = seq'] /\ UNCHANGED <<link, asked, dump, faults>>
      BY <1>5 DEF Report
    <2>5. [node.reading EXCEPT ![k] = seq'] \in Readings
      BY <2>1, Bounds DEF DeviceInv, TypeOK, NodeTyped, Readings
    <2>6. node' \in [up : BOOLEAN, fw : Versions, enc : BOOLEAN, reading : Readings]
      BY <2>4, <2>5 DEF DeviceInv, TypeOK, NodeTyped
    <2> QED BY <2>1, <2>3, <2>4, <2>6 DEF DeviceInv, TypeOK, NodeTyped
  <1>6. ASSUME NEW fw \in Versions, NEW enc \in BOOLEAN, Reboot(fw, enc)
        PROVE  NodeTyped'
    <2>1. wire' \in Seq(Messages) /\ link' \in {"none", "live", "cut"}
      BY <1>6, LastWords, CutTyped DEF DeviceInv, Reboot
    <2>2. node' \in [up : BOOLEAN, fw : Versions, enc : BOOLEAN, reading : Readings]
      BY <1>6, NobodyTyped DEF DeviceInv, TypeOK, NodeTyped, Reboot
    <2>3. faults' \in 0 .. MaxFaults
      BY <1>6, FaultTyped DEF DeviceInv, Reboot
    <2> QED BY <1>6, <2>1, <2>2, <2>3 DEF DeviceInv, TypeOK, NodeTyped, Reboot
  <1>7. CASE PowerLoss \/ Reset
    <2>1. wire' \in Seq(Messages) /\ link' \in {"none", "live", "cut"}
      BY <1>7, LastWords, CutTyped DEF DeviceInv, PowerLoss, Reset
    <2>2. node' \in [up : BOOLEAN, fw : Versions, enc : BOOLEAN, reading : Readings]
      BY <1>7, NobodyTyped DEF DeviceInv, TypeOK, NodeTyped, PowerLoss, Reset
    <2>3. faults' \in 0 .. MaxFaults
      BY <1>7, FaultTyped DEF DeviceInv, PowerLoss, Reset
    <2>4. NodeTyped'
      BY <1>7, <2>1, <2>2, <2>3 DEF DeviceInv, TypeOK, NodeTyped, PowerLoss, Reset
    <2> QED BY <1>2, <2>4 DEF DeviceInv, TypeOK
  <1>8. CASE Flash
    <2>1. [k \in Keys |-> IF k \in Firmwares[node.fw + 1] THEN node.reading[k] ELSE 0] \in Readings
      BY Bounds DEF DeviceInv, TypeOK, NodeTyped, Readings
    <2>2. node.fw + 1 \in Versions /\ node' = [node EXCEPT !.fw = node.fw + 1,
             !.reading = [k \in Keys |-> IF k \in Firmwares[node.fw + 1] THEN node.reading[k] ELSE 0]]
      BY <1>8 DEF Flash
    <2>3. node' \in [up : BOOLEAN, fw : Versions, enc : BOOLEAN, reading : Readings]
      BY <2>1, <2>2 DEF DeviceInv, TypeOK, NodeTyped
    <2>4. faults' \in 0 .. MaxFaults
      BY <1>8, FaultTyped DEF DeviceInv, Flash
    <2>5. NodeTyped'
      BY <1>8, <2>3, <2>4 DEF DeviceInv, TypeOK, NodeTyped, Flash, line
    <2> QED BY <1>2, <2>5 DEF DeviceInv, TypeOK
  <1>9. CASE Boot
    <2>1. NodeTyped'
      BY <1>9 DEF DeviceInv, TypeOK, NodeTyped, Boot, line
    <2> QED BY <1>2, <2>1 DEF DeviceInv, TypeOK
  <1> QED BY <1>2, <1>3, <1>4, <1>5, <1>6, <1>7, <1>8, <1>9 DEF DeviceInv, TypeOK, Node

LEMMA InitDevice == Init => DeviceInv
  <1> SUFFICES ASSUME Init PROVE DeviceInv
    OBVIOUS
  <1>1. OneSocket
    BY DEF Init, OneSocket, Session, Serving
  <1>2. RunTyped
    <2>1. {cancelled, bye, done} \subseteq BOOLEAN
      BY DEF Init
    <2>2. misses \in 0 .. PingFailThreshold /\ open \in Nat
      BY Bounds DEF Init
    <2> QED BY <2>1, <2>2 DEF Init, RunTyped
  <1>3. CacheTyped
    <2>1. {k \in Keys : cache.orphans[k] # 0} = {} /\ cache.entities = {}
      BY DEF Init, Nobody
    <2>2. cache \in [connected : BOOLEAN, info : Versions \cup {0}, entities : SUBSET Keys,
                     truncated : BOOLEAN, states : Readings, orphans : Readings]
      BY NobodyTyped DEF Init
    <2> QED BY <2>1, <2>2, FS_EmptySet, Bounds DEF CacheTyped
  <1>4. NodeTyped
    <2>1. node \in [up : BOOLEAN, fw : Versions, enc : BOOLEAN, reading : Readings]
      BY VersionsAre, NobodyTyped DEF Init
    <2> QED BY <2>1, Bounds DEF Init, NodeTyped
  <1> QED BY <1>1, <1>2, <1>3, <1>4 DEF DeviceInv, TypeOK

LEMMA NextDevice == DeviceInv /\ [Next]_vars => DeviceInv'
  <1> SUFFICES ASSUME DeviceInv, [Next]_vars PROVE DeviceInv'
    OBVIOUS
  <1>1. CASE Run
    BY <1>1, ConnectingTyped, SessionTyped, PumpTyped, RestingTyped DEF Run
  <1>2. CASE Reader
    BY <1>2, ReaderTyped
  <1>3. CASE Node
    BY <1>3, NodeTypedKeeps
  <1>4. CASE Cancel
    BY <1>4, RestingTyped
  <1>5. CASE UNCHANGED vars
    BY <1>5, SameCacheTyped DEF DeviceInv, TypeOK, RunTyped, NodeTyped, OneSocket, vars, client, line, world
  <1> QED BY <1>1, <1>2, <1>3, <1>4, <1>5 DEF Next

\* device.go and cache.go, on every path: one socket while a session runs and none otherwise,
\* at most MaxEntities entities and MaxOrphans buffered states, whatever the node lists and
\* sends and however a session ends.
THEOREM DeviceInvariant == Spec => []DeviceInv
  BY InitDevice, NextDevice, PTL DEF Spec

-----------------------------------------------------------------------------
(* What a probe is shown of a node: that no reading goes back (OrderInv), that the entities *)
(* are those of a build the node has had (BuildsInv), and that nothing the node has said is  *)
(* lost between the wire and the two maps of the cache (LatestInv).                          *)

\* The states of an entity in transit, and the answers to calls.
About(k) == {i \in DOMAIN wire : wire[i][1] = "state" /\ wire[i][2] = k}
Replies  == {i \in DOMAIN wire : wire[i][1] \in {"auth", "info", "list"}}

\* What the cache holds of an entity, in the one map or the other.
Kept(k) == IF k \in cache.entities THEN cache.states[k] ELSE cache.orphans[k]

OneMap ==
    \A k \in Keys :
        /\ k \in cache.entities => cache.orphans[k] = 0
        /\ k \notin cache.entities => cache.states[k] = 0

\* The states of one entity lie in time order: the cache's, then those in transit, then the
\* node's own.
Ordered ==
    \A k \in Keys :
        /\ Kept(k) <= seq /\ node.reading[k] <= seq
        /\ node.reading[k] # 0 => Kept(k) <= node.reading[k]
        /\ \A i \in About(k) :
              /\ Kept(k) <= wire[i][3] /\ wire[i][3] <= seq
              /\ node.reading[k] # 0 => wire[i][3] <= node.reading[k]
        /\ \A i, j \in About(k) : i < j => wire[i][3] <= wire[j][3]

OrderInv == OneMap /\ Ordered

-----------------------------------------------------------------------------
(* What is said of the wire, and which steps do not matter *)

LEMMA Numbers ==
    ASSUME TypeOK, NEW k \in Keys
    PROVE  /\ cache.states[k] \in Nat /\ cache.orphans[k] \in Nat /\ Kept(k) \in Nat
           /\ node.reading[k] \in Nat /\ seq \in Nat
           /\ \A i \in About(k) : i \in Nat /\ wire[i][3] \in Nat /\ wire[i][3] # 0
                                  /\ wire[i] = State(k, wire[i][3])
  <1>1. cache.states[k] \in Nat /\ cache.orphans[k] \in Nat /\ node.reading[k] \in Nat /\ seq \in Nat
    BY Bounds DEF TypeOK, CacheTyped, NodeTyped, Readings
  <1>2. ASSUME NEW i \in About(k)
        PROVE  i \in Nat /\ wire[i][3] \in Nat /\ wire[i][3] # 0 /\ wire[i] = State(k, wire[i][3])
    <2>1. i \in DOMAIN wire /\ wire[i] \in Messages /\ wire[i][1] = "state" /\ wire[i][2] = k
      BY DEF About, TypeOK, NodeTyped
    <2>2. wire[i] \in {"state"} \X Keys \X (1 .. MaxSeq)
      BY <2>1 DEF Messages
    <2>3. i \in Nat
      BY <2>1 DEF TypeOK, NodeTyped
    <2> QED BY <2>1, <2>2, <2>3, Bounds DEF State
  <1> QED BY <1>1, <1>2 DEF Kept

\* A step that adds no state to those in transit and leaves the cache's.
LEMMA StatesStay ==
    ASSUME DeviceInv, DeviceInv', OrderInv,
           cache'.entities = cache.entities, cache'.states = cache.states, cache'.orphans = cache.orphans,
           seq' = seq, \A k \in Keys : node'.reading[k] \in {0, node.reading[k]},
           \A i \in DOMAIN wire' : wire'[i][1] = "state" => i \in DOMAIN wire /\ wire'[i] = wire[i]
    PROVE  OrderInv'
  <1>1. OneMap'
    BY DEF OrderInv, OneMap
  <1>2. ASSUME NEW k \in Keys
        PROVE  Kept(k)' = Kept(k) /\ About(k)' \subseteq About(k) /\ \A i \in About(k)' : wire'[i] = wire[i]
    BY DEF Kept, About
  <1>3. Ordered'
    <2> SUFFICES ASSUME NEW k \in Keys
                 PROVE  /\ Kept(k)' <= seq' /\ node'.reading[k] <= seq'
                        /\ node'.reading[k] # 0 => Kept(k)' <= node'.reading[k]
                        /\ \A i \in About(k)' :
                              /\ Kept(k)' <= wire'[i][3] /\ wire'[i][3] <= seq'
                              /\ node'.reading[k] # 0 => wire'[i][3] <= node'.reading[k]
                        /\ \A i, j \in About(k)' : i < j => wire'[i][3] <= wire'[j][3]
      BY DEF Ordered
    <2>1. seq \in Nat /\ node'.reading[k] \in {0, node.reading[k]}
      BY Numbers DEF DeviceInv
    <2> QED BY <1>2, <2>1 DEF OrderInv, Ordered
  <1> QED BY <1>1, <1>3 DEF OrderInv

\* Most steps of the goroutine touch the readings neither in the cache nor on the wire, or
\* drop the wire with the socket.
Quiet ==
    /\ cache'.entities = cache.entities /\ cache'.states = cache.states /\ cache'.orphans = cache.orphans
    /\ wire' \in {wire, <<>>}

LEMMA QuietSteps ==
    ASSUME DeviceInv, Run
    PROVE  UNCHANGED <<node, seq>> /\ (Quiet \/ Enumerate \/ Relisted)
  <1>1. UNCHANGED <<node, seq>>
    BY DEF Run, WakeUp, DialSucceeds, DialFails, Authenticated, AuthFails, DeviceInfo, Enumerate, Subscribe,
           SubscribeFails, CallFails, Leave, Ping, PingUnanswered, PingDelayed, MissPing, RefreshDue, RefreshFails,
           Refreshed, Relisted, Ended, Exit, world
  <1>2. wire' \in {wire, <<>>}
    BY DEF Run, WakeUp, DialSucceeds, DialFails, Authenticated, AuthFails, DeviceInfo, Enumerate, Subscribe,
           SubscribeFails, CallFails, Leave, Ping, PingUnanswered, PingDelayed, MissPing, RefreshDue, RefreshFails,
           Refreshed, Relisted, Ended, Exit, Hangup, line
  <1>3. CASE DeviceInfo \/ Subscribe \/ Refreshed \/ Ended
    BY <1>1, <1>2, <1>3 DEF Quiet, DeviceInv, TypeOK, CacheTyped, DeviceInfo, Subscribe, Refreshed, Ended
  <1>4. CASE ~(DeviceInfo \/ Subscribe \/ Refreshed \/ Ended \/ Enumerate \/ Relisted)
    <2>1. cache' = cache
      BY <1>4 DEF Run, WakeUp, DialSucceeds, DialFails, Authenticated, AuthFails, SubscribeFails, CallFails, Leave,
                  Ping, PingUnanswered, PingDelayed, MissPing, RefreshDue, RefreshFails, Exit
    <2> QED BY <1>1, <1>2, <2>1 DEF Quiet
  <1> QED BY <1>1, <1>3, <1>4

\* The cache after a swap, and what it kept.
LEMMA SwapFacts ==
    ASSUME TypeOK, NEW listed \in SUBSET Keys, cache' = Swap(listed)
    PROVE  /\ cache'.entities = Truncate(listed) /\ cache'.info = cache.info /\ cache'.connected = cache.connected
           /\ \A k \in Keys : cache'.states[k] = IF k \notin Truncate(listed) THEN 0
                                                 ELSE IF cache.orphans[k] # 0 THEN cache.orphans[k]
                                                 ELSE cache.states[k]
           /\ \A k \in Keys : cache'.orphans[k] = IF k \in Truncate(listed) THEN 0 ELSE cache.orphans[k]
  BY DEF TypeOK, CacheTyped, Swap

LEMMA SwapKept ==
    ASSUME TypeOK, OneMap, NEW listed \in SUBSET Keys, cache' = Swap(listed)
    PROVE  /\ OneMap'
           /\ \A k \in Keys : Kept(k)' = IF k \in cache.entities /\ k \notin Truncate(listed) THEN 0 ELSE Kept(k)
  <1>1. OneMap'
    BY SwapFacts DEF OneMap
  <1> QED BY <1>1, SwapFacts DEF OneMap, Kept

LEMMA SwapOrdered ==
    ASSUME DeviceInv, OrderInv, NEW listed \in SUBSET Keys, cache' = Swap(listed), UNCHANGED <<wire, node, seq>>
    PROVE  OrderInv'
  <1>1. OneMap' /\ \A k \in Keys : Kept(k)' \in {0, Kept(k)}
    BY SwapKept DEF DeviceInv, OrderInv
  <1>2. \A k \in Keys : About(k)' = About(k)
    BY DEF About
  <1>3. Ordered'
    BY <1>1, <1>2, Numbers DEF DeviceInv, OrderInv, Ordered
  <1> QED BY <1>1, <1>3 DEF OrderInv

\* A state comes off the wire: no older than what is kept, no newer than what follows it.
LEMMA PutFacts ==
    ASSUME TypeOK, NEW k \in Keys, NEW v \in Nat, PutState(k, v)
    PROVE  /\ cache'.entities = cache.entities /\ cache'.info = cache.info /\ cache'.connected = cache.connected
           /\ \A j \in Keys \ {k} : cache'.states[j] = cache.states[j] /\ cache'.orphans[j] = cache.orphans[j]
           /\ k \in cache.entities => cache'.states[k] = v /\ cache'.orphans[k] = cache.orphans[k]
           /\ k \notin cache.entities => cache'.states[k] = cache.states[k] /\ cache'.orphans[k] \in {v, cache.orphans[k]}
  <1>1. CASE k \in cache.entities
    BY <1>1 DEF TypeOK, CacheTyped, PutState, Readings
  <1>2. CASE k \notin cache.entities /\ cache' = [cache EXCEPT !.orphans[k] = v]
    BY <1>2 DEF TypeOK, CacheTyped, Readings
  <1>3. CASE k \notin cache.entities /\ cache' = cache
    BY <1>3
  <1> QED BY <1>1, <1>2, <1>3 DEF PutState

LEMMA HeadState ==
    ASSUME TypeOK, DeliverState
    PROVE  /\ wire # <<>> /\ wire' = Tail(wire) /\ UNCHANGED <<node, seq, link, dump, pc, answer>>
           /\ \E k \in Keys : /\ 1 \in About(k) /\ wire[1][3] \in Nat /\ wire[1][3] # 0
                              /\ PutState(k, wire[1][3])
  <1>1. wire # <<>> /\ wire' = Tail(wire) /\ UNCHANGED <<node, seq, link, dump, pc, answer>>
        /\ Head(wire)[1] = "state" /\ PutState(Head(wire)[2], Head(wire)[3])
    BY DEF DeliverState, Arrives, world, client
  <1>2. Head(wire) = wire[1] /\ wire[1] \in Messages /\ 1 \in DOMAIN wire
    BY <1>1, TailFacts
  <1>3. wire[1] \in {"state"} \X Keys \X (1 .. MaxSeq)
    BY <1>1, <1>2 DEF Messages
  <1>4. wire[1][2] \in Keys /\ wire[1][3] \in Nat /\ wire[1][3] # 0 /\ 1 \in About(wire[1][2])
    BY <1>1, <1>2, <1>3, Bounds DEF About
  <1> QED BY <1>1, <1>2, <1>4

LEMMA TailAbout ==
    ASSUME TypeOK, wire # <<>>, wire' = Tail(wire), NEW k \in Keys
    PROVE  \A i \in About(k)' : i \in Nat /\ i + 1 \in About(k) /\ wire'[i] = wire[i + 1]
  BY TailFacts DEF About

LEMMA TailOrdered ==
    ASSUME TypeOK, Ordered, wire # <<>>, wire' = Tail(wire), NEW k \in Keys,
           NEW i \in About(k)', NEW j \in About(k)', i < j
    PROVE  wire'[i][3] <= wire'[j][3]
  <1>1. /\ i \in Nat /\ i + 1 \in About(k) /\ wire'[i] = wire[i + 1]
        /\ j \in Nat /\ j + 1 \in About(k) /\ wire'[j] = wire[j + 1]
    BY TailAbout
  <1>2. i + 1 < j + 1
    BY <1>1
  <1> QED BY <1>1, <1>2 DEF Ordered

LEMMA ReaderOrdered ==
    ASSUME DeviceInv, OrderInv, Reader
    PROVE  OrderInv'
  <1>1. wire # <<>> /\ wire' = Tail(wire) /\ UNCHANGED <<node, seq>>
    BY DEF Reader, DeliverState, DeliverBye, DeliverEof, DeliverAnswer, Arrives, world
  <1>2. TypeOK /\ OneMap /\ Ordered
    BY DEF DeviceInv, OrderInv
  <1>3. CASE cache' = cache
    <2>1. OneMap' /\ \A k \in Keys : Kept(k)' = Kept(k)
      BY <1>2, <1>3 DEF OneMap, Kept
    <2>2. ASSUME NEW k \in Keys
          PROVE  \A i \in About(k)' :
                    /\ Kept(k)' <= wire'[i][3] /\ wire'[i][3] <= seq'
                    /\ node'.reading[k] # 0 => wire'[i][3] <= node'.reading[k]
      <3>1. TAKE i \in About(k)'
      <3>2. i + 1 \in About(k) /\ wire'[i] = wire[i + 1]
        BY <1>1, <1>2, TailAbout
      <3>3. Kept(k) <= wire[i + 1][3] /\ wire[i + 1][3] <= seq
            /\ (node.reading[k] # 0 => wire[i + 1][3] <= node.reading[k])
        BY <1>2, <3>2 DEF Ordered
      <3> QED BY <1>1, <2>1, <3>2, <3>3
    <2>3. Ordered'
      BY <1>1, <1>2, <2>1, <2>2, TailOrdered DEF Ordered
    <2> QED BY <2>1, <2>3 DEF OrderInv
  <1>4. CASE DeliverState
    <2>1. PICK k \in Keys : /\ 1 \in About(k) /\ wire[1][3] \in Nat /\ wire[1][3] # 0
                            /\ PutState(k, wire[1][3])
      BY <1>2, <1>4, HeadState
    <2>2. OneMap' /\ (\A j \in Keys \ {k} : Kept(j)' = Kept(j)) /\ Kept(k)' \in {Kept(k), wire[1][3]}
      BY <1>2, <2>1, PutFacts DEF OneMap, Kept
    <2>3. ASSUME NEW j \in Keys
          PROVE  Kept(j)' <= seq /\ (node.reading[j] # 0 => Kept(j)' <= node.reading[j])
      BY <1>2, <2>1, <2>2 DEF Ordered
    <2>4. ASSUME NEW j \in Keys, NEW i \in About(j)'
          PROVE  Kept(j)' <= wire'[i][3] /\ wire'[i][3] <= seq
                 /\ (node.reading[j] # 0 => wire'[i][3] <= node.reading[j])
      <3>1. i \in Nat /\ i + 1 \in About(j) /\ wire'[i] = wire[i + 1]
        BY <1>1, <1>2, <2>4, TailAbout
      <3>2. j = k => wire[1][3] <= wire[i + 1][3]
        <4>1. i \in DOMAIN wire'
          BY <2>4 DEF About
        <4>2. 1 < i + 1
          BY <1>1, <1>2, <4>1, TailFacts DEF TypeOK, NodeTyped
        <4> QED BY <1>2, <2>1, <3>1, <4>2 DEF Ordered
      <3> QED BY <1>2, <2>2, <3>1, <3>2 DEF Ordered
    <2>5. Ordered'
      BY <1>1, <1>2, <2>3, <2>4, TailOrdered DEF Ordered
    <2> QED BY <2>2, <2>5 DEF OrderInv
  <1> QED BY <1>3, <1>4 DEF Reader, DeliverBye, DeliverEof, DeliverAnswer

\* The node's state is the newest there is.
LEMMA ReportFacts ==
    ASSUME DeviceInv, OrderInv, NEW k \in Keys, Report(k)
    PROVE  /\ cache' = cache /\ seq' = seq + 1 /\ UNCHANGED <<link, dump, pc, answer>> /\ node'.fw = node.fw
           /\ node'.reading[k] = seq' /\ \A j \in Keys \ {k} : node'.reading[j] = node.reading[j]
           /\ \A j \in Keys : About(j) \subseteq About(j)' /\ \A i \in About(j) : wire'[i] = wire[i]
           /\ dump = "sent" /\ link = "live" => \E i \in About(k)' : wire'[i][3] = seq'
           /\ \A j \in Keys : \A i \in About(j)' :
                 i \in About(j) \/ (j = k /\ wire'[i][3] = seq' /\ \A l \in DOMAIN wire : l < i)
           /\ Replies' = Replies /\ \A i \in Replies : wire'[i] = wire[i]
  <1>1. /\ cache' = cache /\ seq' = seq + 1 /\ UNCHANGED <<link, dump, pc, answer>>
        /\ node' = [node EXCEPT !.reading[k] = seq']
        /\ wire' = IF dump = "sent" /\ link = "live" THEN Append(wire, State(k, seq')) ELSE wire
    BY DEF Report, client
  <1>2. State(k, seq') \in Messages
    <2>1. seq' \in 1 .. MaxSeq
      BY <1>1, Bounds DEF DeviceInv, TypeOK, NodeTyped, Report
    <2> QED BY <2>1 DEF State, Messages
  <1>3. /\ node'.fw = node.fw /\ node'.reading[k] = seq'
        /\ \A j \in Keys \ {k} : node'.reading[j] = node.reading[j]
    BY <1>1 DEF DeviceInv, TypeOK, NodeTyped, Readings
  <1>4. CASE wire' = wire /\ ~(dump = "sent" /\ link = "live")
    BY <1>1, <1>3, <1>4 DEF About, Replies
  <1>5. CASE wire' = Append(wire, State(k, seq'))
    <2>1. /\ \A i \in DOMAIN wire : i \in Nat /\ i \in DOMAIN wire' /\ wire'[i] = wire[i]
          /\ Len(wire) + 1 \in DOMAIN wire' /\ wire'[Len(wire) + 1] = State(k, seq')
          /\ \A i \in DOMAIN wire' :
                i \in DOMAIN wire \/ (i = Len(wire) + 1 /\ \A j \in DOMAIN wire : j < i)
      BY <1>2, <1>5, AppendFacts DEF DeviceInv
    <2>2. State(k, seq')[1] = "state" /\ State(k, seq')[2] = k /\ State(k, seq')[3] = seq'
      BY DEF State
    <2>3. Len(wire) + 1 \in About(k)' /\ wire'[Len(wire) + 1][3] = seq'
      BY <2>1, <2>2 DEF About
    <2>4. \A j \in Keys : About(j) \subseteq About(j)' /\ \A i \in About(j) : wire'[i] = wire[i]
      BY <2>1 DEF About
    <2>5. \A j \in Keys : \A i \in About(j)' :
             i \in About(j) \/ (j = k /\ wire'[i][3] = seq' /\ \A l \in DOMAIN wire : l < i)
      BY <2>1, <2>2 DEF About
    <2>6. Replies' = Replies /\ \A i \in Replies : wire'[i] = wire[i]
      BY <2>1, <2>2 DEF Replies
    <2> QED BY <1>1, <1>3, <2>3, <2>4, <2>5, <2>6
  <1> QED BY <1>1, <1>4, <1>5

LEMMA ReportOrdered ==
    ASSUME DeviceInv, OrderInv, NEW k \in Keys, Report(k)
    PROVE  OrderInv'
  <1>1. cache' = cache /\ seq' = seq + 1 /\ node'.reading[k] = seq'
        /\ \A j \in Keys \ {k} : node'.reading[j] = node.reading[j]
    BY ReportFacts
  <1>2. OneMap' /\ \A j \in Keys : Kept(j)' = Kept(j)
    BY <1>1 DEF OrderInv, OneMap, Kept
  <1>3. seq \in Nat /\ \A j \in Keys : Kept(j) \in Nat /\ Kept(j) <= seq /\ node.reading[j] \in Nat /\ node.reading[j] <= seq
    BY Numbers DEF DeviceInv, OrderInv, Ordered
  <1>4. ASSUME NEW j \in Keys
        PROVE  /\ Kept(j)' <= seq' /\ node'.reading[j] <= seq'
               /\ node'.reading[j] # 0 => Kept(j)' <= node'.reading[j]
    <2>1. CASE j = k
      BY <1>1, <1>2, <1>3, <2>1
    <2>2. CASE j # k
      BY <1>1, <1>2, <1>3, <2>2 DEF OrderInv, Ordered
    <2> QED BY <2>1, <2>2
  <1>5. ASSUME NEW j \in Keys, NEW i \in About(j)'
        PROVE  /\ Kept(j)' <= wire'[i][3] /\ wire'[i][3] <= seq'
               /\ node'.reading[j] # 0 => wire'[i][3] <= node'.reading[j]
    <2>1. CASE i \in About(j)
      <3>1. wire'[i] = wire[i] /\ wire[i][3] \in Nat /\ wire[i][3] <= seq /\ Kept(j) <= wire[i][3]
        BY <2>1, ReportFacts, Numbers DEF DeviceInv, OrderInv, Ordered
      <3>2. CASE j = k
        BY <1>1, <1>2, <1>3, <3>1, <3>2
      <3>3. CASE j # k
        BY <1>1, <1>2, <1>3, <2>1, <3>1, <3>3 DEF OrderInv, Ordered
      <3> QED BY <3>2, <3>3
    <2>2. CASE i \notin About(j)
      <3>1. j = k /\ wire'[i][3] = seq'
        BY <1>5, <2>2, ReportFacts
      <3> QED BY <1>1, <1>2, <1>3, <3>1
    <2> QED BY <2>1, <2>2
  <1>6. ASSUME NEW j \in Keys, NEW i \in About(j)', NEW l \in About(j)', i < l
        PROVE  wire'[i][3] <= wire'[l][3]
    <2>1. CASE i \in About(j) /\ l \in About(j)
      BY <1>6, <2>1, ReportFacts DEF OrderInv, Ordered
    <2>2. CASE l \notin About(j)
      <3>1. wire'[l][3] = seq' /\ wire'[i][3] <= seq'
        BY <1>5, <1>6, <2>2, ReportFacts
      <3> QED BY <3>1
    <2>3. CASE i \notin About(j) /\ l \in About(j)
      <3>1. l < i /\ i \in DOMAIN wire' /\ l \in Nat
        BY <1>6, <2>3, ReportFacts, Numbers DEF DeviceInv, About
      <3>2. i \in Nat
        BY <3>1, NodeTypedKeeps DEF DeviceInv, TypeOK, NodeTyped, Node
      <3> QED BY <1>6, <3>1, <3>2
    <2> QED BY <2>1, <2>2, <2>3
  <1>7. Ordered'
    BY <1>4, <1>5, <1>6 DEF Ordered
  <1> QED BY <1>2, <1>7 DEF OrderInv

\* The node's current states follow those in transit.
LEMMA DumpedFacts ==
    ASSUME DeviceInv, Dump
    PROVE  /\ UNCHANGED <<cache, node, seq, link, pc, answer>> /\ dump' = "sent"
           /\ \A k \in Keys : About(k) \subseteq About(k)' /\ \A i \in About(k) : wire'[i] = wire[i]
           /\ \A k \in Keys : node.reading[k] # 0 => \E i \in About(k)' : wire'[i][3] = node.reading[k]
           /\ \A k \in Keys : \A i \in About(k)' :
                 \/ i \in About(k)
                 \/ wire'[i][3] = node.reading[k] /\ node.reading[k] # 0 /\ \A l \in DOMAIN wire : l < i
           /\ Replies' = Replies /\ \A i \in Replies : wire'[i] = wire[i]
  <1>1. PICK keys \in SetToSeqs({k \in Keys : node.reading[k] # 0}) :
           wire' = wire \o [i \in DOMAIN keys |-> State(keys[i], node.reading[keys[i]])]
    BY DEF Dump
  <1> DEFINE states == [i \in DOMAIN keys |-> State(keys[i], node.reading[keys[i]])]
  <1>2. /\ states \in Seq(Messages)
        /\ \A i \in DOMAIN states : keys[i] \in Keys /\ node.reading[keys[i]] # 0
                                    /\ states[i] = State(keys[i], node.reading[keys[i]])
        /\ \A k \in Keys : node.reading[k] # 0 => \E i \in DOMAIN states : states[i] = State(k, node.reading[k])
    <2>1. \A i \in DOMAIN states : node.reading[keys[i]] # 0
      BY DEF SetToSeqs
    <2> QED BY <2>1, DumpFacts DEF DeviceInv
  <1>3. wire' = wire \o states
    BY <1>1
  <1> HIDE DEF states
  <1>4. /\ \A i \in DOMAIN wire : i \in Nat /\ i \in DOMAIN wire' /\ wire'[i] = wire[i]
        /\ \A i \in DOMAIN states : i + Len(wire) \in DOMAIN wire' /\ wire'[i + Len(wire)] = states[i]
        /\ \A i \in DOMAIN wire' :
              \/ i \in DOMAIN wire
              \/ i - Len(wire) \in DOMAIN states /\ wire'[i] = states[i - Len(wire)] /\ \A j \in DOMAIN wire : j < i
    BY <1>2, <1>3, ConcatFacts DEF DeviceInv
  <1>5. \A k, v : State(k, v)[1] = "state" /\ State(k, v)[2] = k /\ State(k, v)[3] = v
    BY DEF State
  <1>6. \A k \in Keys : About(k) \subseteq About(k)' /\ \A i \in About(k) : wire'[i] = wire[i]
    BY <1>4 DEF About
  <1>7. \A k \in Keys : node.reading[k] # 0 => \E i \in About(k)' : wire'[i][3] = node.reading[k]
    <2> SUFFICES ASSUME NEW k \in Keys, node.reading[k] # 0
                 PROVE  \E i \in About(k)' : wire'[i][3] = node.reading[k]
      OBVIOUS
    <2>1. PICK i \in DOMAIN states : states[i] = State(k, node.reading[k])
      BY <1>2
    <2>2. i + Len(wire) \in DOMAIN wire' /\ wire'[i + Len(wire)] = State(k, node.reading[k])
      BY <1>4, <2>1
    <2> QED BY <1>5, <2>2 DEF About
  <1>8. \A k \in Keys : \A i \in About(k)' :
           \/ i \in About(k)
           \/ wire'[i][3] = node.reading[k] /\ node.reading[k] # 0 /\ \A l \in DOMAIN wire : l < i
    <2> SUFFICES ASSUME NEW k \in Keys, NEW i \in About(k)', i \notin About(k)
                 PROVE  wire'[i][3] = node.reading[k] /\ node.reading[k] # 0 /\ \A l \in DOMAIN wire : l < i
      OBVIOUS
    <2>1. i \in DOMAIN wire' /\ wire'[i][2] = k /\ wire'[i][1] = "state"
      BY DEF About
    <2>2. i \notin DOMAIN wire
      <3> SUFFICES ASSUME i \in DOMAIN wire
                   PROVE  FALSE
        OBVIOUS
      <3>1. wire'[i] = wire[i]
        BY <1>4
      <3> QED BY <2>1, <3>1 DEF About
    <2>3. i - Len(wire) \in DOMAIN states /\ wire'[i] = states[i - Len(wire)] /\ \A l \in DOMAIN wire : l < i
      BY <1>4, <2>1, <2>2
    <2>4. PICK j \in Keys : node.reading[j] # 0 /\ states[i - Len(wire)] = State(j, node.reading[j])
      BY <1>2, <2>3
    <2>5. wire'[i][2] = j /\ wire'[i][3] = node.reading[j]
      BY <1>5, <2>3, <2>4
    <2> QED BY <2>1, <2>3, <2>4, <2>5
  <1>9. Replies' = Replies /\ \A i \in Replies : wire'[i] = wire[i]
    BY <1>2, <1>4, <1>5 DEF Replies
  <1>10. UNCHANGED <<cache, node, seq, link, pc, answer>> /\ dump' = "sent"
    BY DEF Dump, client, world
  <1> QED BY <1>6, <1>7, <1>8, <1>9, <1>10

LEMMA DumpOrdered ==
    ASSUME DeviceInv, OrderInv, Dump
    PROVE  OrderInv'
  <1>1. UNCHANGED <<cache, node, seq>>
    BY DumpedFacts
  <1>2. OneMap' /\ \A k \in Keys : Kept(k)' = Kept(k)
    BY <1>1 DEF OrderInv, OneMap, Kept
  <1>3. ASSUME NEW k \in Keys, NEW i \in About(k)'
        PROVE  /\ Kept(k)' <= wire'[i][3] /\ wire'[i][3] <= seq'
               /\ node'.reading[k] # 0 => wire'[i][3] <= node'.reading[k]
    <2>1. CASE i \in About(k)
      BY <1>1, <1>2, <2>1, DumpedFacts DEF OrderInv, Ordered
    <2>2. CASE i \notin About(k)
      <3>1. wire'[i][3] = node.reading[k] /\ node.reading[k] # 0 /\ node.reading[k] \in Nat
        BY <1>3, <2>2, DumpedFacts, Numbers DEF DeviceInv
      <3> QED BY <1>1, <1>2, <3>1 DEF OrderInv, Ordered
    <2> QED BY <2>1, <2>2
  <1>4. ASSUME NEW k \in Keys, NEW i \in About(k)', NEW l \in About(k)', i < l
        PROVE  wire'[i][3] <= wire'[l][3]
    <2>1. CASE i \in About(k) /\ l \in About(k)
      BY <1>4, <2>1, DumpedFacts DEF OrderInv, Ordered
    <2>2. CASE l \notin About(k)
      <3>1. wire'[l][3] = node.reading[k] /\ node.reading[k] # 0
        BY <1>4, <2>2, DumpedFacts
      <3> QED BY <1>1, <1>3, <1>4, <3>1
    <2>3. CASE i \notin About(k) /\ l \in About(k)
      <3>1. l < i /\ l \in Nat /\ i \in DOMAIN wire'
        BY <1>4, <2>3, DumpedFacts, Numbers DEF DeviceInv, About
      <3>2. i \in Nat
        BY <3>1, NodeTypedKeeps DEF DeviceInv, TypeOK, NodeTyped, Node
      <3> QED BY <1>4, <3>1, <3>2
    <2> QED BY <2>1, <2>2, <2>3
  <1>5. Ordered'
    BY <1>1, <1>2, <1>3, <1>4 DEF OrderInv, Ordered
  <1> QED BY <1>2, <1>5 DEF OrderInv

\* The node's other steps put no state on the wire and bring back none that it had.
LEMMA WordsFacts ==
    ASSUME DeviceInv, Node, ~Dump, \A k \in Keys : ~Report(k)
    PROVE  /\ UNCHANGED <<cache, seq, pc, answer, cancelled>>
           /\ \A k \in Keys : node'.reading[k] \in {0, node.reading[k]}
           /\ \A i \in DOMAIN wire' : wire'[i][1] = "state" => i \in DOMAIN wire /\ wire'[i] = wire[i]
           /\ \A i \in DOMAIN wire : i \in DOMAIN wire' /\ wire'[i] = wire[i]
           /\ \A i \in Replies' : \/ i \in Replies
                                  \/ wire'[i][2] = node.fw /\ \A l \in DOMAIN wire : l < i
           /\ node'.fw \in {node.fw, node.fw + 1}
           /\ link' = "live" => link = "live"
           /\ dump' = dump
  <1> DEFINE after == /\ \A i \in DOMAIN wire' : wire'[i][1] = "state" => i \in DOMAIN wire /\ wire'[i] = wire[i]
                      /\ \A i \in DOMAIN wire : i \in DOMAIN wire' /\ wire'[i] = wire[i]
                      /\ \A i \in Replies' : \/ i \in Replies
                                             \/ wire'[i][2] = node.fw /\ \A l \in DOMAIN wire : l < i
  <1>1. CASE Answer
    <2>1. <<asked, node.fw>> \in Messages /\ asked # "state"
      BY <1>1 DEF DeviceInv, TypeOK, NodeTyped, Answer, Messages
    <2>2. wire' = Append(wire, <<asked, node.fw>>)
      BY <1>1 DEF Answer
    <2>3. after
      BY <2>1, <2>2, AppendFacts DEF DeviceInv, Replies
    <2> QED BY <1>1, <2>3 DEF Answer, client, world
  <1>2. ASSUME NEW words \in {<<>>, << <<"eof">> >>, << <<"bye">>, <<"eof">> >>}, Cut(words)
        PROVE  after /\ (link' = "live" => link = "live")
    <2>1. words \in Seq(Messages) /\ \A i \in DOMAIN words : words[i] \in {<<"bye">>, <<"eof">>}
      <3>1. words \in Seq({<<"bye">>, <<"eof">>})
        BY LastWords
      <3>2. {<<"bye">>, <<"eof">>} \subseteq Messages
        BY DEF Messages
      <3> QED BY <3>1, <3>2
    <2>2. \A i \in DOMAIN words : words[i][1] \notin {"state", "auth", "info", "list"}
      BY <2>1
    <2>3. CASE link = "live"
      <3>1. wire' = wire \o words /\ link' = "cut"
        BY <1>2, <2>3 DEF Cut
      <3>2. /\ \A i \in DOMAIN wire : i \in DOMAIN wire' /\ wire'[i] = wire[i]
            /\ \A i \in DOMAIN wire' :
                  \/ i \in DOMAIN wire
                  \/ i - Len(wire) \in DOMAIN words /\ wire'[i] = words[i - Len(wire)]
        BY <2>1, <3>1, ConcatFacts DEF DeviceInv
      <3>3. \A i \in DOMAIN wire' :
               wire'[i][1] \in {"state", "auth", "info", "list"} => i \in DOMAIN wire /\ wire'[i] = wire[i]
        BY <2>2, <3>2
      <3> QED BY <3>1, <3>2, <3>3 DEF Replies
    <2>4. CASE link # "live"
      BY <1>2, <2>4 DEF Cut, Replies
    <2> QED BY <2>3, <2>4
  <1>3. ASSUME NEW fw \in Versions, NEW enc \in BOOLEAN, Reboot(fw, enc)
        PROVE  /\ after /\ (link' = "live" => link = "live")
               /\ node'.fw = fw /\ fw \in {node.fw, node.fw + 1} /\ node'.reading = Nobody
               /\ UNCHANGED <<cache, seq, pc, answer, cancelled, dump>>
    BY <1>2, <1>3 DEF Reboot, DeviceInv, TypeOK, NodeTyped, client
  <1>4. CASE PowerLoss
    <2>1. node'.fw = node.fw /\ node'.reading = Nobody
      BY <1>4 DEF PowerLoss, DeviceInv, TypeOK, NodeTyped
    <2> QED BY <1>2, <1>4, <2>1 DEF PowerLoss, client, Nobody
  <1>5. CASE Reset
    BY <1>2, <1>5 DEF Reset, client
  <1>6. CASE Flash
    <2>1. node'.fw = node.fw + 1
          /\ node'.reading = [k \in Keys |-> IF k \in Firmwares[node.fw + 1] THEN node.reading[k] ELSE 0]
      BY <1>6 DEF Flash, DeviceInv, TypeOK, NodeTyped
    <2> QED BY <1>6, <2>1 DEF Flash, client, line, Replies
  <1>7. CASE Boot
    <2>1. node'.fw = node.fw /\ node'.reading = node.reading
      BY <1>7 DEF Boot, DeviceInv, TypeOK, NodeTyped
    <2> QED BY <1>7, <2>1 DEF Boot, client, line, Replies
  <1>8. CASE \E fw \in Versions, enc \in BOOLEAN : Reboot(fw, enc)
    BY <1>3, <1>8 DEF Nobody
  <1> QED BY <1>1, <1>4, <1>5, <1>6, <1>7, <1>8 DEF Node

LEMMA InitOrder == Init => OrderInv
  <1> SUFFICES ASSUME Init PROVE OrderInv
    OBVIOUS
  <1>1. \A k \in Keys : Kept(k) = 0 /\ node.reading[k] = 0 /\ About(k) = {}
    BY DEF Init, Kept, Nobody, About
  <1>2. OneMap
    BY DEF Init, OneMap, Nobody
  <1> QED BY <1>1, <1>2 DEF Init, OrderInv, Ordered

LEMMA NextOrder == DeviceInv /\ OrderInv /\ [Next]_vars => OrderInv'
  <1> SUFFICES ASSUME DeviceInv, OrderInv, [Next]_vars PROVE OrderInv'
    OBVIOUS
  <1>1. DeviceInv'
    BY NextDevice
  <1>2. CASE Run
    <2>1. CASE Quiet
      BY <1>1, <1>2, <2>1, QuietSteps, StatesStay DEF Quiet
    <2>2. CASE Enumerate
      <3>1. Listing \in SUBSET Keys
        BY <2>2, AnswerTyped, VersionsAre DEF DeviceInv, Enumerate, Listing
      <3> QED BY <2>2, <3>1, SwapOrdered DEF Enumerate, line, world
    <2>3. CASE Relisted
      <3>1. Listing \in SUBSET Keys
        BY <2>3, AnswerTyped, VersionsAre DEF DeviceInv, Relisted, Listing
      <3> QED BY <2>3, <3>1, SwapOrdered DEF Relisted, line, world
    <2> QED BY <1>2, <2>1, <2>2, <2>3, QuietSteps
  <1>3. CASE Reader
    BY <1>3, ReaderOrdered
  <1>4. CASE Node
    <2>1. CASE \A k \in Keys : ~Report(k)
      <3>1. CASE ~Dump
        BY <1>1, <1>4, <2>1, <3>1, WordsFacts, StatesStay
      <3> QED BY <3>1, DumpOrdered
    <2> QED BY <2>1, ReportOrdered
  <1>5. CASE Cancel \/ UNCHANGED vars
    BY <1>1, <1>5, StatesStay DEF Cancel, vars, line, world
  <1> QED BY <1>2, <1>3, <1>4, <1>5 DEF Next

\* deviceCache.swapEntities and putState: an entity has its value in one of the two maps, never
\* newer than what is in transit or at the node, and the wire carries its states in their order.
THEOREM OrderInvariant == Spec => [](DeviceInv /\ OrderInv)
  BY InitDevice, NextDevice, InitOrder, NextOrder, PTL DEF Spec

LEMMA StepsForward ==
    ASSUME DeviceInv, OrderInv, Next
    PROVE  \A k \in cache.entities \cap cache.entities' : cache.states[k]' >= cache.states[k]
  <1> SUFFICES ASSUME NEW k \in cache.entities \cap cache.entities'
               PROVE  cache'.states[k] >= cache.states[k]
    OBVIOUS
  <1>1. k \in Keys /\ cache.states[k] \in Nat /\ Kept(k) = cache.states[k]
    BY Numbers DEF DeviceInv, TypeOK, CacheTyped, Kept
  <1>2. CASE cache'.states = cache.states
    BY <1>1, <1>2
  <1>3. CASE Enumerate \/ Relisted
    <2>1. cache' = Swap(Listing) /\ Listing \in SUBSET Keys
      BY <1>3, AnswerTyped, VersionsAre DEF DeviceInv, Enumerate, Relisted, Listing
    <2>2. cache.orphans[k] = 0 /\ k \in Truncate(Listing)
      BY <1>1, <2>1, SwapFacts DEF DeviceInv, OrderInv, OneMap
    <2> QED BY <1>1, <2>1, <2>2, SwapFacts DEF DeviceInv
  <1>4. CASE DeliverState
    <2>1. PICK j \in Keys : /\ 1 \in About(j) /\ wire[1][3] \in Nat /\ wire[1][3] # 0
                            /\ PutState(j, wire[1][3])
      BY <1>4, HeadState DEF DeviceInv
    <2>2. Kept(j) <= wire[1][3]
      BY <2>1 DEF OrderInv, Ordered
    <2>3. CASE j = k
      BY <1>1, <2>1, <2>2, <2>3, PutFacts DEF DeviceInv
    <2>4. CASE j # k
      BY <1>1, <2>1, <2>4, PutFacts DEF DeviceInv
    <2> QED BY <2>3, <2>4
  <1>5. CASE Node
    <2>1. cache' = cache
      BY <1>5 DEF Node, Answer, Dump, Report, Reboot, PowerLoss, Reset, Flash, Boot
    <2> QED BY <1>2, <2>1
  <1> QED BY <1>2, <1>3, <1>4, <1>5, QuietSteps
          DEF Next, Reader, DeliverBye, DeliverEof, DeliverAnswer, Cancel, Quiet

\* deviceCache.swapEntities, putState and session: an entity that stays listed is never shown
\* blank or with an older value than before, for every order of enumerations, states, reboots
\* and reconnects.
THEOREM ReadingsOnlyAdvance == Spec => ReadingsNeverGoBack
  <1> DEFINE Forward == \A k \in cache.entities \cap cache.entities' :
                            cache.states[k]' >= cache.states[k]
  <1>1. DeviceInv /\ OrderInv /\ [Next]_vars => [Forward]_vars
    BY StepsForward
  <1>2. ReadingsNeverGoBack <=> [][Forward]_vars
    BY DEF ReadingsNeverGoBack
  <1> HIDE DEF Forward
  <1> QED BY <1>1, <1>2, OrderInvariant, PTL DEF Spec

-----------------------------------------------------------------------------
(* Which build the entities are of *)

\* The entities kept of a build; before any enumeration there are none.
ListOf(v) == IF v = 0 THEN {} ELSE Truncate(Firmwares[v])
\* Where the entities are those that the build last seen, or a later one, lists.
Compared == {"subscribe", "up", "reinfo"}
Enumerated == Compared \cup {"relist"}

\* The entities are those of build v, and no answer still to be read is of an older one.
Listed(v) ==
    /\ cache.entities = ListOf(v)
    /\ \A i \in Replies : v <= wire[i][2]
    /\ Answered => v <= answer[2]
    /\ pc \in Compared => cache.info <= v
    /\ pc \in Enumerated => v # 0

\* Builds come in order: the one last seen, the answer at hand, the answers in transit, the
\* node's.
InOrder ==
    /\ cache.info <= node.fw
    /\ \A i \in Replies : cache.info <= wire[i][2] /\ wire[i][2] <= node.fw
    /\ \A i, j \in Replies : i < j => wire[i][2] <= wire[j][2]
    /\ Answered => /\ cache.info <= answer[2] /\ answer[2] <= node.fw
                   /\ \A i \in Replies : answer[2] <= wire[i][2]

BuildsInv == InOrder /\ \E v \in 0 .. node.fw : Listed(v)

LEMMA ReplyNumbers ==
    ASSUME TypeOK
    PROVE  /\ node.fw \in Nat /\ node.fw \in Versions /\ cache.info \in Nat
           /\ Answered => answer[2] \in Nat /\ answer[2] \in Versions
           /\ \A i \in Replies : i \in Nat /\ i \in DOMAIN wire /\ wire[i][2] \in Nat
  <1>1. node.fw \in Nat /\ node.fw \in Versions /\ cache.info \in Nat
    BY VersionsAre DEF TypeOK, CacheTyped, NodeTyped
  <1>2. Answered => answer[2] \in Nat /\ answer[2] \in Versions
    BY VersionsAre, AnswerTyped
  <1>3. ASSUME NEW i \in Replies
        PROVE  i \in Nat /\ i \in DOMAIN wire /\ wire[i][2] \in Nat
    <2>1. i \in DOMAIN wire /\ i \in Nat /\ wire[i] \in Messages /\ wire[i][1] \in {"auth", "info", "list"}
      BY DEF Replies, TypeOK, NodeTyped
    <2>2. wire[i] \in {"auth", "info", "list"} \X Versions
      BY <2>1 DEF Messages
    <2> QED BY <2>1, <2>2, VersionsAre
  <1> QED BY <1>1, <1>2, <1>3

\* A step that leaves the cache's build and list: an answer in transit may go, and one of the
\* node's own build may come, behind the others.
LEMMA BuildsStay ==
    ASSUME DeviceInv, BuildsInv,
           cache'.entities = cache.entities, cache'.info = cache.info,
           node'.fw \in {node.fw, node.fw + 1}, answer' \in {answer, <<>>},
           pc' \in Compared => pc \in Compared, pc' \in Enumerated => pc \in Enumerated,
           \A i \in Replies' :
              \/ i \in Replies /\ wire'[i] = wire[i]
              \/ wire'[i][2] = node.fw /\ \A j \in Replies : j < i,
           \A i \in Replies' : i \in Nat
    PROVE  BuildsInv'
  <1>1. /\ node.fw \in Nat /\ cache.info \in Nat /\ (Answered => answer[2] \in Nat)
        /\ \A i \in Replies : i \in Nat /\ wire[i][2] \in Nat
    BY ReplyNumbers DEF DeviceInv
  <1>2. Answered' => Answered /\ answer' = answer
    BY DEF Answered
  <1>3. node.fw <= node'.fw /\ node'.fw \in Nat
    BY <1>1
  <1>4. \A i \in Replies' : cache.info <= wire'[i][2] /\ wire'[i][2] <= node.fw /\ wire'[i][2] \in Nat
    BY <1>1 DEF BuildsInv, InOrder
  <1>5. \A i, j \in Replies' : i < j => wire'[i][2] <= wire'[j][2]
    <2> SUFFICES ASSUME NEW i \in Replies', NEW j \in Replies', i < j
                 PROVE  wire'[i][2] <= wire'[j][2]
      OBVIOUS
    <2>1. CASE wire'[j][2] = node.fw
      BY <1>4, <2>1
    <2>2. CASE j \in Replies /\ wire'[j] = wire[j]
      <3>1. i \in Replies /\ wire'[i] = wire[i]
        BY <2>2, <1>1
      <3> QED BY <2>2, <3>1 DEF BuildsInv, InOrder
    <2> QED BY <2>1, <2>2
  <1>6. Answered' => \A i \in Replies' : answer'[2] <= wire'[i][2]
    BY <1>1, <1>2 DEF BuildsInv, InOrder
  <1>7. InOrder'
    BY <1>1, <1>2, <1>3, <1>4, <1>5, <1>6 DEF BuildsInv, InOrder
  <1>8. PICK v \in 0 .. node.fw : Listed(v)
    BY DEF BuildsInv
  <1>9. Listed(v)'
    <2>1. \A i \in Replies' : v <= wire'[i][2]
      BY <1>1, <1>8 DEF Listed
    <2> QED BY <1>2, <1>8, <2>1 DEF Listed, ListOf
  <1>10. v \in 0 .. node'.fw
    BY <1>1, <1>3
  <1> QED BY <1>7, <1>9, <1>10 DEF BuildsInv

\* The answer at hand becomes the build last seen; the entities are to be listed next.
LEMMA BuildSeen ==
    ASSUME DeviceInv, BuildsInv, Answered, answer' = <<>>, UNCHANGED <<wire, node>>,
           pc' \notin Compared, pc' \in Enumerated => pc \in Enumerated,
           cache'.entities = cache.entities, cache'.info = answer[2]
    PROVE  BuildsInv'
  <1>1. Replies' = Replies /\ ~Answered' /\ node'.fw = node.fw
    BY DEF Replies, Answered
  <1>2. InOrder'
    BY <1>1 DEF BuildsInv, InOrder
  <1>3. PICK v \in 0 .. node.fw : Listed(v)
    BY DEF BuildsInv
  <1>4. Listed(v)'
    BY <1>1, <1>3 DEF Listed, ListOf
  <1> QED BY <1>1, <1>2, <1>4 DEF BuildsInv

\* The answer at hand is the list that the cache takes over.
LEMMA BuildListed ==
    ASSUME DeviceInv, BuildsInv, Answered, answer' = <<>>, UNCHANGED <<wire, node>>, cache' = Swap(Listing),
           NEW v \in Versions, v = answer[2]
    PROVE  BuildsInv' /\ Listed(v)' /\ v \in 0 .. node.fw
  <1>1. Replies' = Replies /\ ~Answered' /\ node'.fw = node.fw
    BY DEF Replies, Answered
  <1>2. v \in Nat /\ v # 0 /\ Listing \in SUBSET Keys
    BY VersionsAre DEF Listing
  <1>3. cache'.info = cache.info /\ cache'.entities = ListOf(v)
    BY <1>2, SwapFacts DEF DeviceInv, Listing, ListOf
  <1>4. InOrder'
    BY <1>1, <1>3 DEF BuildsInv, InOrder
  <1>5. Listed(v)'
    <2>1. cache'.entities = ListOf(v)' /\ cache'.info <= v
      BY <1>3 DEF BuildsInv, InOrder, ListOf
    <2>2. \A i \in Replies' : v <= wire'[i][2]
      BY <1>1 DEF BuildsInv, InOrder
    <2> QED BY <1>1, <1>2, <2>1, <2>2 DEF Listed
  <1>6. v \in 0 .. node.fw
    BY <1>2, ReplyNumbers DEF BuildsInv, InOrder, DeviceInv
  <1> QED BY <1>1, <1>4, <1>5, <1>6 DEF BuildsInv

LEMMA RunBuilds ==
    ASSUME DeviceInv, DeviceInv', BuildsInv, Run
    PROVE  BuildsInv'
  <1>1. UNCHANGED <<node, seq>> /\ (Quiet \/ Enumerate \/ Relisted)
    BY QuietSteps
  <1>2. CASE Enumerate \/ Relisted
    <2>1. Answered /\ answer' = <<>> /\ UNCHANGED <<wire, node>> /\ cache' = Swap(Listing)
      BY <1>2 DEF Enumerate, Relisted, line, world
    <2> QED BY <2>1, ReplyNumbers, BuildListed DEF DeviceInv
  <1>3. CASE DeviceInfo \/ (Refreshed /\ answer[2] # cache.info)
    <2>1. /\ Answered /\ answer' = <<>> /\ UNCHANGED <<wire, node>> /\ pc' \notin Compared
          /\ pc' \in Enumerated => pc \in Enumerated
          /\ cache' = [cache EXCEPT !.info = answer[2]]
      BY <1>3 DEF DeviceInfo, Refreshed, Call, world, Compared, Enumerated
    <2>2. cache'.entities = cache.entities /\ cache'.info = answer[2]
      BY <2>1 DEF DeviceInv, TypeOK, CacheTyped
    <2> QED BY <2>1, <2>2, BuildSeen
  <1>4. CASE ~(Enumerate \/ Relisted \/ DeviceInfo \/ (Refreshed /\ answer[2] # cache.info))
    <2>1. cache'.entities = cache.entities /\ wire' \in {wire, <<>>}
      BY <1>1, <1>4 DEF Quiet
    <2>2. answer' \in {answer, <<>>}
      BY <1>4 DEF Run, WakeUp, DialSucceeds, DialFails, Authenticated, AuthFails, Subscribe, SubscribeFails, CallFails,
                  Leave, Ping, PingUnanswered, PingDelayed, MissPing, RefreshDue, RefreshFails, Refreshed, Ended, Exit,
                  Hangup, Call, client
    <2>3. (pc' \in Compared => pc \in Compared) /\ (pc' \in Enumerated => pc \in Enumerated)
      BY <1>4 DEF Run, WakeUp, DialSucceeds, DialFails, Authenticated, AuthFails, Subscribe, SubscribeFails, CallFails,
                  Leave, Ping, PingUnanswered, PingDelayed, MissPing, RefreshDue, RefreshFails, Refreshed, Ended, Exit,
                  Hangup, Compared, Enumerated
    <2>4. cache'.info = cache.info
      <3>1. CASE Subscribe \/ Ended
        BY <3>1 DEF Subscribe, Ended, DeviceInv, TypeOK, CacheTyped
      <3>2. CASE ~(Subscribe \/ Ended)
        BY <1>4, <3>2
           DEF Run, WakeUp, DialSucceeds, DialFails, Authenticated, AuthFails, SubscribeFails, CallFails, Leave, Ping,
               PingUnanswered, PingDelayed, MissPing, RefreshDue, RefreshFails, Refreshed, Exit
      <3> QED BY <3>1, <3>2
    <2>5. \A i \in Replies' : i \in Replies /\ wire'[i] = wire[i] /\ i \in Nat
      BY <2>1, ReplyNumbers DEF DeviceInv, Replies
    <2> QED BY <1>1, <2>1, <2>2, <2>3, <2>4, <2>5, BuildsStay
  <1> QED BY <1>2, <1>3, <1>4

\* The oldest answer in transit is handed to the call that waits for one, or dropped.
LEMMA ReaderBuilds ==
    ASSUME DeviceInv, BuildsInv, Reader
    PROVE  BuildsInv'
  <1>1. wire # <<>> /\ wire' = Tail(wire) /\ UNCHANGED <<node, pc>>
    BY DEF Reader, DeliverState, DeliverBye, DeliverEof, DeliverAnswer, Arrives, world
  <1>2. cache'.entities = cache.entities /\ cache'.info = cache.info
    <2>1. CASE DeliverState
      BY <2>1, HeadState, PutFacts DEF DeviceInv
    <2> QED BY <2>1 DEF Reader, DeliverBye, DeliverEof, DeliverAnswer
  <1>3. answer' = answer \/ (~Answered /\ answer' = wire[1] /\ 1 \in Replies)
    <2>1. Head(wire) = wire[1] /\ 1 \in DOMAIN wire
      BY <1>1, TailFacts DEF DeviceInv
    <2> QED BY <2>1 DEF Reader, DeliverState, DeliverBye, DeliverEof, DeliverAnswer, Arrives, Replies, client
  <1>4. \A i \in Replies' : i \in Nat /\ 1 < i + 1 /\ i + 1 \in Replies /\ wire'[i] = wire[i + 1]
    <2> SUFFICES ASSUME NEW i \in Replies'
                 PROVE  i \in Nat /\ 1 < i + 1 /\ i + 1 \in Replies /\ wire'[i] = wire[i + 1]
      OBVIOUS
    <2>1. i \in DOMAIN Tail(wire) /\ i \in Nat /\ i + 1 \in DOMAIN wire /\ wire'[i] = wire[i + 1]
      BY <1>1, TailFacts DEF DeviceInv, Replies
    <2>2. i # 0
      BY <1>1, <2>1 DEF DeviceInv, TypeOK, NodeTyped
    <2> QED BY <2>1, <2>2 DEF Replies
  <1>5. \A i, j \in Replies' : i < j => wire'[i][2] <= wire'[j][2]
    <2> SUFFICES ASSUME NEW i \in Replies', NEW j \in Replies', i < j
                 PROVE  wire'[i][2] <= wire'[j][2]
      OBVIOUS
    <2>1. i + 1 < j + 1
      BY <1>4
    <2> QED BY <1>4, <2>1 DEF BuildsInv, InOrder
  <1>6. InOrder'
    <2>1. Answered' => /\ cache'.info <= answer'[2] /\ answer'[2] <= node'.fw
                       /\ \A i \in Replies' : answer'[2] <= wire'[i][2]
      <3>1. CASE answer' = answer
        BY <1>1, <1>2, <1>4, <3>1 DEF BuildsInv, InOrder, Answered
      <3>2. CASE answer' = wire[1] /\ 1 \in Replies
        BY <1>1, <1>2, <1>4, <3>2 DEF BuildsInv, InOrder
      <3> QED BY <1>3, <3>1, <3>2
    <2> QED BY <1>1, <1>2, <1>4, <1>5, <2>1 DEF BuildsInv, InOrder
  <1>7. PICK v \in 0 .. node.fw : Listed(v)
    BY DEF BuildsInv
  <1>8. Listed(v)'
    <2>1. Answered' => v <= answer'[2]
      BY <1>3, <1>7 DEF Listed, Answered
    <2> QED BY <1>1, <1>2, <1>4, <1>7, <2>1 DEF Listed, ListOf
  <1> QED BY <1>1, <1>6, <1>7, <1>8 DEF BuildsInv

LEMMA NodeBuilds ==
    ASSUME DeviceInv, DeviceInv', OrderInv, BuildsInv, Node
    PROVE  BuildsInv'
  <1>1. \A i \in Replies' : i \in Nat
    BY DEF DeviceInv, TypeOK, NodeTyped, Replies
  <1>2. Replies \subseteq DOMAIN wire
    BY DEF Replies
  <1>3. CASE Dump
    <2>1. /\ UNCHANGED <<cache, node, pc, answer>> /\ Replies' = Replies
          /\ \A i \in Replies : wire'[i] = wire[i]
      BY <1>3, DumpedFacts
    <2> QED BY <1>1, <2>1, BuildsStay
  <1>4. ASSUME NEW k \in Keys, Report(k)
        PROVE  BuildsInv'
    <2>1. /\ UNCHANGED <<cache, pc, answer>> /\ Replies' = Replies /\ node'.fw = node.fw
          /\ \A i \in Replies : wire'[i] = wire[i]
      BY <1>4, ReportFacts
    <2> QED BY <1>1, <2>1, BuildsStay
  <1>5. CASE ~Dump /\ \A k \in Keys : ~Report(k)
    <2>1. /\ UNCHANGED <<cache, pc, answer>> /\ node'.fw \in {node.fw, node.fw + 1}
          /\ \A i \in Replies' : \/ i \in Replies /\ wire'[i] = wire[i]
                                 \/ wire'[i][2] = node.fw /\ \A j \in Replies : j < i
      BY <1>2, <1>5, WordsFacts
    <2> QED BY <1>1, <2>1, BuildsStay
  <1> QED BY <1>3, <1>4, <1>5

\* A device that is shown as connected has a session, or the loop is about to see it end.
ShownInv == cache.connected /\ ~cancelled => pc \in Serving \cup {"ended"}

LEMMA NextShown == DeviceInv /\ ShownInv /\ [Next]_vars => ShownInv'
  <1> SUFFICES ASSUME DeviceInv, ShownInv, [Next]_vars PROVE ShownInv'
    OBVIOUS
  <1>1. cancelled => cancelled'
    BY DEF Next, Run, WakeUp, DialSucceeds, DialFails, Authenticated, AuthFails, DeviceInfo, Enumerate, Subscribe,
           SubscribeFails, CallFails, Leave, Ping, PingUnanswered, PingDelayed, MissPing, RefreshDue, RefreshFails,
           Refreshed, Relisted, Ended, Exit, Reader, DeliverState, DeliverBye, DeliverEof, DeliverAnswer, Node, Answer,
           Dump, Report, Reboot, PowerLoss, Reset, Flash, Boot, Cancel, vars
  <1>2. CASE cache'.connected = cache.connected
    <2>1. pc \in Serving \cup {"ended"} => pc' \in Serving \cup {"ended"} \/ Ended
      BY DEF Next, Run, WakeUp, DialSucceeds, DialFails, Authenticated, AuthFails, DeviceInfo, Enumerate, Subscribe,
             SubscribeFails, CallFails, Leave, Ping, PingUnanswered, PingDelayed, MissPing, RefreshDue, RefreshFails,
             Refreshed, Relisted, Exit, Reader, DeliverState, DeliverBye, DeliverEof, DeliverAnswer, Node, Answer,
             Dump, Report, Reboot, PowerLoss, Reset, Flash, Boot, Cancel, vars, Hangup, Serving, client
    <2>2. CASE Ended
      <3>1. cancelled \/ ~cache'.connected
        BY <2>2 DEF Ended, DeviceInv, TypeOK, CacheTyped
      <3> QED BY <1>1, <3>1 DEF ShownInv
    <2> QED BY <1>1, <1>2, <2>1, <2>2 DEF ShownInv
  <1>3. CASE cache'.connected # cache.connected
    <2>1. Subscribe \/ Ended
      <3>1. Enumerate \/ Relisted => cache'.connected = cache.connected
        BY SwapFacts, AnswerTyped, VersionsAre DEF Enumerate, Relisted, Listing, DeviceInv
      <3>2. DeliverState => cache'.connected = cache.connected
        BY HeadState, PutFacts DEF DeviceInv
      <3>3. DeviceInfo \/ Refreshed => cache'.connected = cache.connected
        BY DEF DeviceInfo, Refreshed, DeviceInv, TypeOK, CacheTyped
      <3> QED BY <1>3, <3>1, <3>2, <3>3
              DEF Next, Run, WakeUp, DialSucceeds, DialFails, Authenticated, AuthFails, SubscribeFails, CallFails, Leave,
                  Ping, PingUnanswered, PingDelayed, MissPing, RefreshDue, RefreshFails, Exit, Reader, DeliverBye,
                  DeliverEof, DeliverAnswer, Node, Answer, Dump, Report, Reboot, PowerLoss, Reset, Flash, Boot, Cancel, vars
    <2>2. CASE Subscribe
      BY <2>2 DEF Subscribe, ShownInv, Serving
    <2>3. CASE Ended
      <3>1. ~cache'.connected
        BY <1>3, <2>3 DEF Ended, DeviceInv, TypeOK, CacheTyped
      <3> QED BY <3>1 DEF ShownInv
    <2> QED BY <2>1, <2>2, <2>3
  <1> QED BY <1>2, <1>3

LEMMA NextBuilds == DeviceInv /\ OrderInv /\ BuildsInv /\ [Next]_vars => BuildsInv'
  <1> SUFFICES ASSUME DeviceInv, OrderInv, BuildsInv, [Next]_vars PROVE BuildsInv'
    OBVIOUS
  <1>1. DeviceInv'
    BY NextDevice
  <1>2. CASE Cancel \/ UNCHANGED vars
    <2>1. UNCHANGED <<cache, node, answer, pc, wire>>
      BY <1>2 DEF Cancel, vars, client, line, world
    <2>2. Replies' = Replies
      BY <2>1 DEF Replies
    <2> QED BY <2>1, <2>2, ReplyNumbers, BuildsStay DEF DeviceInv
  <1> QED BY <1>1, <1>2, RunBuilds, ReaderBuilds, NodeBuilds DEF Next

LEMMA InitBuilds == Init => BuildsInv /\ ShownInv
  <1> SUFFICES ASSUME Init PROVE BuildsInv /\ ShownInv
    OBVIOUS
  <1>1. Replies = {} /\ ~Answered /\ cache.info = 0 /\ node.fw = 1
    BY DEF Init, Replies, Answered
  <1>2. Listed(0) /\ 0 \in 0 .. node.fw
    BY <1>1 DEF Init, Listed, ListOf, Compared, Enumerated
  <1>3. InOrder
    BY <1>1 DEF InOrder
  <1> QED BY <1>2, <1>3 DEF Init, BuildsInv, ShownInv

\* device.session and refresh: the entities are those of one build, between the one last seen and the
\* node's own, and the answers in transit come in the order of the builds.
THEOREM BuildsInvariant == Spec => [](DeviceInv /\ OrderInv /\ BuildsInv /\ ShownInv)
  BY InitDevice, NextDevice, InitOrder, NextOrder, InitBuilds, NextBuilds, NextShown, PTL DEF Spec

\* device.session and pump: a device is shown as connected only while a session runs, with
\* the entities of a build between the last one seen and the node's own.
THEOREM ConnectedStaysEnumerated == Spec => []ConnectedIsEnumerated
  <1>1. DeviceInv /\ BuildsInv /\ ShownInv => ConnectedIsEnumerated
    <2> SUFFICES ASSUME DeviceInv, BuildsInv, ShownInv, cache.connected, ~cancelled
                 PROVE  /\ pc \in Serving \cup {"ended"}
                        /\ pc # "relist" /\ pc # "ended" =>
                             \E v \in cache.info .. node.fw : cache.entities = Truncate(Firmwares[v])
      BY DEF ConnectedIsEnumerated
    <2>1. PICK v \in 0 .. node.fw : Listed(v)
      BY DEF BuildsInv
    <2>2. pc \in Serving \cup {"ended"}
      BY DEF ShownInv
    <2>3. ASSUME pc # "relist", pc # "ended"
          PROVE  \E w \in cache.info .. node.fw : cache.entities = Truncate(Firmwares[w])
      <3>1. cache.info <= v /\ v # 0
        BY <2>1, <2>2, <2>3 DEF Listed, Compared, Enumerated, Serving
      <3>2. v \in cache.info .. node.fw /\ cache.entities = Truncate(Firmwares[v])
        BY <2>1, <3>1, ReplyNumbers DEF DeviceInv, Listed, ListOf
      <3> QED BY <3>2
    <2> QED BY <2>2, <2>3
  <1> QED BY <1>1, BuildsInvariant, PTL

-----------------------------------------------------------------------------
(* Nothing the node has said is lost *)

\* No enumeration to come is that of build v.
Past(v) == /\ v < node.fw
           /\ \A i \in Replies : v < wire[i][2]
           /\ Answered => v < answer[2]

Dropped(k) == \A v \in Versions : k \in Truncate(Firmwares[v]) => Past(v)

\* The node's reading is on its way, or kept; or its entity was dropped for good.
Told(k) ==
    \/ node.reading[k] = 0
    \/ \E i \in About(k) : wire[i][3] = node.reading[k]
    \/ Kept(k) = node.reading[k]
    \/ Kept(k) = 0 /\ k \notin cache.entities /\ About(k) = {} /\ Dropped(k)

LatestInv == link = "live" /\ dump = "sent" => \A k \in Keys : Told(k)

SubscribedInv == dump # "none" => pc \in Serving

LEMMA NextSubscribed == SubscribedInv /\ [Next]_vars => SubscribedInv'
  <1> SUFFICES ASSUME SubscribedInv, [Next]_vars PROVE SubscribedInv'
    OBVIOUS
  <1>1. CASE Run
    BY <1>1 DEF SubscribedInv, Run, WakeUp, DialSucceeds, DialFails, Authenticated, AuthFails, DeviceInfo, Enumerate,
                Subscribe, SubscribeFails, CallFails, Leave, Ping, PingUnanswered, PingDelayed, MissPing, RefreshDue,
                RefreshFails, Refreshed, Relisted, Ended, Exit, Hangup, Serving, line
  <1>2. CASE Reader \/ Node \/ Cancel \/ UNCHANGED vars
    BY <1>2 DEF SubscribedInv, Reader, DeliverState, DeliverBye, DeliverEof, DeliverAnswer, Node, Answer, Dump, Report,
                Reboot, PowerLoss, Reset, Flash, Boot, Cancel, vars, line
  <1> QED BY <1>1, <1>2 DEF Next

LEMMA PastStays ==
    ASSUME DeviceInv, NEW v \in Versions, Past(v), node'.fw \in {node.fw, node.fw + 1},
           answer' \in {answer, <<>>} \/ \E i \in Replies : answer' = wire[i],
           \A i \in Replies' : wire'[i][2] = node.fw \/ \E j \in Replies : wire'[i] = wire[j]
    PROVE  Past(v)'
  <1>1. node.fw \in Nat /\ v \in Nat
    BY ReplyNumbers, VersionsAre DEF DeviceInv
  <1>2. v < node'.fw
    BY <1>1 DEF Past
  <1>3. \A i \in Replies' : v < wire'[i][2]
    BY DEF Past
  <1>4. Answered' => v < answer'[2]
    BY DEF Past, Answered
  <1> QED BY <1>2, <1>3, <1>4 DEF Past

\* A step that leaves the states in the cache and on the wire.
LEMMA ToldStays ==
    ASSUME DeviceInv, NEW k \in Keys, Told(k),
           cache'.entities = cache.entities, cache'.states = cache.states, cache'.orphans = cache.orphans,
           node'.reading[k] \in {0, node.reading[k]},
           About(k)' = About(k), \A i \in About(k) : wire'[i] = wire[i],
           \A v \in Versions : Past(v) => Past(v)'
    PROVE  Told(k)'
  <1>1. Kept(k)' = Kept(k)
    BY DEF Kept
  <1>2. Dropped(k) => Dropped(k)'
    BY DEF Dropped
  <1> QED BY <1>1, <1>2 DEF Told

LEMMA RunLatest ==
    ASSUME NoneReturns, DeviceInv, OrderInv, BuildsInv, SubscribedInv, LatestInv, Run
    PROVE  LatestInv'
  <1> SUFFICES ASSUME link' = "live", dump' = "sent"
               PROVE  \A k \in Keys : Told(k)'
    BY DEF LatestInv
  <1>1. UNCHANGED <<link, dump, wire, node, seq>>
    BY DEF Run, WakeUp, DialSucceeds, DialFails, Authenticated, AuthFails, DeviceInfo, Enumerate, Subscribe,
           SubscribeFails, CallFails, Leave, Ping, PingUnanswered, PingDelayed, MissPing, RefreshDue, RefreshFails,
           Refreshed, Relisted, Ended, Exit, Hangup, line, world
  <1>2. \A k \in Keys : Told(k) /\ About(k)' = About(k)
    BY <1>1 DEF LatestInv, About
  <1>3. Replies' = Replies
    BY <1>1 DEF Replies
  <1>4. answer' \in {answer, <<>>}
    BY DEF Run, WakeUp, DialSucceeds, DialFails, Authenticated, AuthFails, DeviceInfo, Enumerate, Subscribe,
           SubscribeFails, CallFails, Leave, Ping, PingUnanswered, PingDelayed, MissPing, RefreshDue, RefreshFails,
           Refreshed, Relisted, Ended, Exit, Hangup, Call, client
  <1>5. \A v \in Versions : Past(v) => Past(v)'
    BY <1>1, <1>3, <1>4, PastStays
  <1>6. CASE Quiet
    BY <1>1, <1>2, <1>5, <1>6, ToldStays DEF Quiet
  <1>7. CASE Enumerate \/ Relisted
    <2>1. Answered /\ answer' = <<>> /\ cache' = Swap(Listing)
      BY <1>7 DEF Enumerate, Relisted
    <2> DEFINE w == answer[2]
    <2>2. w \in Versions /\ w \in Nat /\ Listing = Firmwares[w] /\ Listing \in SUBSET Keys
      BY <2>1, ReplyNumbers, VersionsAre DEF DeviceInv, Listing
    <2>3. PICK u \in 0 .. node.fw : Listed(u)
      BY DEF BuildsInv
    <2>4. u <= w /\ w <= node.fw /\ \A i \in Replies : w <= wire[i][2]
      BY <2>1, <2>3 DEF Listed, BuildsInv, InOrder
    <2>5. ~Answered'
      BY <2>1 DEF Answered
    <2> SUFFICES ASSUME NEW k \in Keys
                 PROVE  Told(k)'
      OBVIOUS
    <2>6. Kept(k)' = IF k \in cache.entities /\ k \notin Truncate(Listing) THEN 0 ELSE Kept(k)
      BY <2>1, <2>2, SwapKept DEF DeviceInv, OrderInv
    <2>7. cache'.entities = Truncate(Firmwares[w])
      BY <2>1, <2>2, SwapFacts DEF DeviceInv
    <2>8. CASE k \in cache.entities /\ k \notin Truncate(Listing)
      <3>1. u # 0 /\ k \in Truncate(Firmwares[u]) /\ u < w
        BY <2>2, <2>3, <2>4, <2>8, ReplyNumbers DEF Listed, ListOf, DeviceInv
      <3>2. u \in Versions
        BY <2>2, <2>4, <3>1, VersionsAre
      <3>3. \A v \in Versions : k \in Truncate(Firmwares[v]) => v < w
        <4> SUFFICES ASSUME NEW v \in Versions, k \in Truncate(Firmwares[v])
                     PROVE  v < w
          OBVIOUS
        <4>1. v \in Nat
          BY VersionsAre
        <4>2. k \notin Truncate(Firmwares[w])
          BY <2>2, <2>8
        <4>3. v # w
          BY <4>2
        <4>4. ~(w < v)
          <5> SUFFICES ASSUME w < v
                       PROVE  FALSE
            OBVIOUS
          <5>1. w \in Versions /\ u < w /\ k \in Truncate(Firmwares[u])
            BY <2>2, <3>1
          <5> HIDE DEF w
          <5>2. Truncate(Firmwares[u]) \cap Truncate(Firmwares[v]) \subseteq Truncate(Firmwares[w])
            BY <3>2, <5>1 DEF NoneReturns
          <5> QED BY <4>2, <5>1, <5>2
        <4> HIDE DEF w
        <4> QED BY <2>2, <4>1, <4>3, <4>4
      <3>4. \A v \in Versions : v < w => Past(v)'
        <4> SUFFICES ASSUME NEW v \in Versions, v < w
                     PROVE  Past(v)'
          OBVIOUS
        <4>1. v \in Nat /\ v < node.fw /\ \A i \in Replies : v < wire[i][2]
          BY <2>2, <2>4, VersionsAre, ReplyNumbers DEF DeviceInv
        <4> QED BY <1>1, <1>3, <2>5, <4>1 DEF Past
      <3>5. Dropped(k)'
        BY <3>3, <3>4 DEF Dropped
      <3>6. ASSUME NEW i \in About(k), node.reading[k] # 0
            PROVE  Kept(k) = node.reading[k] => wire[i][3] = node.reading[k]
        BY <3>6, Numbers DEF DeviceInv, OrderInv, Ordered
      <3>7. node.reading[k] = 0 \/ (\E i \in About(k) : wire[i][3] = node.reading[k]) \/ About(k) = {}
        BY <1>2, <2>8, <3>6 DEF Told
      <3> QED BY <1>1, <1>2, <2>2, <2>6, <2>7, <2>8, <3>5, <3>7 DEF Told
    <2>9. CASE ~(k \in cache.entities /\ k \notin Truncate(Listing))
      <3>1. Kept(k)' = Kept(k)
        BY <2>6, <2>9
      <3>2. Dropped(k) => k \notin Truncate(Firmwares[w]) /\ Dropped(k)'
        BY <1>5, <2>1, <2>2 DEF Dropped, Past
      <3> QED BY <1>1, <1>2, <2>7, <3>1, <3>2 DEF Told
    <2> QED BY <2>8, <2>9
  <1> QED BY <1>6, <1>7, QuietSteps

\* A state whose entity is not listed finds room.
LEMMA OrphanFits ==
    ASSUME OrphansFit, DeviceInv, OrderInv, BuildsInv, pc \in Serving,
           NEW k \in Keys, NEW v \in Nat, v # 0, PutState(k, v)
    PROVE  Kept(k)' = v
  <1>1. CASE k \in cache.entities
    BY <1>1, PutFacts DEF DeviceInv, Kept
  <1>2. CASE k \notin cache.entities
    <2> DEFINE orphaned == {j \in Keys : cache.orphans[j] # 0}
    <2>1. PICK u \in 0 .. node.fw : Listed(u)
      BY DEF BuildsInv
    <2>2. u # 0 /\ u \in Versions /\ cache.entities = Truncate(Firmwares[u])
      BY <2>1, VersionsAre, ReplyNumbers DEF Listed, ListOf, Enumerated, Compared, Serving, DeviceInv
    <2>3. orphaned \in SUBSET (Keys \ Truncate(Firmwares[u]))
      BY <2>2 DEF OrderInv, OneMap
    <2>4. IsFiniteSet(Keys \ Truncate(Firmwares[u]))
      BY DeviceAssumption, FS_Subset
    <2>5. /\ Cardinality(orphaned) <= Cardinality(Keys \ Truncate(Firmwares[u]))
          /\ Cardinality(orphaned) \in Nat /\ Cardinality(Keys \ Truncate(Firmwares[u])) \in Nat
      BY <2>3, <2>4, FS_Subset, FS_CardinalityType
    <2>6. Cardinality(orphaned) < MaxOrphans
      BY <2>2, <2>5, Bounds DEF OrphansFit
    <2>7. cache' = [cache EXCEPT !.orphans[k] = v]
      BY <1>2, <2>6 DEF PutState
    <2> QED BY <1>2, <2>7 DEF Kept, DeviceInv, TypeOK, CacheTyped, Readings
  <1> QED BY <1>1, <1>2

LEMMA ReaderLatest ==
    ASSUME OrphansFit, DeviceInv, OrderInv, BuildsInv, SubscribedInv, LatestInv, Reader
    PROVE  LatestInv'
  <1> SUFFICES ASSUME link' = "live", dump' = "sent", NEW k \in Keys
               PROVE  Told(k)'
    BY DEF LatestInv
  <1>1. wire # <<>> /\ wire' = Tail(wire) /\ UNCHANGED <<node, pc, link, dump>>
    BY DEF Reader, DeliverState, DeliverBye, DeliverEof, DeliverAnswer, Arrives, world
  <1>2. Told(k) /\ pc \in Serving
    BY <1>1 DEF LatestInv, SubscribedInv
  <1>3. /\ \A i \in About(k)' : i + 1 \in About(k) /\ wire'[i] = wire[i + 1]
        /\ \A i \in About(k) : i # 1 => i - 1 \in About(k)' /\ wire'[i - 1] = wire[i]
    BY <1>1, TailAbout, TailFacts DEF DeviceInv, About
  <1>4. \A i \in Replies' : \E j \in Replies : wire'[i] = wire[j]
    BY <1>1, TailFacts DEF DeviceInv, Replies
  <1>5. answer' = answer \/ \E i \in Replies : answer' = wire[i]
    <2>1. Head(wire) = wire[1] /\ 1 \in DOMAIN wire
      BY <1>1, TailFacts DEF DeviceInv
    <2> QED BY <2>1 DEF Reader, DeliverState, DeliverBye, DeliverEof, DeliverAnswer, Arrives, Replies, client
  <1>6. Dropped(k) => Dropped(k)'
    BY <1>1, <1>4, <1>5, PastStays DEF Dropped
  <1>7. CASE Kept(k)' = Kept(k) /\ 1 \notin About(k) /\ cache'.entities = cache.entities
    <2>1. (\E i \in About(k) : wire[i][3] = node.reading[k]) => \E i \in About(k)' : wire'[i][3] = node'.reading[k]
      BY <1>1, <1>3, <1>7
    <2> QED BY <1>1, <1>2, <1>3, <1>6, <1>7, <2>1 DEF Told
  <1>8. CASE DeliverState
    <2>1. PICK j \in Keys : /\ 1 \in About(j) /\ wire[1][3] \in Nat /\ wire[1][3] # 0
                            /\ PutState(j, wire[1][3])
      BY <1>8, HeadState DEF DeviceInv
    <2>2. cache'.entities = cache.entities
      BY <2>1, PutFacts DEF DeviceInv
    <2>3. CASE j = k
      <3>1. Kept(k)' = wire[1][3]
        BY <1>2, <2>1, <2>3, OrphanFits
      <3>2. node.reading[k] # 0 => Kept(k) <= wire[1][3] /\ wire[1][3] <= node.reading[k]
        BY <2>1, <2>3 DEF OrderInv, Ordered
      <3>3. CASE wire[1][3] = node.reading[k]
        BY <1>1, <3>1, <3>3 DEF Told
      <3>4. CASE wire[1][3] # node.reading[k] /\ node.reading[k] # 0
        <4>1. Kept(k) # node.reading[k] /\ About(k) # {}
          BY <2>1, <2>3, <3>2, <3>4, Numbers DEF DeviceInv
        <4>2. PICK i \in About(k) : wire[i][3] = node.reading[k]
          BY <1>2, <3>4, <4>1 DEF Told
        <4>3. i - 1 \in About(k)' /\ wire'[i - 1][3] = node'.reading[k]
          BY <1>1, <1>3, <3>4, <4>2
        <4> QED BY <4>3 DEF Told
      <3>5. CASE node.reading[k] = 0
        BY <1>1, <3>5 DEF Told
      <3> QED BY <3>3, <3>4, <3>5
    <2>4. CASE j # k
      <3>1. Kept(k)' = Kept(k)
        BY <2>1, <2>2, <2>4, PutFacts DEF DeviceInv, Kept
      <3>2. 1 \notin About(k)
        BY <2>1, <2>4 DEF About
      <3> QED BY <1>7, <2>2, <3>1, <3>2
    <2> QED BY <2>3, <2>4
  <1>9. CASE ~DeliverState
    <2>1. cache' = cache /\ Head(wire)[1] # "state"
      BY <1>9 DEF Reader, DeliverBye, DeliverEof, DeliverAnswer, Arrives
    <2>2. 1 \notin About(k)
      BY <1>1, <2>1, TailFacts DEF DeviceInv, About
    <2> QED BY <1>7, <2>1, <2>2 DEF Kept
  <1> QED BY <1>8, <1>9

LEMMA NodeLatest ==
    ASSUME DeviceInv, DeviceInv', OrderInv, BuildsInv, LatestInv, Node
    PROVE  LatestInv'
  <1> SUFFICES ASSUME link' = "live", dump' = "sent", NEW k \in Keys
               PROVE  Told(k)'
    BY DEF LatestInv
  <1>1. CASE Dump
    BY <1>1, DumpedFacts DEF Told
  <1>2. ASSUME NEW j \in Keys, Report(j)
        PROVE  Told(k)'
    <2>1. /\ cache' = cache /\ UNCHANGED <<link, dump, answer>> /\ node'.fw = node.fw /\ Replies' = Replies
          /\ \A i \in Replies : wire'[i] = wire[i]
      BY <1>2, ReportFacts
    <2>2. CASE j = k
      BY <1>2, <2>1, <2>2, ReportFacts DEF Told
    <2>3. CASE j # k
      <3>1. node'.reading[k] = node.reading[k]
        BY <1>2, <2>3, ReportFacts
      <3>2. About(k)' = About(k) /\ \A i \in About(k) : wire'[i] = wire[i]
        BY <1>2, <2>3, ReportFacts
      <3>3. \A v \in Versions : Past(v) => Past(v)'
        BY <2>1, PastStays
      <3>4. Told(k)
        BY <2>1 DEF LatestInv
      <3> QED BY <2>1, <3>1, <3>2, <3>3, <3>4, ToldStays
    <2> QED BY <2>2, <2>3
  <1>3. CASE ~Dump /\ \A j \in Keys : ~Report(j)
    <2>1. /\ UNCHANGED <<cache, answer, dump>> /\ link = "live"
          /\ node'.reading[k] \in {0, node.reading[k]} /\ node'.fw \in {node.fw, node.fw + 1}
      BY <1>3, WordsFacts
    <2>2. About(k)' = About(k) /\ \A i \in About(k) : wire'[i] = wire[i]
      BY <1>3, WordsFacts DEF About
    <2>3. \A i \in Replies' : wire'[i][2] = node.fw \/ \E j \in Replies : wire'[i] = wire[j]
      BY <1>3, WordsFacts DEF Replies
    <2>4. \A v \in Versions : Past(v) => Past(v)'
      BY <2>1, <2>3, PastStays
    <2>5. Told(k)
      BY <2>1 DEF LatestInv
    <2> QED BY <2>1, <2>2, <2>4, <2>5, ToldStays
  <1> QED BY <1>1, <1>2, <1>3

LEMMA NextLatest ==
    ASSUME OrphansFit, NoneReturns
    PROVE  DeviceInv /\ OrderInv /\ BuildsInv /\ SubscribedInv /\ LatestInv /\ [Next]_vars => LatestInv'
  <1> SUFFICES ASSUME DeviceInv, OrderInv, BuildsInv, SubscribedInv, LatestInv, [Next]_vars
               PROVE  LatestInv'
    OBVIOUS
  <1>1. DeviceInv'
    BY NextDevice
  <1>2. CASE Cancel \/ UNCHANGED vars
    <2>1. UNCHANGED <<cache, node, answer, link, dump, wire>>
      BY <1>2 DEF Cancel, vars, client, line, world
    <2>2. \A k \in Keys : Told(k)' <=> Told(k)
      BY <2>1 DEF Told, Kept, About, Dropped, Past, Replies, Answered
    <2> QED BY <2>1, <2>2 DEF LatestInv
  <1> QED BY <1>1, <1>2, RunLatest, ReaderLatest, NodeLatest DEF Next

\* device.go and cache.go: what a probe is shown is what the node has said, through dumps,
\* swaps, orphans, reboots and reconnects, provided that the orphan buffer has room and that
\* no entity is dropped by one build and back in a later one while the connection lasts.
THEOREM ShownStaysCurrent ==
    ASSUME OrphansFit, NoneReturns
    PROVE  Spec => []ShownIsCurrent
  <1>1. Init => SubscribedInv /\ LatestInv
    BY DEF Init, SubscribedInv, LatestInv
  <1>2. DeviceInv /\ OrderInv /\ LatestInv => LatestShown /\ OrphansAreLatest
    <2> SUFFICES ASSUME DeviceInv, OrderInv, LatestInv, link = "live", dump = "sent", NEW k \in Keys
                 PROVE  /\ k \in cache.entities => \/ node.reading[k] = 0
                                                   \/ cache.states[k] = node.reading[k]
                                                   \/ \E i \in DOMAIN wire : wire[i] = State(k, node.reading[k])
                        /\ \/ cache.orphans[k] = 0 \/ node.reading[k] = 0
                           \/ cache.orphans[k] = node.reading[k]
                           \/ \E i \in DOMAIN wire : wire[i] = State(k, node.reading[k])
      BY DEF LatestShown, OrphansAreLatest, DeviceInv, TypeOK, CacheTyped
    <2>1. Told(k)
      BY DEF LatestInv
    <2>2. (\E i \in About(k) : wire[i][3] = node.reading[k]) => \E i \in DOMAIN wire : wire[i] = State(k, node.reading[k])
      BY Numbers DEF DeviceInv, About
    <2>3. k \in cache.entities => cache.orphans[k] = 0
      BY DEF OrderInv, OneMap
    <2> QED BY <2>1, <2>2, <2>3 DEF Told, Kept
  <1>3. Spec => [](LatestShown /\ OrphansAreLatest)
    BY <1>1, <1>2, BuildsInvariant, NextSubscribed, NextLatest, PTL DEF Spec
  <1>4. Spec => [](ConnectedIsEnumerated /\ LatestShown /\ OrphansAreLatest)
    BY <1>3, ConnectedStaysEnumerated, PTL
  <1> QED BY <1>4, PTL DEF ShownIsCurrent
=============================================================================
