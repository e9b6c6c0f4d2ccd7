---------------------------- MODULE LimiterProofs ----------------------------
(***************************************************************************)
(* What the gates promise for every number of scrapes, devices and tokens.  *)
(* The proof carries one inductive invariant, LimiterInv, through every     *)
(* action: a step is shown to keep each of its five parts.                  *)
(***************************************************************************)
EXTENDS Limiter, FiniteSetTheorems, SequenceTheorems, WellFoundedInduction, TLAPS

-----------------------------------------------------------------------------
(* The invariant *)

\* The part of the types the rest needs.
Types ==
    /\ pc \in [Scrapes -> Steps]
    /\ dev \in [Scrapes -> Devices \cup {Nothing}]
    /\ result \in [Scrapes -> Results]
    /\ flight \in [Devices -> Scrapes \cup {Nothing}]
    /\ used \in Nat
    /\ queue \in Seq(Scrapes)
    /\ failures \in [Devices -> Nat]
    /\ cached \in [Devices -> Outcomes \cup {"none"}]
    /\ age \in [Devices -> Nat]

\* A call and its leader know each other.
Calls ==
    /\ \A s \in Scrapes :
          pc[s] \notin {"idle", "replied"} => dev[s] \in Devices
    /\ \A s \in Scrapes : pc[s] \in Leading => flight[dev[s]] = s
    /\ \A d \in Devices : flight[d] # Nothing =>
          pc[flight[d]] \in Leading /\ dev[flight[d]] = d

\* The queue lists leaders that wait for a token, each once.
Line ==
    /\ \A i \in DOMAIN queue : pc[queue[i]] = "queued"
    /\ \A i, j \in DOMAIN queue : queue[i] = queue[j] => i = j

Holders == {s \in Scrapes : pc[s] \in Holding}

\* A leader that has recorded its result, or more, has a result to store and to share.
Finished == {"recorded", "stored", "released"}

\* Between Record and store the cache lags behind the backoff state, and only then.
Story ==
    /\ \A s \in Scrapes : pc[s] \in Finished => result[s] \in Outcomes
    /\ \A s \in Scrapes : pc[s] = "recorded" =>
          (result[s] = "ok" <=> failures[dev[s]] = 0)
    /\ \A d \in Devices :
          /\ flight[d] = Nothing \/ pc[flight[d]] # "recorded"
          /\ Fresh(d)
          => (cached[d] = "ok" <=> failures[d] = 0)

LimiterInv == Types /\ Calls /\ Line /\ TokensConserved /\ Story

-----------------------------------------------------------------------------
(* What a step need not disturb *)

\* The tokens are where they were.
LEMMA SameHolders ==
    ASSUME TokensConserved, Holders' = Holders, used' = used, queue' = queue
    PROVE  TokensConserved'
BY DEF TokensConserved, Holders

\* No scrape starts or stops leading a call.
LEMMA SameCalls ==
    ASSUME Types, Calls, dev' = dev, flight' = flight,
           \A t \in Scrapes :
              /\ pc'[t] \in Leading <=> pc[t] \in Leading
              /\ pc[t] \in {"idle", "replied"} => pc'[t] \in {"idle", "replied"}
              /\ pc'[t] \in {"idle", "replied"} => pc[t] \in {"idle", "replied"}
    PROVE  Calls'
BY DEF Types, Calls

\* Nothing is recorded or stored.
LEMMA SameStory ==
    ASSUME Types, Calls, Story, dev' = dev, flight' = flight, result' = result,
           failures' = failures, cached' = cached, age' = age,
           \A t \in Scrapes :
              /\ pc'[t] \in Finished <=> pc[t] \in Finished
              /\ pc'[t] = "recorded" <=> pc[t] = "recorded"
    PROVE  Story'
BY DEF Types, Story, Fresh

\* One scrape moves on, outside the queue.
LEMMA SameLine ==
    ASSUME Types, Line, queue' = queue,
           NEW s \in Scrapes, NEW v, pc' = [pc EXCEPT ![s] = v], pc[s] # "queued"
    PROVE  Line'
BY DEF Types, Line

\* The sets of step names, written out.
LEMMA Names ==
    /\ Steps = {"idle", "allowed", "missed", "follower", "done", "replied", "leader", "queued",
                "released", "granted", "probing", "recorded", "stored"}
    /\ Leading = {"leader", "queued", "released", "granted", "probing", "recorded", "stored"}
    /\ Holding = {"granted", "probing", "recorded", "stored"}
BY DEF Steps, Leading, Holding

-----------------------------------------------------------------------------
(* Tokens and shared results *)

\* As many scrapes hold a token as TokensConserved counts.
LEMMA HoldersFinite == IsFiniteSet(Holders) /\ Cardinality(Holders) \in Nat
BY LimiterAssumption, FS_Subset, FS_CardinalityType DEF Holders

\* RemoveAt closes the gap it leaves.
LEMMA RemovedAt ==
    ASSUME NEW S, NEW q \in Seq(S), NEW k \in DOMAIN q
    PROVE  /\ RemoveAt(q, k) \in Seq(S)
           /\ Len(RemoveAt(q, k)) = Len(q) - 1
           /\ \A i \in DOMAIN RemoveAt(q, k) :
                 RemoveAt(q, k)[i] = IF i < k THEN q[i] ELSE q[i + 1]
<1> DEFINE a == SubSeq(q, 1, k - 1)
           b == SubSeq(q, k + 1, Len(q))
<1>1. k \in 1 .. Len(q) /\ Len(q) \in Nat
  OBVIOUS
<1>2. /\ a \in Seq(S) /\ Len(a) = k - 1
      /\ \A i \in 1 .. k - 1 : a[i] = q[i]
  BY <1>1
<1>3. /\ b \in Seq(S) /\ Len(b) = Len(q) - k
      /\ \A i \in 1 .. Len(q) - k : b[i] = q[k + i]
  BY <1>1
<1> HIDE DEF a, b
<1>4. /\ a \o b \in Seq(S) /\ Len(a \o b) = Len(q) - 1
      /\ \A i \in 1 .. Len(q) - 1 :
            (a \o b)[i] = IF i < k THEN a[i] ELSE b[i - (k - 1)]
  <2>1. a \o b \in Seq(S) /\ Len(a \o b) = Len(a) + Len(b)
    BY <1>2, <1>3, ConcatProperties
  <2>2. Len(a) + Len(b) = Len(q) - 1
    BY <1>1, <1>2, <1>3
  <2>3. \A i \in 1 .. Len(a) + Len(b) :
           (a \o b)[i] = IF i <= Len(a) THEN a[i] ELSE b[i - Len(a)]
    BY <1>2, <1>3, ConcatProperties
  <2>4. ASSUME NEW i \in 1 .. Len(q) - 1
        PROVE  (a \o b)[i] = IF i < k THEN a[i] ELSE b[i - (k - 1)]
    <3>1. (i <= Len(a)) <=> (i < k)
      BY <1>1, <1>2
    <3>2. (a \o b)[i] = IF i <= Len(a) THEN a[i] ELSE b[i - Len(a)]
      BY <2>2, <2>3
    <3> QED BY <1>2, <3>1, <3>2
  <2> QED BY <2>1, <2>2, <2>4
<1>5. RemoveAt(q, k) = a \o b
  BY DEF RemoveAt, a, b
<1>6. ASSUME NEW i \in 1 .. Len(q) - 1
      PROVE  (a \o b)[i] = IF i < k THEN q[i] ELSE q[i + 1]
  <2>1. CASE i < k
    BY <1>1, <1>2, <1>4, <2>1
  <2>2. CASE ~(i < k)
    <3>1. i - (k - 1) \in 1 .. Len(q) - k /\ k + (i - (k - 1)) = i + 1
      BY <1>1, <2>2
    <3> QED BY <1>3, <1>4, <2>2, <3>1
  <2> QED BY <2>1, <2>2
<1>7. DOMAIN (a \o b) = 1 .. Len(q) - 1
  BY <1>4
<1> QED BY <1>4, <1>5, <1>6, <1>7

\* A released token is free, or the head of the queue has it.
LEMMA HandOverStep ==
    ASSUME Types, Line, TokensConserved, NEW s \in Scrapes,
           NEW at \in {"leader", "released"}, pc[s] \in Holding, HandOver(s, at)
    PROVE  /\ pc' \in [Scrapes -> Steps] /\ used' \in Nat /\ queue' \in Seq(Scrapes)
           /\ pc'[s] = at
           /\ \A t \in Scrapes \ {s} : \/ pc'[t] = pc[t]
                                       \/ pc[t] = "queued" /\ pc'[t] = "granted"
           /\ Line' /\ TokensConserved'
<1>1. MaxConcurrent \in Nat \ {0}
  BY LimiterAssumption
<1>2. s \in Holders /\ Cardinality(Holders \ {s}) = used - 1 /\ used \in Nat \ {0}
  <2>1. s \in Holders
    BY DEF Holders
  <2>2. Cardinality(Holders \ {s}) = Cardinality(Holders) - 1
    BY <2>1, HoldersFinite, FS_RemoveElement
  <2>3. Cardinality(Holders \ {s}) \in Nat
    BY HoldersFinite, FS_RemoveElement, FS_CardinalityType
  <2> QED BY <2>1, <2>2, <2>3 DEF TokensConserved, Holders, Types
<1>3. CASE queue = <<>>
  <2>1. used' = used - 1 /\ queue' = queue /\ pc' = [pc EXCEPT ![s] = at]
    BY <1>3 DEF HandOver
  <2>2. Holders' = Holders \ {s}
    BY <2>1 DEF Types, Holders, Holding
  <2>3. TokensConserved'
    <3>1. used' = Cardinality(Holders') /\ used' <= MaxConcurrent /\ queue' = <<>>
      BY <1>1, <1>2, <1>3, <2>1, <2>2 DEF TokensConserved
    <3> QED BY <3>1 DEF TokensConserved, Holders
  <2>4. Line'
    BY <1>3, <2>1 DEF Line
  <2>5. pc' \in [Scrapes -> Steps]
    BY <2>1, Names DEF Types
  <2> QED BY <1>2, <2>1, <2>3, <2>4, <2>5 DEF Types
<1>4. CASE queue # <<>>
  <2> DEFINE h == Head(queue)
  <2>1. /\ used' = used /\ queue' = Tail(queue)
        /\ pc' = [pc EXCEPT ![s] = at, ![h] = "granted"]
    BY <1>4 DEF HandOver
  <2>2. h = queue[1] /\ 1 \in DOMAIN queue /\ h \in Scrapes
    BY <1>4 DEF Types
  <2>3. pc[h] = "queued" /\ h # s
    BY <2>2 DEF Line, Holding
  <2>4. /\ queue' \in Seq(Scrapes)
        /\ \A i \in DOMAIN queue' : i + 1 \in DOMAIN queue /\ queue'[i] = queue[i + 1]
    BY <1>4, <2>1 DEF Types
  <2> HIDE DEF h
  <2>5. \A t \in Scrapes : pc'[t] = IF t = h THEN "granted" ELSE IF t = s THEN at ELSE pc[t]
    BY <2>1, <2>2, <2>3 DEF Types
  <2>6. pc' \in [Scrapes -> Steps]
    BY <2>1, Names DEF Types
  <2>7. Line'
    <3>1. \A i \in DOMAIN queue' : i \in Nat \ {0}
      BY <2>4
    <3>2. \A i \in DOMAIN queue' : queue'[i] # h /\ queue'[i] # s /\ queue'[i] \in Scrapes
      BY <2>2, <2>4, <3>1 DEF Line, Holding, Types
    <3>3. \A i \in DOMAIN queue' : pc'[queue'[i]] = "queued"
      BY <2>4, <2>5, <3>2 DEF Line
    <3>4. \A i, j \in DOMAIN queue' : queue'[i] = queue'[j] => i = j
      BY <2>4, <3>1 DEF Line
    <3> QED BY <3>3, <3>4 DEF Line
  <2>8. Holders' = (Holders \ {s}) \cup {h} /\ h \notin Holders \ {s}
    BY <2>2, <2>3, <2>5 DEF Holders, Holding
  <2>9. Cardinality(Holders') = used
    <3>1. IsFiniteSet(Holders \ {s})
      BY HoldersFinite, FS_RemoveElement
    <3>2. Cardinality((Holders \ {s}) \cup {h}) = Cardinality(Holders \ {s}) + 1
      BY <2>8, <3>1, FS_AddElement
    <3> QED BY <1>2, <2>8, <3>2
  <2>10. TokensConserved'
    BY <1>4, <2>1, <2>9 DEF TokensConserved, Holders
  <2> QED BY <2>1, <2>3, <2>4, <2>5, <2>6, <2>7, <2>10 DEF Types
<1> QED BY <1>3, <1>4

\* A call that ends without storing anything takes its followers along.
LEMMA FinishStep ==
    ASSUME Types, Calls, Story, NEW s \in Scrapes, NEW r \in Results,
           pc[s] \in {"leader", "queued", "released"}, Finish(s, r),
           dev' = dev, failures' = failures, cached' = cached, age' = age
    PROVE  /\ pc' \in [Scrapes -> Steps] /\ result' \in [Scrapes -> Results]
           /\ flight' \in [Devices -> Scrapes \cup {Nothing}]
           /\ Calls' /\ Story' /\ Holders' = Holders
           /\ \A t \in Scrapes : t # s /\ pc[t] = "queued" => pc'[t] = "queued"
<1>a. /\ dev[s] \in Devices /\ flight[dev[s]] = s
  BY Names DEF Calls
<1>b. flight' = [flight EXCEPT ![dev[s]] = Nothing]
  BY DEF Finish
<1>c. \A t \in Scrapes :
         \/ t = s /\ pc'[t] = "done"
         \/ t # s /\ pc[t] = "follower" /\ pc'[t] = "done"
         \/ t # s /\ pc'[t] = pc[t] /\ result'[t] = result[t]
  BY DEF Finish, Sharing
<1>1. pc' \in [Scrapes -> Steps]
  BY Names DEF Types, Finish
<1>2. result' \in [Scrapes -> Results]
  BY DEF Types, Finish
<1>3. flight' \in [Devices -> Scrapes \cup {Nothing}]
  BY <1>b DEF Types
<1>4. \A t \in Scrapes \ {s} : pc'[t] \in Leading <=> pc[t] \in Leading
  BY <1>c, Names
<1>5. \A t \in Scrapes \ {s} : pc[t] \in Leading => dev[t] # dev[s]
  BY <1>a DEF Calls
<1>6. Calls'
  <2>1. \A t \in Scrapes : pc'[t] \notin {"idle", "replied"} => dev'[t] \in Devices
    BY <1>a, <1>c DEF Calls
  <2>2. \A t \in Scrapes : pc'[t] \in Leading => flight'[dev'[t]] = t
    BY <1>b, <1>c, <1>4, <1>5, <2>1, Names DEF Calls, Types
  <2>3. ASSUME NEW d \in Devices, flight'[d] # Nothing
        PROVE  pc'[flight'[d]] \in Leading /\ dev'[flight'[d]] = d
    <3>1. d # dev[s] /\ flight'[d] = flight[d] /\ flight[d] # Nothing
      BY <1>a, <1>b, <2>3 DEF Types
    <3>2. flight[d] # s /\ flight[d] \in Scrapes
      BY <3>1 DEF Calls, Types
    <3> QED BY <1>4, <3>1, <3>2 DEF Calls
  <2> QED BY <2>1, <2>2, <2>3 DEF Calls
<1>7. Story'
  <2>1. \A t \in Scrapes : pc'[t] \in Finished => pc'[t] = pc[t] /\ result'[t] = result[t]
    BY <1>c DEF Finished
  <2>2. ASSUME NEW d \in Devices, flight'[d] = Nothing \/ pc'[flight'[d]] # "recorded",
               Fresh(d)'
        PROVE  cached'[d] = "ok" <=> failures'[d] = 0
    <3>1. flight[d] = Nothing \/ pc[flight[d]] # "recorded"
      <4>1. CASE d = dev[s]
        BY <1>a, <4>1
      <4>2. CASE d # dev[s] /\ flight[d] # Nothing
        <5>1. flight'[d] = flight[d] /\ flight[d] \in Scrapes
          BY <1>a, <1>b, <4>2 DEF Types
        <5> QED BY <1>c, <2>2, <4>2, <5>1, LimiterAssumption
      <4> QED BY <4>1, <4>2
    <3> QED BY <2>2, <3>1 DEF Story, Fresh
  <2>3. \A t \in Scrapes : pc'[t] \in Finished => result'[t] \in Outcomes
    BY <2>1 DEF Story
  <2>4. \A t \in Scrapes : pc'[t] = "recorded" =>
          (result'[t] = "ok" <=> failures'[dev'[t]] = 0)
    BY <2>1 DEF Story, Finished
  <2> QED BY <2>2, <2>3, <2>4 DEF Story
<1>8. Holders' = Holders
  BY <1>c DEF Holders, Holding
<1> QED BY <1>1, <1>2, <1>3, <1>6, <1>7, <1>8, <1>c

-----------------------------------------------------------------------------
(* The steps, in the order of Next *)

\* Backoff lets a scrape pass, or refuses it.
LEMMA ArriveStep ==
    ASSUME LimiterInv, NEW s \in Scrapes, NEW d \in Devices,
           NEW b \in Budgets, Arrive(s, d, b)
    PROVE  LimiterInv'
<1> USE DEF LimiterInv
<1>1. Types'
  <2>1. /\ dev' = [dev EXCEPT ![s] = d]
        /\ UNCHANGED <<flight, used, queue, failures, cached, age>>
    BY DEF Arrive, gates, memory
  <2>2. /\ pc' \in [Scrapes -> Steps]
        /\ result' \in [Scrapes -> Results]
    <3>1. CASE wait[d] > 0 /\ pc' = [pc EXCEPT ![s] = "done"]
                  /\ result' = [result EXCEPT ![s] = "backoff"]
      BY <3>1 DEF Types, Steps, Results
    <3>2. CASE pc' = [pc EXCEPT ![s] = "allowed"] /\ result' = result
      BY <3>2 DEF Types, Steps
    <3> QED BY <3>1, <3>2 DEF Arrive
  <2>3. dev' \in [Scrapes -> Devices \cup {Nothing}]
    BY <2>1 DEF Types
  <2> QED BY <2>1, <2>2, <2>3 DEF Types
<1>2. Calls'
  <2>1. /\ pc[s] = "idle" /\ pc'[s] \in {"done", "allowed"} /\ dev'[s] = d
        /\ \A t \in Scrapes : t # s => pc'[t] = pc[t] /\ dev'[t] = dev[t]
        /\ flight' = flight
    BY DEF Types, Arrive, gates
  <2>2. \A t \in Scrapes : pc'[t] \notin {"idle", "replied"} => dev'[t] \in Devices
    BY <2>1 DEF Calls
  <2>3. \A t \in Scrapes : pc'[t] \in Leading => flight'[dev'[t]] = t
    BY <2>1 DEF Calls, Leading, Holding
  <2>4. ASSUME NEW e \in Devices, flight'[e] # Nothing
        PROVE  pc'[flight'[e]] \in Leading /\ dev'[flight'[e]] = e
    <3>1. flight[e] \in Scrapes /\ pc[flight[e]] \in Leading /\ dev[flight[e]] = e
      BY <2>1, <2>4 DEF Types, Calls
    <3>2. flight[e] # s
      BY <2>1, <3>1 DEF Leading, Holding
    <3> QED BY <2>1, <3>1, <3>2
  <2> QED BY <2>2, <2>3, <2>4 DEF Calls
<1>3. Line'
  BY DEF Types, Line, Arrive, gates
<1>4. TokensConserved'
  <2>1. Holders' = Holders
    BY DEF Types, Arrive, Holders, Holding
  <2> QED BY <2>1, SameHolders DEF Arrive, gates
<1>5. Story'
  <2>1. /\ pc[s] = "idle"
        /\ \E v \in {"done", "allowed"} : pc' = [pc EXCEPT ![s] = v]
        /\ dev' = [dev EXCEPT ![s] = d]
        /\ UNCHANGED <<flight, failures, cached, age>>
    BY DEF Arrive, gates, memory
  <2>2. \A t \in Scrapes : t # s => result'[t] = result[t]
    BY DEF Types, Arrive
  <2> QED BY <2>1, <2>2 DEF Types, Story, Fresh, Finished
<1> QED BY <1>1, <1>2, <1>3, <1>4, <1>5

\* The cache answers, or misses.
LEMMA LookupStep ==
    ASSUME LimiterInv, NEW s \in Scrapes, Lookup(s)
    PROVE  LimiterInv'
<1> USE DEF LimiterInv
<1>a. pc[s] = "allowed" /\ dev[s] \in Devices
  BY DEF Lookup, Calls
<1>b. PICK v \in {"done", "missed"} : pc' = [pc EXCEPT ![s] = v]
  BY DEF Lookup
<1>c. result' \in [Scrapes -> Results]
  <2>1. cached[dev[s]] \in Results
    BY <1>a DEF Types, Outcomes, Results
  <2> QED BY <2>1 DEF Types, Lookup
<1>d. UNCHANGED <<dev, flight, used, queue, failures, cached, age>>
  BY DEF Lookup, gates, memory
<1>e. \A t \in Scrapes : t # s => result'[t] = result[t]
  BY DEF Types, Lookup
<1>1. Types'
  <2>1. pc' \in [Scrapes -> Steps]
    BY <1>b DEF Types, Steps
  <2> QED BY <1>c, <1>d, <2>1 DEF Types
<1>2. Calls'
  BY <1>a, <1>b, <1>d, SameCalls, Names DEF Types
<1>3. Line'
  BY <1>a, <1>b, <1>d, SameLine
<1>4. TokensConserved'
  <2>1. Holders' = Holders
    BY <1>a, <1>b DEF Types, Holders, Holding
  <2> QED BY <1>d, <2>1, SameHolders
<1>5. Story'
  BY <1>a, <1>b, <1>d, <1>e DEF Types, Story, Fresh, Finished
<1> QED BY <1>1, <1>2, <1>3, <1>4, <1>5

\* A scrape leads the call for its device only if nobody does.
LEMMA JoinStep ==
    ASSUME LimiterInv, NEW s \in Scrapes, Join(s)
    PROVE  LimiterInv'
<1> USE DEF LimiterInv
<1>a. pc[s] = "missed" /\ dev[s] \in Devices
  BY DEF Join, Calls
<1>b. PICK v \in {"leader", "follower"} : pc' = [pc EXCEPT ![s] = v]
  BY DEF Join
<1>c. UNCHANGED <<dev, result, used, queue, failures, cached, age>>
  BY DEF Join, memory
<1>1. Types'
  <2>1. pc' \in [Scrapes -> Steps]
    BY <1>b, Names DEF Types
  <2>2. flight' \in [Devices -> Scrapes \cup {Nothing}]
    BY <1>a DEF Types, Join
  <2> QED BY <1>c, <2>1, <2>2 DEF Types
<1>2. Calls'
  <2>1. CASE flight[dev[s]] = Nothing
    <3>1. flight' = [flight EXCEPT ![dev[s]] = s] /\ pc' = [pc EXCEPT ![s] = "leader"]
      BY <2>1 DEF Join
    <3>2. \A t \in Scrapes : t # s /\ pc[t] \in Leading => dev[t] # dev[s]
      BY <2>1, LimiterAssumption DEF Calls
    <3> QED BY <1>a, <1>c, <3>1, <3>2, Names DEF Types, Calls
  <2>2. CASE flight[dev[s]] # Nothing
    <3>1. flight' = flight /\ pc' = [pc EXCEPT ![s] = "follower"]
      BY <2>2 DEF Join
    <3> QED BY <1>a, <1>c, <3>1, SameCalls, Names DEF Types
  <2> QED BY <2>1, <2>2
<1>3. Line'
  BY <1>a, <1>b, <1>c, SameLine
<1>4. TokensConserved'
  <2>1. Holders' = Holders
    BY <1>a, <1>b DEF Types, Holders, Holding
  <2> QED BY <1>c, <2>1, SameHolders
<1>5. Story'
  <2>1. \A t \in Scrapes : /\ pc'[t] \in Finished <=> pc[t] \in Finished
                           /\ pc'[t] = "recorded" <=> pc[t] = "recorded"
    BY <1>a, <1>b DEF Types, Finished
  <2>2. CASE flight' = flight
    BY <1>c, <2>1, <2>2, SameStory
  <2>3. CASE flight[dev[s]] = Nothing /\ flight' = [flight EXCEPT ![dev[s]] = s]
    <3>1. \A d \in Devices :
            (flight'[d] = Nothing \/ pc'[flight'[d]] # "recorded") =>
            (flight[d] = Nothing \/ pc[flight[d]] # "recorded")
      BY <1>a, <2>1, <2>3 DEF Types
    <3>2. \A d \in Devices : Fresh(d)' <=> Fresh(d)
      BY <1>c DEF Fresh
    <3> QED BY <1>c, <2>1, <3>1, <3>2 DEF Story
  <2> QED BY <2>2, <2>3 DEF Join
<1> QED BY <1>1, <1>2, <1>3, <1>4, <1>5

\* A leader takes a free token or joins the queue.
LEMMA AcquireStep ==
    ASSUME LimiterInv, NEW s \in Scrapes, Acquire(s)
    PROVE  LimiterInv'
<1> USE DEF LimiterInv
<1>a. pc[s] = "leader" /\ UNCHANGED <<dev, result, flight, failures, cached, age>>
  BY DEF Acquire, memory
<1>b. PICK v \in {"granted", "queued"} : pc' = [pc EXCEPT ![s] = v]
  BY DEF Acquire
<1>c. MaxConcurrent \in Nat \ {0}
  BY LimiterAssumption
<1>1. Types'
  <2>1. used' \in Nat
    <3>1. used' = used \/ used' = used + 1
      BY DEF Acquire
    <3> QED BY <3>1 DEF Types
  <2>2. queue' = queue \/ queue' = Append(queue, s)
    BY DEF Acquire
  <2>3. queue' \in Seq(Scrapes)
    <3>1. queue \in Seq(Scrapes)
      BY DEF Types
    <3>2. Append(queue, s) \in Seq(Scrapes)
      BY <3>1
    <3> QED BY <2>2, <3>1, <3>2
  <2> QED BY <1>a, <1>b, <2>1, <2>3, Names DEF Types
<1>2. Calls'
  BY <1>a, <1>b, SameCalls, Names DEF Types
<1>3. Line'
  <2>1. CASE queue' = queue
    BY <1>a, <1>b, <2>1, SameLine
  <2>2. CASE queue' = Append(queue, s) /\ pc' = [pc EXCEPT ![s] = "queued"]
    <3>1. \A i \in DOMAIN queue' :
             \/ i \in DOMAIN queue /\ queue'[i] = queue[i]
             \/ i = Len(queue) + 1 /\ queue'[i] = s
      BY <2>2 DEF Types
    <3>2. \A i \in DOMAIN queue : queue[i] # s /\ queue[i] \in Scrapes
      BY <1>a DEF Types, Line
    <3> QED BY <2>2, <3>1, <3>2 DEF Types, Line
  <2> QED BY <2>1, <2>2 DEF Acquire
<1>4. TokensConserved'
  <2>1. CASE used < MaxConcurrent /\ queue = <<>>
    <3>1. /\ used' = used + 1 /\ queue' = queue
          /\ pc' = [pc EXCEPT ![s] = "granted"]
      BY <2>1 DEF Acquire
    <3>2. Holders' = Holders \cup {s} /\ s \notin Holders
      BY <1>a, <3>1 DEF Types, Holders, Holding
    <3>3. Cardinality(Holders') = Cardinality(Holders) + 1
      BY <3>2, HoldersFinite, FS_AddElement
    <3> QED BY <1>c, <2>1, <3>1, <3>3 DEF Types, TokensConserved, Holders
  <2>2. CASE ~(used < MaxConcurrent /\ queue = <<>>)
    <3>1. used' = used /\ pc' = [pc EXCEPT ![s] = "queued"]
      BY <2>2 DEF Acquire
    <3>2. Holders' = Holders
      BY <1>a, <3>1 DEF Types, Holders, Holding
    <3>3. used = MaxConcurrent
      BY <1>c, <2>2 DEF Types, TokensConserved
    <3> QED BY <3>1, <3>2, <3>3 DEF TokensConserved, Holders
  <2> QED BY <2>1, <2>2
<1>5. Story'
  BY <1>a, <1>b, SameStory DEF Types, Finished
<1> QED BY <1>1, <1>2, <1>3, <1>4, <1>5

\* A leader whose context is done gets no token.
LEMMA RefusedStep ==
    ASSUME LimiterInv, NEW s \in Scrapes, Refused(s)
    PROVE  LimiterInv'
<1> USE DEF LimiterInv
<1>a. /\ pc[s] = "leader"
      /\ UNCHANGED <<dev, used, queue, failures, cached, age>>
      /\ Finish(s, "in_flight_limit")
  BY DEF Refused, memory
<1>b. "in_flight_limit" \in Results
  BY DEF Results
<1>1. /\ pc' \in [Scrapes -> Steps] /\ result' \in [Scrapes -> Results]
      /\ flight' \in [Devices -> Scrapes \cup {Nothing}]
      /\ Calls' /\ Story' /\ Holders' = Holders
      /\ \A t \in Scrapes : t # s /\ pc[t] = "queued" => pc'[t] = "queued"
  BY <1>a, <1>b, FinishStep
<1>2. Line'
  BY <1>a, <1>1 DEF Types, Line
<1>3. TokensConserved'
  BY <1>a, <1>1, SameHolders
<1> QED BY <1>a, <1>1, <1>2, <1>3 DEF Types

\* A leader leaves the queue at its deadline.
LEMMA GiveUpStep ==
    ASSUME LimiterInv, NEW s \in Scrapes, GiveUp(s)
    PROVE  LimiterInv'
<1> USE DEF LimiterInv
<1>a. /\ pc[s] = "queued"
      /\ UNCHANGED <<dev, used, failures, cached, age>>
      /\ Finish(s, "in_flight_limit")
  BY DEF GiveUp, memory
<1>b. PICK k \in DOMAIN queue : queue[k] = s /\ queue' = RemoveAt(queue, k)
  BY DEF GiveUp
<1>c. "in_flight_limit" \in Results
  BY DEF Results
<1>d. /\ queue' \in Seq(Scrapes)
      /\ Len(queue') = Len(queue) - 1
      /\ \A i \in DOMAIN queue' : queue'[i] = IF i < k THEN queue[i] ELSE queue[i + 1]
  BY <1>b, RemovedAt DEF Types
<1>1. /\ pc' \in [Scrapes -> Steps] /\ result' \in [Scrapes -> Results]
      /\ flight' \in [Devices -> Scrapes \cup {Nothing}]
      /\ Calls' /\ Story' /\ Holders' = Holders
      /\ \A t \in Scrapes : t # s /\ pc[t] = "queued" => pc'[t] = "queued"
  BY <1>a, <1>c, FinishStep
<1>2. Line'
  <2> DEFINE old(i) == IF i < k THEN i ELSE i + 1
  <2>0. /\ DOMAIN queue' = 1 .. Len(queue) - 1
        /\ DOMAIN queue = 1 .. Len(queue) /\ Len(queue) \in Nat
    BY <1>d DEF Types
  <2>1. \A i \in DOMAIN queue' :
          old(i) \in DOMAIN queue /\ old(i) # k /\ queue'[i] = queue[old(i)]
    <3> TAKE i \in DOMAIN queue'
    <3>1. old(i) \in DOMAIN queue /\ old(i) # k
      BY <1>b, <2>0
    <3>2. queue'[i] = queue[old(i)]
      BY <1>d
    <3> QED BY <3>1, <3>2
  <2>5. \A i, j \in DOMAIN queue' : old(i) = old(j) => i = j
    BY <1>b, <2>0
  <2> HIDE DEF old
  <2>2. \A j \in DOMAIN queue : j # k => queue[j] # s /\ queue[j] \in Scrapes
    BY <1>b DEF Types, Line
  <2>3. \A i \in DOMAIN queue' : pc'[queue'[i]] = "queued"
    BY <1>1, <2>1, <2>2 DEF Line
  <2>4. ASSUME NEW i \in DOMAIN queue', NEW j \in DOMAIN queue', queue'[i] = queue'[j]
        PROVE  i = j
    <3>1. old(i) = old(j)
      BY <2>1, <2>4 DEF Line
    <3> QED BY <2>5, <3>1
  <2> QED BY <2>3, <2>4 DEF Line
<1>3. TokensConserved'
  <2>1. queue # <<>>
    BY <1>b
  <2> QED BY <1>a, <1>1, <2>1 DEF TokensConserved, Holders
<1> QED BY <1>a, <1>d, <1>1, <1>2, <1>3 DEF Types

\* A token granted too late is handed on.
LEMMA GiveBackStep ==
    ASSUME LimiterInv, NEW s \in Scrapes, GiveBack(s)
    PROVE  LimiterInv'
<1> USE DEF LimiterInv
<1>a. /\ pc[s] = "granted" /\ HandOver(s, "leader")
      /\ UNCHANGED <<dev, result, flight, failures, cached, age>>
  BY DEF GiveBack, memory
<1>1. /\ pc' \in [Scrapes -> Steps] /\ used' \in Nat /\ queue' \in Seq(Scrapes)
      /\ pc'[s] = "leader"
      /\ \A t \in Scrapes \ {s} : \/ pc'[t] = pc[t]
                                  \/ pc[t] = "queued" /\ pc'[t] = "granted"
      /\ Line' /\ TokensConserved'
  BY <1>a, HandOverStep, Names
<1>2. Calls'
  BY <1>a, <1>1, SameCalls, Names
<1>3. Story'
  BY <1>a, <1>1, SameStory DEF Finished
<1> QED BY <1>a, <1>1, <1>2, <1>3 DEF Types

\* The probe starts.
LEMMA BeginStep ==
    ASSUME LimiterInv, NEW s \in Scrapes, Begin(s)
    PROVE  LimiterInv'
<1> USE DEF LimiterInv
<1>a. pc[s] = "granted" /\ pc' = [pc EXCEPT ![s] = "probing"]
  BY DEF Begin
<1>b. UNCHANGED <<dev, result, flight, used, queue, failures, cached, age>>
  BY DEF Begin, gates, memory
<1>1. Types'
  BY <1>a, <1>b, Names DEF Types
<1>2. Calls'
  BY <1>a, <1>b, SameCalls, Names DEF Types
<1>3. Line'
  BY <1>a, <1>b, SameLine
<1>4. TokensConserved'
  <2>1. Holders' = Holders
    BY <1>a DEF Types, Holders, Holding
  <2> QED BY <1>b, <2>1, SameHolders
<1>5. Story'
  BY <1>a, <1>b, SameStory DEF Types, Finished
<1> QED BY <1>1, <1>2, <1>3, <1>4, <1>5

\* The probe returns and backoff records it: from here to Store the cache lags.
LEMMA ReturnStep ==
    ASSUME LimiterInv, NEW s \in Scrapes, NEW r \in Outcomes, ProbeReturns(s, r)
    PROVE  LimiterInv'
<1> USE DEF LimiterInv
<1>a. pc[s] = "probing" /\ pc' = [pc EXCEPT ![s] = "recorded"] /\ dev[s] \in Devices
  BY DEF ProbeReturns, Calls
<1>b. UNCHANGED <<dev, flight, used, queue, cached, age>>
  BY DEF ProbeReturns, gates
<1>c. result' = [result EXCEPT ![s] = r]
  BY DEF ProbeReturns
<1>d. PICK n \in Nat : /\ failures' = [failures EXCEPT ![dev[s]] = n]
                       /\ n = 0 <=> r = "ok"
  <2>1. Record(dev[s], r)
    BY DEF ProbeReturns
  <2>2. CASE r = "ok"
    BY <2>1, <2>2 DEF Record, IsDeviceFault
  <2>3. CASE r # "ok"
    <3>1. failures' = [failures EXCEPT ![dev[s]] = Smaller(failures[dev[s]] + 1, MaxFailures)]
      BY <2>1, <2>3 DEF Record
    <3>2. failures[dev[s]] \in Nat /\ MaxFailures \in Nat \ {0}
      BY <1>a, LimiterAssumption DEF Types
    <3>3. Smaller(failures[dev[s]] + 1, MaxFailures) \in Nat \ {0}
      BY <3>2 DEF Smaller
    <3> QED BY <2>3, <3>1, <3>3
  <2> QED BY <2>2, <2>3
<1>1. Types'
  <2>1. result' \in [Scrapes -> Results]
    BY <1>c DEF Types, Results
  <2>2. failures' \in [Devices -> Nat]
    BY <1>d DEF Types
  <2> QED BY <1>a, <1>b, <2>1, <2>2, Names DEF Types
<1>2. Calls'
  BY <1>a, <1>b, SameCalls, Names DEF Types
<1>3. Line'
  BY <1>a, <1>b, SameLine
<1>4. TokensConserved'
  <2>1. Holders' = Holders
    BY <1>a DEF Types, Holders, Holding
  <2> QED BY <1>b, <2>1, SameHolders
<1>5. Story'
  <2>1. flight[dev[s]] = s
    BY <1>a, Names DEF Calls
  <2>2. \A t \in Scrapes : t # s /\ pc[t] \in Leading => dev[t] # dev[s]
    BY <2>1 DEF Calls
  <2>3. \A t \in Scrapes : pc'[t] \in Finished => result'[t] \in Outcomes
    BY <1>a, <1>c DEF Types, Story, Finished
  <2>4. \A t \in Scrapes : pc'[t] = "recorded" =>
          (result'[t] = "ok" <=> failures'[dev'[t]] = 0)
    BY <1>a, <1>b, <1>c, <1>d, <2>2, Names DEF Types, Story, Calls
  <2>5. \A d \in Devices : Fresh(d)' <=> Fresh(d)
    BY <1>b DEF Fresh
  <2>6. \A d \in Devices \ {dev[s]} : failures'[d] = failures[d]
    BY <1>d DEF Types
  <2>7. \A d \in Devices \ {dev[s]} : flight[d] # s
    BY <1>a, LimiterAssumption DEF Calls
  <2>8. ~(flight'[dev[s]] = Nothing \/ pc'[flight'[dev[s]]] # "recorded")
    BY <1>a, <1>b, <2>1, LimiterAssumption DEF Types
  <2>9. ASSUME NEW d \in Devices, flight'[d] = Nothing \/ pc'[flight'[d]] # "recorded",
               Fresh(d)'
        PROVE  cached'[d] = "ok" <=> failures'[d] = 0
    <3>1. d # dev[s]
      BY <2>8, <2>9
    <3>2. flight[d] = Nothing \/ pc[flight[d]] # "recorded"
      BY <1>a, <1>b, <2>7, <2>9, <3>1 DEF Types
    <3> QED BY <1>b, <2>5, <2>6, <2>9, <3>1, <3>2 DEF Story
  <2> QED BY <2>3, <2>4, <2>9 DEF Story
<1> QED BY <1>1, <1>2, <1>3, <1>4, <1>5

\* The cache catches up with backoff.
LEMMA StoreStep ==
    ASSUME LimiterInv, NEW s \in Scrapes, Store(s)
    PROVE  LimiterInv'
<1> USE DEF LimiterInv
<1>a. /\ pc[s] = "recorded" /\ pc' = [pc EXCEPT ![s] = "stored"]
      /\ dev[s] \in Devices /\ flight[dev[s]] = s
  BY Names DEF Store, Calls
<1>b. UNCHANGED <<dev, result, flight, used, queue, failures>>
  BY DEF Store, gates
<1>c. result[s] \in Outcomes /\ (result[s] = "ok" <=> failures[dev[s]] = 0)
  BY <1>a DEF Story, Finished
<1>1. Types'
  <2>1. cached' \in [Devices -> Outcomes \cup {"none"}]
    BY <1>c DEF Types, Store
  <2>2. age' \in [Devices -> Nat]
    BY DEF Types, Store
  <2> QED BY <1>a, <1>b, <2>1, <2>2, Names DEF Types
<1>2. Calls'
  BY <1>a, <1>b, SameCalls, Names DEF Types
<1>3. Line'
  BY <1>a, <1>b, SameLine
<1>4. TokensConserved'
  <2>1. Holders' = Holders
    BY <1>a DEF Types, Holders, Holding
  <2> QED BY <1>b, <2>1, SameHolders
<1>5. Story'
  <2>1. \A t \in Scrapes : pc'[t] \in Finished => result'[t] \in Outcomes
    BY <1>a, <1>b DEF Types, Story, Finished
  <2>2. \A t \in Scrapes : pc'[t] = "recorded" =>
          (result'[t] = "ok" <=> failures'[dev'[t]] = 0)
    BY <1>a, <1>b DEF Types, Story
  <2>3. ASSUME NEW d \in Devices, flight'[d] = Nothing \/ pc'[flight'[d]] # "recorded",
               Fresh(d)'
        PROVE  cached'[d] = "ok" <=> failures'[d] = 0
    <3>1. CacheTTL > 0
      BY <2>3 DEF Fresh
    <3>2. CASE d = dev[s]
      BY <1>a, <1>b, <1>c, <3>1, <3>2 DEF Types, Store
    <3>3. CASE d # dev[s]
      <4>1. cached'[d] = cached[d] /\ age'[d] = age[d]
        BY <3>1, <3>3 DEF Types, Store
      <4>2. flight[d] = Nothing \/ pc[flight[d]] # "recorded"
        <5>1. flight[d] # s
          BY <3>3, LimiterAssumption DEF Calls
        <5> QED BY <1>a, <1>b, <2>3, <5>1 DEF Types
      <4> QED BY <1>b, <2>3, <4>1, <4>2 DEF Story, Fresh
    <3> QED BY <3>2, <3>3
  <2> QED BY <2>1, <2>2, <2>3 DEF Story
<1> QED BY <1>1, <1>2, <1>3, <1>4, <1>5

\* The token is handed on before the call is over.
LEMMA ReleaseStep ==
    ASSUME LimiterInv, NEW s \in Scrapes, Release(s)
    PROVE  LimiterInv'
<1> USE DEF LimiterInv
<1>a. /\ pc[s] = "stored" /\ HandOver(s, "released")
      /\ UNCHANGED <<dev, result, flight, failures, cached, age>>
  BY DEF Release, memory
<1>1. /\ pc' \in [Scrapes -> Steps] /\ used' \in Nat /\ queue' \in Seq(Scrapes)
      /\ pc'[s] = "released"
      /\ \A t \in Scrapes \ {s} : \/ pc'[t] = pc[t]
                                  \/ pc[t] = "queued" /\ pc'[t] = "granted"
      /\ Line' /\ TokensConserved'
  BY <1>a, HandOverStep, Names
<1>2. Calls'
  BY <1>a, <1>1, SameCalls, Names
<1>3. Story'
  BY <1>a, <1>1, SameStory DEF Finished
<1> QED BY <1>a, <1>1, <1>2, <1>3 DEF Types

\* The call is over and its result shared.
LEMMA CompleteStep ==
    ASSUME LimiterInv, NEW s \in Scrapes, Complete(s)
    PROVE  LimiterInv'
<1> USE DEF LimiterInv
<1>a. /\ pc[s] = "released"
      /\ UNCHANGED <<dev, used, queue, failures, cached, age>>
      /\ Finish(s, result[s]) /\ result[s] \in Results
  BY DEF Complete, memory, Types
<1>1. /\ pc' \in [Scrapes -> Steps] /\ result' \in [Scrapes -> Results]
      /\ flight' \in [Devices -> Scrapes \cup {Nothing}]
      /\ Calls' /\ Story' /\ Holders' = Holders
      /\ \A t \in Scrapes : t # s /\ pc[t] = "queued" => pc'[t] = "queued"
  BY <1>a, FinishStep
<1>2. Line'
  BY <1>a, <1>1 DEF Types, Line
<1>3. TokensConserved'
  BY <1>a, <1>1, SameHolders
<1> QED BY <1>a, <1>1, <1>2, <1>3 DEF Types

\* A scrape is answered.
LEMMA ReplyStep ==
    ASSUME LimiterInv, NEW s \in Scrapes, Reply(s)
    PROVE  LimiterInv'
<1> USE DEF LimiterInv
<1>a. /\ pc[s] = "done" /\ pc' = [pc EXCEPT ![s] = "replied"]
      /\ result' = [result EXCEPT ![s] = "none"]
      /\ dev' = [dev EXCEPT ![s] = Nothing]
      /\ UNCHANGED <<flight, used, queue, failures, cached, age>>
  BY DEF Reply, gates, memory
<1>1. Types'
  BY <1>a, Names DEF Types, Results
<1>2. Calls'
  <2>1. \A d \in Devices : flight[d] # Nothing => flight[d] # s
    BY <1>a, Names DEF Calls
  <2> QED BY <1>a, <2>1, Names DEF Types, Calls
<1>3. Line'
  BY <1>a, SameLine
<1>4. TokensConserved'
  <2>1. Holders' = Holders
    BY <1>a DEF Types, Holders, Holding
  <2> QED BY <1>a, <2>1, SameHolders
<1>5. Story'
  BY <1>a DEF Types, Story, Fresh, Finished
<1> QED BY <1>1, <1>2, <1>3, <1>4, <1>5

\* Time passes: cached results only get older.
LEMMA TickStep ==
    ASSUME LimiterInv, Tick
    PROVE  LimiterInv'
<1> USE DEF LimiterInv
<1>a. /\ pc' = [s \in Scrapes |-> IF pc[s] = "replied" THEN "idle" ELSE pc[s]]
      /\ age' = [d \in Devices |-> Smaller(age[d] + 1, CacheTTL + 1)]
      /\ UNCHANGED <<dev, result, flight, used, queue, failures, cached>>
  BY DEF Tick, gates
<1>b. CacheTTL \in Nat
  BY LimiterAssumption
<1>1. Types'
  <2>1. pc' \in [Scrapes -> Steps]
    BY <1>a, Names DEF Types
  <2>2. age' \in [Devices -> Nat]
    BY <1>a, <1>b DEF Types, Smaller
  <2> QED BY <1>a, <2>1, <2>2 DEF Types
<1>2. Calls'
  BY <1>a, SameCalls, Names
<1>3. Line'
  BY <1>a DEF Types, Line
<1>4. TokensConserved'
  <2>1. Holders' = Holders
    BY <1>a DEF Types, Holders, Holding
  <2> QED BY <1>a, <2>1, SameHolders
<1>5. Story'
  <2>1. \A d \in Devices : Fresh(d)' => Fresh(d)
    BY <1>a, <1>b DEF Types, Fresh, Smaller
  <2>2. \A t \in Scrapes : /\ pc'[t] \in Finished <=> pc[t] \in Finished
                           /\ pc'[t] = "recorded" <=> pc[t] = "recorded"
    BY <1>a DEF Types, Finished
  <2>3. \A d \in Devices : flight[d] # Nothing => flight[d] \in Scrapes
    BY DEF Types
  <2> QED BY <1>a, <2>1, <2>2, <2>3 DEF Story
<1> QED BY <1>1, <1>2, <1>3, <1>4, <1>5

\* A step that touches none of the invariant's variables, HangUp and stuttering among them.
LEMMA IdleStep ==
    ASSUME LimiterInv,
           UNCHANGED <<pc, dev, result, flight, used, queue, failures, cached, age>>
    PROVE  LimiterInv'
BY DEF LimiterInv, Types, Calls, Line, TokensConserved, Story, Fresh

-----------------------------------------------------------------------------
(* The theorems *)

\* The invariant holds at the start.
LEMMA InitHolds == Init => LimiterInv
<1> SUFFICES ASSUME Init PROVE LimiterInv
  OBVIOUS
<1> USE DEF LimiterInv
<1>1. Types
  BY LimiterAssumption DEF Init, Types, Steps, Results
<1>2. Calls
  BY Names DEF Init, Calls
<1>3. Line
  BY DEF Init, Line
<1>4. TokensConserved
  <2>1. {s \in Scrapes : pc[s] \in Holding} = {}
    BY Names DEF Init
  <2>2. Cardinality({}) = 0 /\ MaxConcurrent \in Nat
    BY FS_EmptySet, LimiterAssumption
  <2>3. Cardinality({s \in Scrapes : pc[s] \in Holding}) = 0
    BY <2>1, <2>2
  <2>4. used = 0 /\ queue = <<>>
    BY DEF Init
  <2> QED BY <2>2, <2>3, <2>4 DEF TokensConserved
<1>5. Story
  BY LimiterAssumption DEF Init, Story, Fresh, Finished
<1> QED BY <1>1, <1>2, <1>3, <1>4, <1>5

\* Every step keeps the invariant.
LEMMA NextKeeps == LimiterInv /\ [Next]_vars => LimiterInv'
<1> SUFFICES ASSUME LimiterInv, [Next]_vars PROVE LimiterInv'
  OBVIOUS
<1>1. ASSUME NEW s \in Scrapes, NEW d \in Devices, NEW b \in Budgets,
             Arrive(s, d, b)
      PROVE  LimiterInv'
  BY <1>1, ArriveStep
<1>2. ASSUME NEW s \in Scrapes, Step(s)
      PROVE  LimiterInv'
  BY <1>2, LookupStep, JoinStep, AcquireStep, RefusedStep, GiveUpStep, GiveBackStep,
     BeginStep, ReturnStep, StoreStep, ReleaseStep, CompleteStep, ReplyStep DEF Step
<1>3. ASSUME NEW s \in Scrapes, HangUp(s)
      PROVE  LimiterInv'
  BY <1>3, IdleStep DEF HangUp, gates, memory
<1>4. CASE Tick
  BY <1>4, TickStep
<1>5. CASE UNCHANGED vars
  BY <1>5, IdleStep DEF vars, gates, memory
<1> QED BY <1>1, <1>2, <1>3, <1>4, <1>5 DEF Next

\* Every reachable state of the gates satisfies the invariant, for every number of scrapes
\* and devices, every limit and every backoff ladder.
THEOREM LimiterInvariant == Spec => []LimiterInv
BY InitHolds, NextKeeps, PTL DEF Spec

\* Single-flight holds over the whole of a probe: no two scrapes lead a call for one device
\* (group.Do in limiter.go).
THEOREM NeverProbedTwiceAtOnce == Spec => []OneCallPerDevice
<1>1. LimiterInv => OneCallPerDevice
  BY DEF LimiterInv, Calls, OneCallPerDevice
<1> QED BY <1>1, LimiterInvariant, PTL

\* The semaphore's tokens are conserved on every way out of it, and nobody queues while one
\* is free (sem.Acquire and sem.Release in limiter.go).
THEOREM TokensAreConserved == Spec => []TokensConserved
<1>1. LimiterInv => TokensConserved
  BY DEF LimiterInv
<1> QED BY <1>1, LimiterInvariant, PTL

\* Cache and backoff state agree about every device no call is in progress for, although
\* Record and store take their locks one after the other (limiter.go:121 and :122).
THEOREM CacheAndBackoffAgree == Spec => []CacheAgreesWithBackoff
<1>1. LimiterInv => CacheAgreesWithBackoff
  BY DEF LimiterInv, Story, CacheAgreesWithBackoff
<1> QED BY <1>1, LimiterInvariant, PTL

-----------------------------------------------------------------------------
(* The ladder, and the rest of the types.  What Power is follows by induction, for which the *)
(* least natural that is an exception stands in.                                             *)

\* A set of naturals has a least element.
LEMMA LeastNat ==
    ASSUME NEW T, T \subseteq Nat, T # {}
    PROVE  \E x \in T : \A y \in T : x <= y
<1>1. PICK x \in T : \A y \in T : ~(<<y, x>> \in OpToRel(<, Nat))
  BY NatLessThanWellFounded, WFMin
<1>2. \A y \in T : ~(y < x)
  BY <1>1 DEF OpToRel
<1> QED BY <1>2

\* The recursion that defines Power has a solution.
LEMMA PowerExists ==
    \E f : f = [k \in 0 .. MaxFailures |-> IF k = 0 THEN 1 ELSE Factor * f[k - 1]]
<1> DEFINE Solves(f, n) == \A k \in 0 .. n : f[k] = IF k = 0 THEN 1 ELSE Factor * f[k - 1]
           Stuck == {n \in Nat : ~\E f : Solves(f, n)}
<1>1. Stuck = {}
  <2> SUFFICES ASSUME Stuck # {}
               PROVE  FALSE
    OBVIOUS
  <2>1. PICK n \in Stuck : \A m \in Stuck : n <= m
    BY LeastNat
  <2>2. n # 0
    <3>1. Solves([k \in {0} |-> 1], 0)
      OBVIOUS
    <3> QED BY <3>1
  <2>3. PICK f : Solves(f, n - 1)
    <3>1. n - 1 \in Nat /\ ~(n <= n - 1)
      BY <2>2
    <3>2. n - 1 \notin Stuck
      BY <2>1, <3>1
    <3> QED BY <3>1, <3>2
  <2> DEFINE g == [k \in 0 .. n |-> IF k = n THEN Factor * f[n - 1] ELSE f[k]]
  <2>4. Solves(g, n)
    BY <2>2, <2>3
  <2> QED BY <2>4
<1>2. PICK f : Solves(f, MaxFailures)
  BY <1>1, LimiterAssumption
<1> DEFINE g == [k \in 0 .. MaxFailures |-> f[k]]
<1>3. \A k \in 0 .. MaxFailures : g[k] = IF k = 0 THEN 1 ELSE Factor * g[k - 1]
  BY <1>2, LimiterAssumption
<1>4. g = [k \in 0 .. MaxFailures |-> g[k]]
  OBVIOUS
<1> HIDE DEF g
<1>5. g = [k \in 0 .. MaxFailures |-> IF k = 0 THEN 1 ELSE Factor * g[k - 1]]
  BY <1>3, <1>4
<1> QED BY <1>5

\* So the definition is what it says.
LEMMA PowerSteps ==
    \A k \in 0 .. MaxFailures : Power[k] = IF k = 0 THEN 1 ELSE Factor * Power[k - 1]
<1>1. Power = [k \in 0 .. MaxFailures |-> IF k = 0 THEN 1 ELSE Factor * Power[k - 1]]
  BY PowerExists DEF Power
<1> QED BY <1>1

\* Powers of a natural are naturals.
LEMMA PowerType == \A k \in 0 .. MaxFailures : Power[k] \in Nat
<1> DEFINE Bad == {k \in 0 .. MaxFailures : Power[k] \notin Nat}
<1> SUFFICES ASSUME Bad # {}
             PROVE  FALSE
  OBVIOUS
<1>1. PICK k \in Bad : \A m \in Bad : k <= m
  <2>1. Bad \subseteq Nat
    BY LimiterAssumption
  <2> HIDE DEF Bad
  <2> QED BY <2>1, LeastNat
<1>2. k \in Nat /\ k # 0
  BY PowerSteps, LimiterAssumption
<1>3. k - 1 \in 0 .. MaxFailures /\ Power[k - 1] \in Nat
  BY <1>1, <1>2, LimiterAssumption
<1>4. Factor * Power[k - 1] \in Nat
  BY <1>3, LimiterAssumption
<1> QED BY <1>2, <1>4, PowerSteps

\* Products and percentages keep the order.
LEMMA Monotonic ==
    /\ \A a, b, c \in Nat : a <= b => a * c <= b * c
    /\ \A a, b \in Nat : a <= b => a \div 100 <= b \div 100
    /\ \A a \in Nat : a \div 100 \in Nat
<1>1. ASSUME NEW a \in Nat, NEW b \in Nat, NEW c \in Nat, a <= b
      PROVE  a * c <= b * c
  <2>1. (b - a) * c \in Nat /\ (b - a) * c = b * c - a * c
    BY <1>1
  <2> QED BY <2>1
<1>2. \A a, b \in Nat : a <= b => a \div 100 <= b \div 100
  OBVIOUS
<1>3. \A a \in Nat : a \div 100 \in Nat
  OBVIOUS
<1> QED BY <1>1, <1>2, <1>3

\* A delay is a natural, at most the longest.
LEMMA DelaysBounded ==
    ASSUME NEW n \in FailuresBeforeOpen .. MaxFailures, NEW r, NEW delay \in Delays(n, r)
    PROVE  delay \in 0 .. LongestDelay
<1> DEFINE initial == IF r = "auth" THEN AuthInitial ELSE Initial
           limit   == IF r = "auth" THEN AuthMax ELSE MaxDelay
           rung    == initial * Power[n - FailuresBeforeOpen]
           ladder  == Smaller(rung, limit)
           top     == Larger(MaxDelay, AuthMax)
<1>1. n - FailuresBeforeOpen \in 0 .. MaxFailures
  BY LimiterAssumption
<1>2. Power[n - FailuresBeforeOpen] \in Nat
  BY <1>1, PowerType
<1>3. initial \in Nat /\ limit \in Nat /\ top \in Nat /\ limit <= top
  BY LimiterAssumption DEF Larger
<1>4. rung \in Nat
  <2> HIDE DEF initial
  <2> QED BY <1>2, <1>3
<1>5. delay \in (ladder * (100 - JitterPercent)) \div 100 .. (ladder * (100 + JitterPercent)) \div 100
  BY DEF Delays
<1> HIDE DEF rung, limit, top
<1>6. ladder \in Nat /\ ladder <= top
  BY <1>3, <1>4 DEF Smaller
<1> HIDE DEF ladder
<1>7. 100 - JitterPercent \in Nat /\ 100 + JitterPercent \in Nat
  BY LimiterAssumption
<1> DEFINE low == ladder * (100 - JitterPercent)
           high == ladder * (100 + JitterPercent)
           most == top * (100 + JitterPercent)
<1>8. low \in Nat /\ high \in Nat /\ most \in Nat /\ high <= most
  BY <1>3, <1>6, <1>7, Monotonic
<1>9. delay \in (low \div 100) .. (high \div 100)
  BY <1>5
<1>10. LongestDelay = most \div 100
  BY DEF LongestDelay, top
<1> HIDE DEF low, high, most
<1>11. low \div 100 \in Nat /\ high \div 100 \in Nat /\ most \div 100 \in Nat /\ high \div 100 <= most \div 100
  BY <1>8, Monotonic
<1> QED BY <1>9, <1>10, <1>11

\* What the clocks and counters range over.
Ranges ==
    /\ left \in [Scrapes -> Nat] /\ took \in [Scrapes -> 0 .. Latency]
    /\ failures \in [Devices -> 0 .. MaxFailures]
    /\ wait \in [Devices -> 0 .. LongestDelay]
    /\ age \in [Devices -> 0 .. CacheTTL + 1]

\* Where the ranges begin.
LEMMA Zeroes ==
    /\ 0 \in 0 .. Latency /\ 0 \in 0 .. MaxFailures /\ 0 \in 0 .. CacheTTL + 1 /\ 0 \in 0 .. LongestDelay
    /\ LongestDelay \in Nat
<1> DEFINE most == Larger(MaxDelay, AuthMax) * (100 + JitterPercent)
<1>1. most \in Nat
  <2>1. Larger(MaxDelay, AuthMax) \in Nat /\ 100 + JitterPercent \in Nat
    BY LimiterAssumption DEF Larger
  <2> QED BY <2>1
<1>2. LongestDelay = most \div 100
  BY DEF LongestDelay
<1> HIDE DEF most
<1>3. LongestDelay \in Nat
  BY <1>1, <1>2, Monotonic
<1> QED BY <1>3, LimiterAssumption

\* Recording a result: the counter saturates, the delay is one of the ladder's.
LEMMA RecordRanges ==
    ASSUME Ranges, NEW d \in Devices, NEW r, Record(d, r)
    PROVE  /\ failures' \in [Devices -> 0 .. MaxFailures]
           /\ wait' \in [Devices -> 0 .. LongestDelay]
<1>1. failures[d] \in 0 .. MaxFailures
  BY DEF Ranges
<1>2. CASE failures' = [failures EXCEPT ![d] = 0] /\ wait' = [wait EXCEPT ![d] = 0]
  BY <1>2, Zeroes DEF Ranges
<1>3. CASE failures' = [failures EXCEPT ![d] = Smaller(@ + 1, MaxFailures)]
  <2> DEFINE n == Smaller(failures[d] + 1, MaxFailures)
  <2>1. n \in 0 .. MaxFailures /\ (failures[d] + 1 >= FailuresBeforeOpen => n \in FailuresBeforeOpen .. MaxFailures)
    BY <1>1, LimiterAssumption DEF Smaller
  <2>2. failures' = [failures EXCEPT ![d] = n]
    BY <1>3
  <2> HIDE DEF n
  <2>3. failures' \in [Devices -> 0 .. MaxFailures] /\ failures'[d] = n
    BY <2>1, <2>2 DEF Ranges
  <2>4. \/ wait' = [wait EXCEPT ![d] = 0]
        \/ /\ failures[d] + 1 >= FailuresBeforeOpen
           /\ \E delay \in Delays(failures'[d], r) : wait' = [wait EXCEPT ![d] = delay]
    BY DEF Record
  <2>5. CASE wait' = [wait EXCEPT ![d] = 0]
    BY <2>3, <2>5, Zeroes DEF Ranges
  <2>6. ASSUME failures[d] + 1 >= FailuresBeforeOpen,
               NEW delay \in Delays(failures'[d], r), wait' = [wait EXCEPT ![d] = delay]
        PROVE  wait' \in [Devices -> 0 .. LongestDelay]
    <3>1. delay \in 0 .. LongestDelay
      BY <2>1, <2>3, <2>6, DelaysBounded
    <3> QED BY <2>6, <3>1 DEF Ranges
  <2> QED BY <2>3, <2>4, <2>5, <2>6
<1> QED BY <1>2, <1>3 DEF Record

\* The clock moves everything that counts time, within its range.
LEMMA TickRanges ==
    ASSUME Types, Ranges, Tick
    PROVE  Ranges'
<1>1. \A n \in Nat : Less(n) \in Nat /\ Less(n) <= n
  BY DEF Less
<1>2. left' \in [Scrapes -> Nat]
  BY <1>1 DEF Tick, Ranges
<1>3. took' \in [Scrapes -> 0 .. Latency]
  <2>1. took' = [s \in Scrapes |-> IF pc[s] = "probing" /\ dev[s] \in Healthy THEN took[s] + 1 ELSE took[s]]
    BY DEF Tick
  <2>2. ASSUME NEW s \in Scrapes, pc[s] = "probing", dev[s] \in Healthy
        PROVE  took[s] + 1 \in 0 .. Latency
    <3>1. took[s] < Latency
      BY <2>2 DEF Tick, Waits
    <3> QED BY <3>1, LimiterAssumption DEF Ranges
  <2> QED BY <2>1, <2>2 DEF Ranges
<1>4. wait' \in [Devices -> 0 .. LongestDelay]
  <2>1. ASSUME NEW d \in Devices
        PROVE  Less(wait[d]) \in 0 .. LongestDelay
    BY <1>1, Zeroes DEF Ranges
  <2> QED BY <2>1 DEF Tick
<1>5. age' \in [Devices -> 0 .. CacheTTL + 1]
  <2>1. ASSUME NEW d \in Devices
        PROVE  Smaller(age[d] + 1, CacheTTL + 1) \in 0 .. CacheTTL + 1
    BY LimiterAssumption DEF Ranges, Smaller
  <2> QED BY <2>1 DEF Tick
<1>6. failures' = failures
  BY DEF Tick
<1> QED BY <1>2, <1>3, <1>4, <1>5, <1>6 DEF Ranges

LEMMA RangesKept ==
    ASSUME LimiterInv, Ranges, [Next]_vars
    PROVE  Ranges'
<1>1. Types /\ Calls
  BY DEF LimiterInv
<1>2. CASE UNCHANGED <<left, took, failures, wait, age>>
  BY <1>2 DEF Ranges
<1>3. ASSUME NEW s \in Scrapes, NEW d \in Devices, NEW b \in Budgets, Arrive(s, d, b)
      PROVE  Ranges'
  <2>1. left' = [left EXCEPT ![s] = b] /\ UNCHANGED <<took, failures, wait, age>>
    BY <1>3 DEF Arrive, memory
  <2> QED BY <2>1, LimiterAssumption DEF Ranges
<1>4. ASSUME NEW s \in Scrapes, HangUp(s) \/ Reply(s)
      PROVE  Ranges'
  <2>1. left' = [left EXCEPT ![s] = 0] /\ UNCHANGED <<took, failures, wait, age>>
    BY <1>4 DEF HangUp, Reply, memory
  <2> QED BY <2>1 DEF Ranges
<1>5. ASSUME NEW s \in Scrapes, NEW r \in Outcomes, ProbeReturns(s, r)
      PROVE  Ranges'
  <2>1. dev[s] \in Devices
    BY <1>1, <1>5 DEF ProbeReturns, Calls
  <2>2. Record(dev[s], r) /\ took' = [took EXCEPT ![s] = 0] /\ UNCHANGED <<left, age>>
    BY <1>5 DEF ProbeReturns
  <2>3. failures' \in [Devices -> 0 .. MaxFailures] /\ wait' \in [Devices -> 0 .. LongestDelay]
    BY <2>1, <2>2, RecordRanges
  <2>4. took' \in [Scrapes -> 0 .. Latency]
    BY <2>2, Zeroes DEF Ranges
  <2> QED BY <2>2, <2>3, <2>4 DEF Ranges
<1>6. ASSUME NEW s \in Scrapes, Store(s)
      PROVE  Ranges'
  <2>1. age' \in {age, [age EXCEPT ![dev[s]] = 0]} /\ UNCHANGED <<left, took, failures, wait>>
    BY <1>6 DEF Store
  <2> QED BY <2>1, Zeroes DEF Ranges
<1>7. ASSUME NEW s \in Scrapes,
             \/ Lookup(s) \/ Join(s) \/ Acquire(s) \/ Refused(s) \/ GiveUp(s) \/ GiveBack(s)
             \/ Begin(s) \/ Release(s) \/ Complete(s)
      PROVE  Ranges'
  BY <1>2, <1>7 DEF Lookup, Join, Acquire, Refused, GiveUp, GiveBack, Begin, Release, Complete, memory
<1>8. CASE Tick
  BY <1>1, <1>8, TickRanges
<1>9. CASE UNCHANGED vars
  BY <1>2, <1>9 DEF vars, memory
<1> QED BY <1>3, <1>4, <1>5, <1>6, <1>7, <1>8, <1>9 DEF Next, Step

\* Every counter and clock keeps its range, and no device is left alone longer than the top of
\* the ladder with its jitter, for any initial delay, factor, limit and number of failures
\* (Backoff.delay and Backoff.Record in backoff.go).
THEOREM DelaysAreCapped == Spec => []TypeOK
<1>1. Init => Ranges
  <2>1. CacheTTL + 1 \in 0 .. CacheTTL + 1
    BY LimiterAssumption
  <2> QED BY <2>1, Zeroes DEF Init, Ranges
<1>2. LimiterInv /\ Ranges /\ [Next]_vars => Ranges'
  BY RangesKept
<1>3. LimiterInv /\ Ranges => TypeOK
  <2>1. LimiterInv => used \in 0 .. MaxConcurrent
    BY LimiterAssumption DEF LimiterInv, Types, TokensConserved
  <2> QED BY <2>1 DEF LimiterInv, Types, Ranges, TypeOK
<1> QED BY <1>1, <1>2, <1>3, LimiterInvariant, PTL DEF Spec
=============================================================================
