-------------------------------- MODULE Limiter --------------------------------
(***************************************************************************)
(* The gates every probe passes: internal/probe/{limiter,backoff,prober}.go *)
(* and their caller internal/app/runner.go.  A scrape is one HTTP request   *)
(* for one device, in a goroutine of its own.  It passes backoff, a short   *)
(* result cache, single-flight and a counting semaphore, in this order, and *)
(* each gate is taken under a lock of its own: what a gate said may be      *)
(* stale when the next one is passed.  singleflight.Group and               *)
(* semaphore.Weighted are library code, modelled as they are used here.     *)
(*                                                                         *)
(* Times are kept as what is left of them, in ticks: `left' of a scrape's   *)
(* budget, `wait' until a device's nextAttempt; `age' is how old a cached   *)
(* result is.  A tick passes only while every scrape waits for something:   *)
(* the steps between two waits take no time of their own, though those of   *)
(* different scrapes interleave in every order.                             *)
(***************************************************************************)
EXTENDS Integers, Sequences, SequencesExt, FiniteSets

CONSTANTS
    Scrapes,            \* requests; a name is used again, at most once in a tick
    Devices,
    Budgets,            \* the values scrapeTimeout can return
    MaxConcurrent, CacheTTL,
    FailuresBeforeOpen, Initial, MaxDelay, AuthInitial, AuthMax, Factor,
    JitterPercent,      \* jitter, in hundredths
    MaxFailures,        \* bound: the failure counter is not counted further
    Healthy,            \* devices that answer every request
    Latency,            \* ... within this long
    Impatient,          \* scrapes whose client may hang up
    Nothing             \* no scrape, no device

ASSUME LimiterAssumption ==
    /\ Nothing \notin Scrapes \cup Devices
    /\ IsFiniteSet(Scrapes)
    /\ Budgets \subseteq Nat
    /\ {MaxConcurrent, Factor, Latency, MaxFailures} \subseteq Nat \ {0}
    /\ {FailuresBeforeOpen, CacheTTL, Initial, MaxDelay, AuthInitial, AuthMax} \subseteq Nat
    /\ MaxFailures >= FailuresBeforeOpen
    /\ JitterPercent \in 0 .. 99
    /\ Healthy \subseteq Devices
    /\ Impatient \subseteq Scrapes
    /\ \A b \in Budgets : b > Latency     \* a healthy device answers within any budget

VARIABLES
    pc,         \* how far a scrape has come
    dev,        \* the device it asks for
    left,       \* what is left of its context's deadline
    took,       \* how long its probe function has been running
    result,     \* what it will answer
    flight,     \* singleflight: the leader of the call in progress for a device
    used,       \* semaphore: tokens taken
    queue,      \* semaphore: leaders waiting for a token, first come first served
    failures,   \* backoff: consecutive failures
    wait,       \* backoff: time left until nextAttempt
    cached, age \* the last stored result of a device and its age

gates  == <<flight, used, queue>>
memory == <<failures, wait, cached, age>>
vars   == <<pc, dev, left, took, result, gates, memory>>

\* A leader from Join to the removal of its call, and those of them that hold a token.
Holding == {"granted", "probing", "recorded", "stored"}
Leading == {"leader", "queued", "released"} \cup Holding
Steps   == {"idle", "allowed", "missed", "follower", "done", "replied"} \cup Leading

\* "fault" is every device fault but a rejected credential, timeouts included.
Outcomes == {"ok", "auth", "fault"}
Results  == Outcomes \cup {"none", "backoff", "in_flight_limit"}

\* Reason.IsDeviceFault
IsDeviceFault(r) == r \notin {"none", "ok", "backoff", "in_flight_limit"}

-----------------------------------------------------------------------------
(* Backoff *)

Smaller(a, b) == IF a < b THEN a ELSE b

\* math.Pow(Factor, steps)
Power[steps \in 0 .. MaxFailures] == IF steps = 0 THEN 1 ELSE Factor * Power[steps - 1]

\* Backoff.delay: exponential, capped, jittered to either side.
Delays(n, r) ==
    LET initial == IF r = "auth" THEN AuthInitial ELSE Initial
        limit   == IF r = "auth" THEN AuthMax ELSE MaxDelay
        ladder  == Smaller(initial * Power[n - FailuresBeforeOpen], limit)
    IN  (ladder * (100 - JitterPercent)) \div 100
          .. (ladder * (100 + JitterPercent)) \div 100

\* Backoff.Record of result r for device d.  The counter saturates: by then the ladder
\* has reached its top.
Record(d, r) ==
    \/ /\ r = "ok"
       /\ failures' = [failures EXCEPT ![d] = 0]
       /\ wait' = [wait EXCEPT ![d] = 0]
    \/ /\ IsDeviceFault(r)
       /\ failures' = [failures EXCEPT ![d] = Smaller(@ + 1, MaxFailures)]
       /\ \/ /\ failures[d] + 1 < FailuresBeforeOpen
             /\ wait' = [wait EXCEPT ![d] = 0]
          \/ /\ failures[d] + 1 >= FailuresBeforeOpen
             /\ \E delay \in Delays(failures'[d], r) : wait' = [wait EXCEPT ![d] = delay]

-----------------------------------------------------------------------------
(* The gates *)

\* Mutant: backoff is never asked.
ArriveAnyway(s, d, budget) ==
    /\ pc[s] = "idle"
    /\ dev' = [dev EXCEPT ![s] = d]
    /\ left' = [left EXCEPT ![s] = budget]
    /\ pc' = [pc EXCEPT ![s] = "allowed"]
    /\ UNCHANGED <<took, result, gates, memory>>

\* Do, Allow: a scrape for device d is refused during backoff.
Arrive(s, d, budget) ==
    /\ pc[s] = "idle"
    /\ dev' = [dev EXCEPT ![s] = d]
    /\ left' = [left EXCEPT ![s] = budget]
    /\ \/ /\ wait[d] > 0
          /\ pc' = [pc EXCEPT ![s] = "done"]
          /\ result' = [result EXCEPT ![s] = "backoff"]
       \/ /\ wait[d] = 0
          /\ pc' = [pc EXCEPT ![s] = "allowed"]
          /\ UNCHANGED result
    /\ UNCHANGED <<took, gates, memory>>

Fresh(d) == CacheTTL > 0 /\ age[d] <= CacheTTL

\* lookup: a result stored at most CacheTTL ago is the answer.
Lookup(s) ==
    /\ pc[s] = "allowed"
    /\ \/ /\ Fresh(dev[s])
          /\ pc' = [pc EXCEPT ![s] = "done"]
          /\ result' = [result EXCEPT ![s] = cached[dev[s]]]
       \/ /\ ~Fresh(dev[s])
          /\ pc' = [pc EXCEPT ![s] = "missed"]
          /\ UNCHANGED result
    /\ UNCHANGED <<dev, left, took, gates, memory>>

\* Mutant: no single-flight.
JoinNobody(s) ==
    /\ pc[s] = "missed"
    /\ flight' = [flight EXCEPT ![dev[s]] = s]
    /\ pc' = [pc EXCEPT ![s] = "leader"]
    /\ UNCHANGED <<dev, left, took, result, used, queue, memory>>

\* group.Do: the first scrape of a device leads the call, the others wait for its result.
Join(s) ==
    /\ pc[s] = "missed"
    /\ \/ /\ flight[dev[s]] = Nothing
          /\ flight' = [flight EXCEPT ![dev[s]] = s]
          /\ pc' = [pc EXCEPT ![s] = "leader"]
       \/ /\ flight[dev[s]] # Nothing
          /\ pc' = [pc EXCEPT ![s] = "follower"]
          /\ UNCHANGED flight
    /\ UNCHANGED <<dev, left, took, result, used, queue, memory>>

\* The call that s leads returns r: it is removed and everyone waiting for it is told.
Sharing(s) == {s} \cup {t \in Scrapes : pc[t] = "follower" /\ dev[t] = dev[s]}

Finish(s, r) ==
    /\ flight' = [flight EXCEPT ![dev[s]] = Nothing]
    /\ pc' = [t \in Scrapes |-> IF t \in Sharing(s) THEN "done" ELSE pc[t]]
    /\ result' = [t \in Scrapes |-> IF t \in Sharing(s) THEN r ELSE result[t]]

\* sem.Acquire: a token if one is free and nobody queues for it.
Acquire(s) ==
    /\ pc[s] = "leader"
    /\ left[s] > 0
    /\ \/ /\ used < MaxConcurrent
          /\ queue = <<>>
          /\ used' = used + 1
          /\ pc' = [pc EXCEPT ![s] = "granted"]
          /\ UNCHANGED queue
       \/ /\ ~(used < MaxConcurrent /\ queue = <<>>)
          /\ queue' = Append(queue, s)
          /\ pc' = [pc EXCEPT ![s] = "queued"]
          /\ UNCHANGED used
    /\ UNCHANGED <<dev, left, took, result, flight, memory>>

\* Mutant: sem.Release is deferred before the error of sem.Acquire is looked at.
RefusedAndReleased(s) ==
    /\ pc[s] = "leader"
    /\ left[s] = 0
    /\ used' = used - 1
    /\ Finish(s, "in_flight_limit")
    /\ UNCHANGED <<dev, left, took, queue, memory>>

\* sem.Acquire fails: the context was done before it was called, or while queueing.
Refused(s) ==
    /\ pc[s] = "leader"
    /\ left[s] = 0
    /\ Finish(s, "in_flight_limit")
    /\ UNCHANGED <<dev, left, took, used, queue, memory>>

GiveUp(s) ==
    /\ pc[s] = "queued"
    /\ left[s] = 0
    /\ \E i \in DOMAIN queue : queue[i] = s /\ queue' = RemoveAt(queue, i)
    /\ Finish(s, "in_flight_limit")
    /\ UNCHANGED <<dev, left, took, used, memory>>

\* sem.Release: the token goes to the head of the queue.
HandOver(s, at) ==
    \/ /\ queue = <<>>
       /\ used' = used - 1
       /\ pc' = [pc EXCEPT ![s] = at]
       /\ UNCHANGED queue
    \/ /\ queue # <<>>
       /\ queue' = Tail(queue)
       /\ pc' = [pc EXCEPT ![s] = at, ![Head(queue)] = "granted"]
       /\ UNCHANGED used

\* A token that arrives together with the deadline is given back.
GiveBack(s) ==
    /\ pc[s] = "granted"
    /\ left[s] = 0
    /\ HandOver(s, "leader")
    /\ UNCHANGED <<dev, left, took, result, flight, memory>>

\* The probe function starts.
Begin(s) ==
    /\ pc[s] = "granted"
    /\ left[s] > 0
    /\ pc' = [pc EXCEPT ![s] = "probing"]
    /\ UNCHANGED <<dev, left, took, result, gates, memory>>

\* What the probe function may return now.  A healthy device answers after Latency unless
\* the context is done first; a cancelled request is reported as a timeout as well, which
\* is a device fault (internal/shelly/errors.go).
Outcome(s) ==
    IF dev[s] \in Healthy
    THEN (IF took[s] >= Latency THEN {"ok"} ELSE {})
            \cup (IF left[s] = 0 THEN {"fault"} ELSE {})
    ELSE IF left[s] = 0 THEN {"fault"} ELSE Outcomes

\* Mutant: fn does not see the deadline, and a dead device never answers.
ProbeReturnsInTime(s, r) ==
    /\ pc[s] = "probing"
    /\ left[s] > 0
    /\ r \in Outcome(s)
    /\ Record(dev[s], r)
    /\ pc' = [pc EXCEPT ![s] = "recorded"]
    /\ took' = [took EXCEPT ![s] = 0]
    /\ result' = [result EXCEPT ![s] = r]
    /\ UNCHANGED <<dev, left, gates, cached, age>>

\* fn returns, and Record.
ProbeReturns(s, r) ==
    /\ pc[s] = "probing"
    /\ r \in Outcome(s)
    /\ Record(dev[s], r)
    /\ pc' = [pc EXCEPT ![s] = "recorded"]
    /\ took' = [took EXCEPT ![s] = 0]
    /\ result' = [result EXCEPT ![s] = r]
    /\ UNCHANGED <<dev, left, gates, cached, age>>

\* Mutant: only successes are stored.
StoreSuccess(s) ==
    /\ pc[s] = "recorded"
    /\ pc' = [pc EXCEPT ![s] = "stored"]
    /\ \/ /\ CacheTTL > 0 /\ result[s] = "ok"
          /\ cached' = [cached EXCEPT ![dev[s]] = result[s]]
          /\ age' = [age EXCEPT ![dev[s]] = 0]
       \/ ~(CacheTTL > 0 /\ result[s] = "ok") /\ UNCHANGED <<cached, age>>
    /\ UNCHANGED <<dev, left, took, result, gates, failures, wait>>

\* store
Store(s) ==
    /\ pc[s] = "recorded"
    /\ pc' = [pc EXCEPT ![s] = "stored"]
    /\ \/ /\ CacheTTL > 0
          /\ cached' = [cached EXCEPT ![dev[s]] = result[s]]
          /\ age' = [age EXCEPT ![dev[s]] = 0]
       \/ CacheTTL = 0 /\ UNCHANGED <<cached, age>>
    /\ UNCHANGED <<dev, left, took, result, gates, failures, wait>>

\* Mutant: the token is not released.
ReleaseNothing(s) ==
    /\ pc[s] = "stored"
    /\ pc' = [pc EXCEPT ![s] = "released"]
    /\ UNCHANGED <<dev, left, took, result, gates, memory>>

\* The deferred sem.Release, before the call is over.
Release(s) ==
    /\ pc[s] = "stored"
    /\ HandOver(s, "released")
    /\ UNCHANGED <<dev, left, took, result, flight, memory>>

Complete(s) ==
    /\ pc[s] = "released"
    /\ Finish(s, result[s])
    /\ UNCHANGED <<dev, left, took, used, queue, memory>>

\* runner.Run answers.  What it reports to the registry is Registry's ScrapeSuccess.
Reply(s) ==
    /\ pc[s] = "done"
    /\ pc' = [pc EXCEPT ![s] = "replied"]
    /\ result' = [result EXCEPT ![s] = "none"]
    /\ left' = [left EXCEPT ![s] = 0]
    /\ dev' = [dev EXCEPT ![s] = Nothing]
    /\ UNCHANGED <<took, gates, memory>>

\* The client goes away and net/http cancels the request's context.
HangUp(s) ==
    /\ s \in Impatient
    /\ pc[s] \notin {"idle", "done", "replied"}
    /\ left[s] > 0
    /\ left' = [left EXCEPT ![s] = 0]
    /\ UNCHANGED <<pc, dev, took, result, gates, memory>>

\* Waiting for a device, for a token, or for the leader of the call.
Waits(s) ==
    \/ pc[s] \in {"idle", "replied", "follower"}
    \/ pc[s] = "queued" /\ left[s] > 0
    \/ pc[s] = "probing" /\ left[s] > 0 /\ (dev[s] \in Healthy => took[s] < Latency)

Less(t) == IF t > 0 THEN t - 1 ELSE 0

Tick ==
    /\ \A s \in Scrapes : Waits(s)
    /\ left' = [s \in Scrapes |-> Less(left[s])]
    /\ took' = [s \in Scrapes |-> IF pc[s] = "probing" /\ dev[s] \in Healthy
                                  THEN took[s] + 1 ELSE took[s]]
    /\ wait' = [d \in Devices |-> Less(wait[d])]
    /\ age' = [d \in Devices |-> Smaller(age[d] + 1, CacheTTL + 1)]
    /\ pc' = [s \in Scrapes |-> IF pc[s] = "replied" THEN "idle" ELSE pc[s]]
    /\ UNCHANGED <<dev, result, gates, failures, cached>>

Init ==
    /\ pc = [s \in Scrapes |-> "idle"]
    /\ dev = [s \in Scrapes |-> Nothing]
    /\ left = [s \in Scrapes |-> 0]
    /\ took = [s \in Scrapes |-> 0]
    /\ result = [s \in Scrapes |-> "none"]
    /\ flight = [d \in Devices |-> Nothing]
    /\ used = 0
    /\ queue = <<>>
    /\ failures = [d \in Devices |-> 0]
    /\ wait = [d \in Devices |-> 0]
    /\ cached = [d \in Devices |-> "none"]
    /\ age = [d \in Devices |-> CacheTTL + 1]

Step(s) ==
    \/ Lookup(s)
    \/ Join(s)
    \/ Acquire(s)
    \/ Refused(s)
    \/ GiveUp(s)
    \/ GiveBack(s)
    \/ Begin(s)
    \/ \E r \in Outcomes : ProbeReturns(s, r)
    \/ Store(s)
    \/ Release(s)
    \/ Complete(s)
    \/ Reply(s)

Next ==
    \/ \E s \in Scrapes, d \in Devices, b \in Budgets : Arrive(s, d, b)
    \/ \E s \in Scrapes : Step(s)
    \/ \E s \in Scrapes : HangUp(s)
    \/ Tick

\* Goroutines are scheduled, devices and contexts answer or expire, and time passes.
\* Nothing obliges a client to scrape or to hang up.
Fairness == (\A s \in Scrapes : WF_vars(Step(s))) /\ WF_vars(Tick)

Spec == Init /\ [][Next]_vars /\ Fairness

-----------------------------------------------------------------------------
(* What the gates promise *)

Larger(a, b) == IF a > b THEN a ELSE b

\* The top of the longer ladder, with its jitter.
LongestDelay == (Larger(MaxDelay, AuthMax) * (100 + JitterPercent)) \div 100

\* Every variable keeps its type: no device is left alone longer than the ladder's top, and
\* no healthy one is waited for longer than it takes to answer.
TypeOK ==
    /\ pc \in [Scrapes -> Steps]
    /\ dev \in [Scrapes -> Devices \cup {Nothing}]
    /\ left \in [Scrapes -> Nat]
    /\ took \in [Scrapes -> 0 .. Latency]
    /\ result \in [Scrapes -> Results]
    /\ flight \in [Devices -> Scrapes \cup {Nothing}]
    /\ used \in 0 .. MaxConcurrent
    /\ queue \in Seq(Scrapes)
    /\ failures \in [Devices -> 0 .. MaxFailures]
    /\ wait \in [Devices -> 0 .. LongestDelay]
    /\ cached \in [Devices -> Outcomes \cup {"none"}]
    /\ age \in [Devices -> 0 .. CacheTTL + 1]

\* A device is never asked by two probes at once, however many scrapes race through
\* backoff and the cache: singleflight covers the whole of the probe, the wait for a
\* token and the bookkeeping after it included.
OneCallPerDevice ==
    \A s, t \in Scrapes :
        pc[s] \in Leading /\ pc[t] \in Leading /\ dev[s] = dev[t] => s = t

\* No token is lost or used twice, on any path out of the semaphore: granted late, given
\* back, handed over or given up.  And nobody queues while one is free.
TokensConserved ==
    /\ used = Cardinality({s \in Scrapes : pc[s] \in Holding})
    /\ used <= MaxConcurrent
    /\ queue # <<>> => used = MaxConcurrent

\* The cache and the backoff state, kept under different locks, tell the same story of a
\* device once no call is in progress for it.
CacheAgreesWithBackoff ==
    \A d \in Devices : flight[d] = Nothing /\ Fresh(d) =>
        (cached[d] = "ok" <=> failures[d] = 0)

\* Every scrape is answered, those included that wait for the result of another one
\* whose client may be gone.
EveryScrapeAnswered == \A s \in Scrapes : pc[s] # "idle" ~> pc[s] = "idle"

\* A device does not stay in backoff for ever, however often it is scraped meanwhile.
BackoffEnds == \A d \in Devices : wait[d] > 0 ~> wait[d] = 0
=============================================================================
