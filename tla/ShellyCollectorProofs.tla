------------------------ MODULE ShellyCollectorProofs ------------------------
(***************************************************************************)
(* What holds of the scrapes of a Shelly whatever the network does with    *)
(* its addresses.  CollectorInv says that a scrape works with one epoch's  *)
(* client and names; CheckInv that the registry's epoch stands for its     *)
(* address, so that what was checked at an epoch was checked there.        *)
(***************************************************************************)
EXTENDS ShellyCollector, TLAPS

-----------------------------------------------------------------------------
(* The invariants *)

Clients    == [epoch : Nat, credential : {"global", "override"}]
NameSets   == [of : Devices \cup {None}, epoch : Nat, fresh : BOOLEAN]
Identities == [epoch : Nat, fresh : BOOLEAN]
Steps      == {"idle", "identify", "client", "names", "cloud", "status"}
Probes     == [pc : Steps, addr : Addrs \cup {None}, epoch : Nat, host : BOOLEAN, name : Devices \cup {None}]

Typed ==
    /\ lan \in [Addrs -> Devices \cup {Nobody}]
    /\ reg \in [addr : Addrs, epoch : Nat \ {0}, host : BOOLEAN]
    /\ identity \in Identities \cup {None} /\ client \in Clients \cup {None} /\ names \in NameSets \cup {None}
    /\ cloud \in {"loading", "known", "unknown"}
    /\ probe \in Probes /\ (probe.pc # "idle" => probe.addr \in Addrs)
    /\ {checked, forgotten} \subseteq BOOLEAN
    /\ upsets \in 0 .. MaxUpsets

\* The device has one address, so that the registry, having followed it, rests: its epoch moves
\* once for a move of the device and twice for a time it was misled.
OnePlace == \A a, b \in Addrs : lan[a] = Me /\ lan[b] = Me => a = b
Astray   == IF lan[reg.addr] = Me THEN 0 ELSE 1
Spent    == OnePlace /\ reg.epoch + Astray <= 2 + 2 * upsets

\* Past its lookup a scrape has the client and the names of its epoch, and the name they give.
OneEpoch ==
    /\ probe.pc \in {"names", "cloud", "status"} => client # None /\ client.epoch = probe.epoch
    /\ probe.pc \in {"cloud", "status"} /\ FetchConfig =>
          names # None /\ names.epoch = probe.epoch /\ probe.name = OwnName(names)

CollectorInv == Typed /\ Spent /\ OneEpoch

\* Until the registry forgets the device an epoch stands for one address.
EpochsStand ==
    /\ identity # None => identity.epoch <= reg.epoch
    /\ probe.pc # "idle" => probe.epoch <= reg.epoch /\ (probe.epoch = reg.epoch => probe.addr = reg.addr)

\* What was checked is still so, where the registry now turns to and where the scrape is.
Checks ==
    /\ identity # None /\ identity.epoch = reg.epoch => lan[reg.addr] = Me
    /\ probe.pc \in {"client", "names", "cloud", "status"} => lan[probe.addr] = Me

CheckInv == ~forgotten => EpochsStand /\ (checked => Checks)

-----------------------------------------------------------------------------
(* What the actions share *)

\* No entry is no entry: None is neither a client nor a set of names.
LEMMA NoEntry == None \notin Clients /\ None \notin NameSets /\ Me \in Devices /\ None \notin Devices
BY ShellyAssumption DEF Clients, NameSets, Devices

\* The name that cached names give is the device's, or none.
LEMMA OwnNameTyped ==
    ASSUME NEW entry \in NameSets \cup {None}
    PROVE  OwnName(entry) \in Devices \cup {None}
BY NoEntry DEF OwnName, NameSets

LEMMA IdleTyped == Idle \in Probes /\ Idle.pc = "idle"
<1>1. 0 \in Nat /\ FALSE \in BOOLEAN
  OBVIOUS
<1> QED BY <1>1 DEF Idle, Probes, Steps

\* The registry's account is settled by the network and the registry only.
LEMMA SameAccount ==
    ASSUME Spent, UNCHANGED <<lan, reg, upsets>>
    PROVE  Spent'
BY DEF Spent, OnePlace, Astray

\* A scrape moves on: its address, its epoch and its name stay.
LEMMA Moved ==
    ASSUME Typed, probe.pc # "idle", NEW pc \in Steps \ {"idle"}, Goto(pc)
    PROVE  /\ probe' \in Probes /\ probe'.pc = pc /\ probe'.addr = probe.addr /\ probe'.addr \in Addrs
           /\ probe'.epoch = probe.epoch /\ probe'.name = probe.name
<1>1. probe \in Probes /\ probe.addr \in Addrs /\ probe' = [probe EXCEPT !.pc = pc]
  BY DEF Typed, Goto
<1>2. pc \in Steps
  OBVIOUS
<1> QED BY <1>1, <1>2 DEF Probes

\* A scrape that fails leaves everything but the result, and perhaps the names.
LEMMA GivenUp ==
    ASSUME CollectorInv, CheckInv, probe' = Idle, names' \in NameSets \cup {None}, upsets' \in upsets .. MaxUpsets,
           UNCHANGED <<lan, reg, cloud, forgotten, identity, client, checked>>
    PROVE  CollectorInv' /\ CheckInv'
<1>1. Typed'
  <2>1. {checked', forgotten'} \subseteq BOOLEAN
    BY DEF CollectorInv, Typed
  <2>2. upsets' \in 0 .. MaxUpsets
    BY ShellyAssumption DEF CollectorInv, Typed
  <2> QED BY <2>1, <2>2, IdleTyped DEF CollectorInv, Typed
<1>2. Spent'
  <2>1. Astray' = Astray /\ Astray \in {0, 1} /\ reg.epoch \in Nat /\ upsets \in Nat /\ upsets' \in Nat /\ upsets <= upsets'
    BY ShellyAssumption DEF CollectorInv, Typed, Astray
  <2> QED BY <2>1 DEF CollectorInv, Spent, OnePlace
<1>3. OneEpoch'
  BY IdleTyped DEF OneEpoch
<1>4. CheckInv'
  BY IdleTyped DEF CheckInv, EpochsStand, Checks
<1> QED BY <1>1, <1>2, <1>3, <1>4 DEF CollectorInv

-----------------------------------------------------------------------------
(* The scrape *)

LEMMA BeginKeeps ==
    ASSUME CollectorInv, CheckInv, Begin
    PROVE  CollectorInv' /\ CheckInv'
<1> DEFINE pc == IF Warm(identity, reg.epoch) THEN "client" ELSE "identify"
<1>1. /\ probe' = [pc |-> pc, addr |-> reg.addr, epoch |-> reg.epoch, host |-> reg.host, name |-> None]
      /\ UNCHANGED <<lan, reg, cloud, upsets, forgotten, identity, client, names, checked>>
  BY DEF Begin, world, caches
<1>2. pc \in {"client", "identify"} /\ (pc = "client" => identity # None /\ identity.epoch = reg.epoch)
  BY DEF Warm
<1> HIDE DEF pc
<1>3. reg.addr \in Addrs /\ reg.epoch \in Nat /\ reg.host \in BOOLEAN
  BY DEF CollectorInv, Typed
<1>4. probe' \in Probes /\ probe'.addr \in Addrs /\ probe'.pc = pc
  BY <1>1, <1>2, <1>3 DEF Probes, Steps
<1>5. Typed'
  <2>1. {checked', forgotten'} \subseteq BOOLEAN
    BY <1>1 DEF CollectorInv, Typed
  <2> QED BY <1>1, <1>4, <2>1 DEF CollectorInv, Typed
<1>6. Spent' /\ OneEpoch'
  BY <1>1, <1>2, <1>4, SameAccount DEF CollectorInv, OneEpoch
<1>7. CheckInv'
  <2>1. probe'.epoch = reg.epoch /\ probe'.addr = reg.addr
    BY <1>1
  <2> QED BY <1>1, <1>2, <1>3, <1>4, <2>1 DEF CheckInv, EpochsStand, Checks
<1> QED BY <1>5, <1>6, <1>7 DEF CollectorInv

LEMMA IdentifyKeeps ==
    ASSUME CollectorInv, CheckInv, Identify
    PROVE  CollectorInv' /\ CheckInv'
<1>1. CASE lan[probe.addr] # Me
  <2>1. names \in NameSets \cup {None} /\ upsets \in upsets .. MaxUpsets
    BY ShellyAssumption DEF CollectorInv, Typed
  <2>2. probe' = Idle /\ UNCHANGED <<lan, reg, cloud, upsets, forgotten, identity, client, names, checked>>
    BY <1>1 DEF Identify, Fail, world
  <2> QED BY <2>1, <2>2, GivenUp
<1>2. CASE lan[probe.addr] = Me
  <2>1. /\ identity' = [epoch |-> probe.epoch, fresh |-> TRUE] /\ checked' = TRUE /\ Goto("client")
        /\ probe.pc = "identify" /\ UNCHANGED <<lan, reg, cloud, upsets, forgotten, client, names>>
    BY <1>2 DEF Identify, world
  <2>2. /\ probe' \in Probes /\ probe'.pc = "client" /\ probe'.addr = probe.addr /\ probe'.addr \in Addrs
        /\ probe'.epoch = probe.epoch
    BY <2>1, Moved DEF CollectorInv, Steps
  <2>3. identity' \in Identities /\ identity'.epoch = probe.epoch
    <3>1. probe.epoch \in Nat /\ TRUE \in BOOLEAN
      BY DEF CollectorInv, Typed, Probes
    <3> QED BY <2>1, <3>1 DEF Identities
  <2>4. Typed'
    <3>1. {checked', forgotten'} \subseteq BOOLEAN
      BY <2>1 DEF CollectorInv, Typed
    <3> QED BY <2>1, <2>2, <2>3, <3>1 DEF CollectorInv, Typed
  <2>5. Spent' /\ OneEpoch'
    BY <2>1, <2>2, SameAccount DEF CollectorInv, OneEpoch
  <2>6. CheckInv'
    BY <1>2, <2>1, <2>2, <2>3 DEF CheckInv, EpochsStand, Checks
  <2> QED BY <2>4, <2>5, <2>6 DEF CollectorInv
<1> QED BY <1>1, <1>2

\* A step within a scrape that was checked, or warm, at the start: what it knows of the network
\* stays as it is.
LEMMA ScrapeSteps ==
    ASSUME CollectorInv, CheckInv, probe.pc \in {"client", "names", "cloud"},
           probe' \in Probes, probe'.pc \in {"names", "cloud", "status"},
           probe'.addr = probe.addr, probe'.epoch = probe.epoch,
           client' \in Clients \cup {None}, names' \in NameSets \cup {None}, OneEpoch',
           UNCHANGED <<lan, reg, cloud, upsets, forgotten, identity, checked>>
    PROVE  CollectorInv' /\ CheckInv'
<1>1. Typed'
  <2>1. {checked', forgotten'} \subseteq BOOLEAN
    BY DEF CollectorInv, Typed
  <2> QED BY <2>1 DEF CollectorInv, Typed
<1>2. Spent'
  BY SameAccount DEF CollectorInv
<1>3. CheckInv'
  BY DEF CheckInv, EpochsStand, Checks
<1> QED BY <1>1, <1>2, <1>3 DEF CollectorInv

LEMMA TakeClientKeeps ==
    ASSUME CollectorInv, CheckInv, TakeClient
    PROVE  CollectorInv' /\ CheckInv'
<1> DEFINE pc == IF FetchConfig THEN "names" ELSE "cloud"
           new == [epoch |-> probe.epoch, credential |-> Resolve(probe.host)]
<1>1. /\ probe.pc = "client" /\ Goto(pc) /\ pc \in {"names", "cloud"} /\ (FetchConfig => pc = "names")
      /\ client' = IF client # None /\ client.epoch = probe.epoch THEN client ELSE new
      /\ UNCHANGED <<lan, reg, cloud, upsets, forgotten, identity, names, checked>>
  BY DEF TakeClient, world
<1> HIDE DEF pc
<1>2. /\ probe' \in Probes /\ probe'.pc = pc /\ probe'.addr = probe.addr
      /\ probe'.epoch = probe.epoch
  BY <1>1, Moved DEF CollectorInv, Steps
<1>3. new \in Clients /\ new.epoch = probe.epoch
  <2>1. probe.epoch \in Nat /\ Resolve(probe.host) \in {"global", "override"}
    BY DEF CollectorInv, Typed, Probes, Resolve
  <2> QED BY <2>1 DEF Clients
<1> HIDE DEF new
<1>4. client' \in Clients \cup {None} /\ client' # None /\ client'.epoch = probe.epoch
  BY <1>1, <1>3, NoEntry DEF CollectorInv, Typed
<1>5. OneEpoch'
  BY <1>1, <1>2, <1>4 DEF OneEpoch
<1>6. names' \in NameSets \cup {None}
  BY <1>1 DEF CollectorInv, Typed
<1> QED BY <1>1, <1>2, <1>4, <1>5, <1>6, ScrapeSteps

LEMMA FetchedTyped ==
    ASSUME Typed, probe.pc # "idle"
    PROVE  Fetched \in NameSets /\ Fetched.epoch = probe.epoch
<1>1. lan[probe.addr] \in Devices \cup {Nobody} /\ probe.epoch \in Nat /\ TRUE \in BOOLEAN
  BY DEF Typed, Probes
<1> DEFINE of == IF Answers(lan[probe.addr], client.credential) THEN lan[probe.addr] ELSE None
<1>2. of \in Devices \cup {None}
  BY <1>1 DEF Answers
<1>3. Fetched = [of |-> of, epoch |-> probe.epoch, fresh |-> TRUE]
  BY DEF Fetched
<1> HIDE DEF of
<1> QED BY <1>1, <1>2, <1>3 DEF NameSets

LEMMA EnsureNamesKeeps ==
    ASSUME CollectorInv, CheckInv, EnsureNames
    PROVE  CollectorInv' /\ CheckInv'
<1>1. /\ probe.pc = "names" /\ probe' = [probe EXCEPT !.pc = "cloud", !.name = OwnName(names')]
      /\ IF Warm(names, probe.epoch) THEN UNCHANGED names ELSE names' = Fetched
      /\ UNCHANGED <<lan, reg, cloud, upsets, forgotten, identity, client, checked>>
  BY DEF EnsureNames, world
<1>2. names' \in NameSets /\ names'.epoch = probe.epoch
  BY <1>1, FetchedTyped DEF CollectorInv, Typed, Warm
<1>3. names' # None
  BY <1>2, NoEntry
<1> DEFINE n == OwnName(names')
<1>4. n \in Devices \cup {None}
  BY <1>2 , NoEntry DEF OwnName, NameSets
<1>5. probe' = [probe EXCEPT !.pc = "cloud", !.name = n]
  BY <1>1
<1> HIDE DEF n
<1>6. /\ probe' \in Probes /\ probe'.pc = "cloud" /\ probe'.addr = probe.addr
      /\ probe'.epoch = probe.epoch /\ probe'.name = n
  <2>1. probe \in Probes /\ "cloud" \in Steps
    BY DEF CollectorInv, Typed, Steps
  <2> QED BY <1>4, <1>5, <2>1 DEF Probes
<1>7. OneEpoch'
  <2>1. client # None /\ client.epoch = probe.epoch
    BY <1>1 DEF CollectorInv, OneEpoch
  <2>2. probe'.name = OwnName(names')
    BY <1>6 DEF n
  <2>3. OwnName(names)' = OwnName(names')
    BY DEF OwnName
  <2> QED BY <1>1, <1>2, <1>3, <1>6, <2>1, <2>2, <2>3 DEF OneEpoch
<1>8. client' \in Clients \cup {None}
  BY <1>1 DEF CollectorInv, Typed
<1> QED BY <1>1, <1>2, <1>6, <1>7, <1>8, ScrapeSteps

LEMMA AwaitCloudKeeps ==
    ASSUME CollectorInv, CheckInv, AwaitCloud
    PROVE  CollectorInv' /\ CheckInv'
<1>1. /\ probe.pc = "cloud" /\ Goto("status")
      /\ UNCHANGED <<lan, reg, cloud, upsets, forgotten, identity, client, names, checked>>
  BY DEF AwaitCloud, world, caches
<1>2. /\ probe' \in Probes /\ probe'.pc = "status" /\ probe'.addr = probe.addr
      /\ probe'.epoch = probe.epoch /\ probe'.name = probe.name
  BY <1>1, Moved DEF CollectorInv, Steps
<1>3. OneEpoch'
  BY <1>1, <1>2 DEF CollectorInv, OneEpoch, OwnName
<1>4. client' \in Clients \cup {None} /\ names' \in NameSets \cup {None}
  BY <1>1 DEF CollectorInv, Typed
<1> QED BY <1>1, <1>2, <1>3, <1>4, ScrapeSteps

LEMMA ReadStatusKeeps ==
    ASSUME CollectorInv, CheckInv, ReadStatus
    PROVE  CollectorInv' /\ CheckInv'
<1>1. probe' = Idle /\ UNCHANGED <<lan, reg, cloud, upsets, forgotten, identity, client, names, checked>>
  BY DEF ReadStatus, Fail, world, caches
<1>2. names' \in NameSets \cup {None} /\ upsets' \in upsets .. MaxUpsets
  BY <1>1, ShellyAssumption DEF CollectorInv, Typed
<1> QED BY <1>1, <1>2, GivenUp

LEMMA RequestFailsKeeps ==
    ASSUME CollectorInv, CheckInv, RequestFails
    PROVE  CollectorInv' /\ CheckInv'
<1>1. probe' = Idle /\ UNCHANGED <<lan, reg, cloud, forgotten, identity, client, checked>>
  BY DEF RequestFails, Fail
<1>2. upsets' \in upsets .. MaxUpsets
  BY ShellyAssumption DEF RequestFails, Upset, CollectorInv, Typed
<1>3. names' \in NameSets \cup {None}
  <2>1. probe.epoch \in Nat /\ TRUE \in BOOLEAN
    BY DEF CollectorInv, Typed, Probes
  <2>2. [of |-> None, epoch |-> probe.epoch, fresh |-> TRUE] \in NameSets
    BY <2>1 DEF NameSets
  <2> QED BY <2>2 DEF RequestFails, CollectorInv, Typed
<1> QED BY <1>1, <1>2, <1>3, GivenUp

-----------------------------------------------------------------------------
(* The clock, the network, the registry *)

LEMMA ExpireKeeps ==
    ASSUME CollectorInv, CheckInv, ExpireIdentity \/ ExpireNames
    PROVE  CollectorInv' /\ CheckInv'
<1>1. UNCHANGED <<lan, reg, cloud, upsets, forgotten, client, probe, checked>>
  BY DEF ExpireIdentity, ExpireNames, world
<1>2. FALSE \in BOOLEAN
  OBVIOUS
<1>3. /\ identity' \in Identities \cup {None}
      /\ identity' # None => identity # None /\ identity'.epoch = identity.epoch
  <2>1. CASE ExpireIdentity
    <3>1. identity \in Identities /\ identity' = [identity EXCEPT !.fresh = FALSE] /\ identity # None
      BY <2>1 DEF ExpireIdentity, CollectorInv, Typed
    <3>2. identity' \in Identities /\ identity'.epoch = identity.epoch
      BY <1>2, <3>1 DEF Identities
    <3> QED BY <3>1, <3>2
  <2>2. CASE ExpireNames
    BY <2>2 DEF ExpireNames, CollectorInv, Typed
  <2> QED BY <2>1, <2>2
<1>4. /\ names' \in NameSets \cup {None} /\ (names' = None <=> names = None)
      /\ (names # None => names'.epoch = names.epoch /\ names'.of = names.of)
  <2>1. CASE ExpireNames
    <3>1. names \in NameSets /\ names' = [names EXCEPT !.fresh = FALSE] /\ names # None
      BY <2>1 DEF ExpireNames, CollectorInv, Typed
    <3>2. names' \in NameSets /\ names'.epoch = names.epoch /\ names'.of = names.of
      BY <1>2, <3>1 DEF NameSets
    <3>3. names' # None
      BY <3>2, NoEntry
    <3> QED BY <3>1, <3>2, <3>3
  <2>2. CASE ExpireIdentity
    BY <2>2 DEF ExpireIdentity, CollectorInv, Typed
  <2> QED BY <2>1, <2>2
<1>5. Typed'
  <2>1. {checked', forgotten'} \subseteq BOOLEAN
    BY <1>1 DEF CollectorInv, Typed
  <2> QED BY <1>1, <1>3, <1>4, <2>1 DEF CollectorInv, Typed
<1>6. Spent'
  BY <1>1, SameAccount DEF CollectorInv
<1>7. OneEpoch'
  BY <1>1, <1>4 DEF CollectorInv, OneEpoch, OwnName
<1>8. CheckInv'
  BY <1>1, <1>3 DEF CheckInv, EpochsStand, Checks
<1> QED BY <1>5, <1>6, <1>7, <1>8 DEF CollectorInv

LEMMA ReassignKeeps ==
    ASSUME CollectorInv, CheckInv, NEW a \in Addrs, NEW device \in Devices \cup {Nobody}, Reassign(a, device)
    PROVE  CollectorInv' /\ CheckInv'
<1>1. /\ lan' = [b \in Addrs |-> IF b = a THEN device ELSE IF lan[b] = device THEN Nobody ELSE lan[b]]
      /\ upsets < MaxUpsets /\ upsets' = upsets + 1 /\ checked' = FALSE
      /\ UNCHANGED <<reg, cloud, forgotten, identity, client, names, probe>>
  BY DEF Reassign, Upset, caches
<1>2. upsets \in Nat /\ upsets' \in 0 .. MaxUpsets
  BY <1>1, ShellyAssumption DEF CollectorInv, Typed
<1>3. Typed'
  <2>1. lan' \in [Addrs -> Devices \cup {Nobody}]
    BY <1>1 DEF CollectorInv, Typed
  <2>2. {checked', forgotten'} \subseteq BOOLEAN
    BY <1>1 DEF CollectorInv, Typed
  <2> QED BY <1>1, <1>2, <2>1, <2>2 DEF CollectorInv, Typed
<1>4. Spent'
  <2>1. Astray \in {0, 1} /\ Astray' \in {0, 1} /\ reg'.epoch = reg.epoch /\ reg.epoch \in Nat
    BY <1>1 DEF CollectorInv, Typed, Astray
  <2>2. OnePlace'
    <3>1. ASSUME NEW b \in Addrs, lan'[b] = Me
          PROVE  /\ device = Me => b = a
                 /\ device # Me => lan[b] = Me
      <4>1. lan'[b] = IF b = a THEN device ELSE IF lan[b] = device THEN Nobody ELSE lan[b]
        BY <1>1
      <4> QED BY <3>1, <4>1, ShellyAssumption
    <3>2. OnePlace
      BY DEF CollectorInv, Spent
    <3> QED BY <3>1, <3>2 DEF OnePlace
  <2> QED BY <1>1, <1>2, <2>1, <2>2 DEF CollectorInv, Spent
<1>5. OneEpoch'
  BY <1>1 DEF CollectorInv, OneEpoch, OwnName
<1>6. CheckInv'
  BY <1>1 DEF CheckInv, EpochsStand
<1> QED BY <1>3, <1>4, <1>5, <1>6 DEF CollectorInv

\* The registry turns to another address, and its epoch moves with it.
LEMMA ReaddressKeeps ==
    ASSUME CollectorInv, CheckInv, NEW a \in Addrs, Readdress(a), upsets' \in upsets .. MaxUpsets,
           lan[a] = Me \/ upsets' = upsets + 1,
           UNCHANGED <<lan, cloud, forgotten, identity, client, names, probe, checked>>
    PROVE  CollectorInv' /\ CheckInv'
<1> DEFINE e == reg.epoch + 1
<1>1. /\ reg.epoch \in Nat \ {0} /\ e \in Nat \ {0} /\ reg.addr # a /\ upsets \in Nat /\ upsets' \in 0 .. MaxUpsets
      /\ upsets' \in Nat /\ upsets <= upsets'
  BY ShellyAssumption DEF CollectorInv, Typed, Readdress
<1>2. reg \in [addr : Addrs, epoch : Nat \ {0}, host : BOOLEAN] /\ reg' = [reg EXCEPT !.addr = a, !.epoch = e]
  BY DEF CollectorInv, Typed, Readdress
<1>3. e > reg.epoch
  BY <1>1
<1>4. reg' \in [addr : Addrs, epoch : Nat \ {0}, host : BOOLEAN] /\ reg'.addr = a /\ reg'.epoch = e
  <2> HIDE DEF e
  <2> QED BY <1>1, <1>2
<1>5. Typed'
  <2>1. {checked', forgotten'} \subseteq BOOLEAN
    BY DEF CollectorInv, Typed
  <2> QED BY <1>1, <1>4, <2>1 DEF CollectorInv, Typed
<1>6. Spent'
  <2>1. CASE lan[a] = Me
    <3>1. Astray' = 0
      BY <1>4, <2>1 DEF Astray
    <3>2. Astray = 1
      BY <1>1, <2>1 DEF CollectorInv, Typed, Spent, OnePlace, Astray
    <3> QED BY <1>1, <1>4, <3>1, <3>2 DEF CollectorInv, Spent, OnePlace
  <2>2. CASE upsets' = upsets + 1
    <3>1. Astray \in {0, 1} /\ Astray' \in {0, 1}
      BY DEF Astray
    <3> QED BY <1>1, <1>4, <2>2, <3>1 DEF CollectorInv, Spent, OnePlace
  <2> QED BY <2>1, <2>2
<1>7. OneEpoch'
  BY DEF CollectorInv, OneEpoch, OwnName
<1>8. CheckInv'
  <2> SUFFICES ASSUME ~forgotten PROVE EpochsStand' /\ (checked => Checks')
    BY DEF CheckInv
  <2>1. EpochsStand /\ (checked => Checks)
    BY DEF CheckInv
  <2>2. identity # None => identity.epoch \in Nat /\ identity.epoch <= reg.epoch
    BY <2>1 DEF EpochsStand, CollectorInv, Typed, Identities
  <2>3. probe.pc # "idle" => probe.epoch \in Nat /\ probe.epoch <= reg.epoch
    BY <2>1 DEF EpochsStand, CollectorInv, Typed, Probes
  <2> HIDE DEF e
  <2>4. EpochsStand'
    BY <1>1, <1>3, <1>4, <2>2, <2>3 DEF EpochsStand
  <2>5. checked => Checks'
    BY <1>1, <1>3, <1>4, <2>1, <2>2 DEF Checks
  <2> QED BY <2>4, <2>5
<1> QED BY <1>5, <1>6, <1>7, <1>8 DEF CollectorInv

LEMMA RediscoverKeeps ==
    ASSUME CollectorInv, CheckInv, Rediscover
    PROVE  CollectorInv' /\ CheckInv'
<1>1. PICK a \in Addrs : reg' = [addr |-> a, epoch |-> 1, host |-> FALSE]
  BY DEF Rediscover
<1>2. /\ upsets < MaxUpsets /\ upsets' = upsets + 1 /\ forgotten' = TRUE
      /\ UNCHANGED <<lan, cloud, identity, client, names, probe, checked>>
  BY DEF Rediscover, Upset, caches
<1>3. upsets \in Nat /\ upsets' \in 0 .. MaxUpsets
  BY <1>2, ShellyAssumption DEF CollectorInv, Typed
<1>4. reg' \in [addr : Addrs, epoch : Nat \ {0}, host : BOOLEAN] /\ reg'.epoch = 1
  <2>1. 1 \in Nat \ {0} /\ FALSE \in BOOLEAN
    OBVIOUS
  <2> QED BY <1>1, <2>1
<1>5. Typed'
  <2>1. {checked', forgotten'} \subseteq BOOLEAN
    BY <1>2 DEF CollectorInv, Typed
  <2> QED BY <1>2, <1>3, <1>4, <2>1 DEF CollectorInv, Typed
<1>6. Spent'
  <2>1. Astray' \in {0, 1}
    BY DEF Astray
  <2>2. reg'.epoch + Astray' <= 2 + 2 * upsets'
    <3>1. reg'.epoch = 1 /\ upsets' = upsets + 1 /\ upsets \in Nat
      BY <1>2, <1>3, <1>4
    <3>2. 2 + 2 * upsets' = 4 + 2 * upsets /\ 2 * upsets \in Nat
      BY <3>1
    <3>3. reg'.epoch + Astray' \in {1, 2}
      <4>1. \A x \in {0, 1} : 1 + x \in {1, 2}
        OBVIOUS
      <4> QED BY <2>1, <3>1, <4>1, Zenon
    <3>4. \A n \in Nat, m \in {1, 2} : m <= 4 + n
      OBVIOUS
    <3> QED BY <3>2, <3>3, <3>4
  <2>3. OnePlace'
    BY <1>2 DEF CollectorInv, Spent, OnePlace
  <2> QED BY <2>2, <2>3 DEF Spent
<1>7. OneEpoch'
  BY <1>2 DEF CollectorInv, OneEpoch, OwnName
<1>8. CheckInv'
  BY <1>2 DEF CheckInv
<1> QED BY <1>5, <1>6, <1>7, <1>8 DEF CollectorInv

\* What is learnt of the hostname, or by the cloud, touches nothing of this.
LEMMA LearnKeeps ==
    ASSUME CollectorInv, CheckInv, LearnHostname \/ CloudChanges
    PROVE  CollectorInv' /\ CheckInv'
<1>1. UNCHANGED <<lan, forgotten, identity, client, names, probe, checked>>
  BY DEF LearnHostname, CloudChanges, caches
<1>2. /\ reg' \in [addr : Addrs, epoch : Nat \ {0}, host : BOOLEAN]
      /\ reg'.addr = reg.addr /\ reg'.epoch = reg.epoch
  <2>1. reg \in [addr : Addrs, epoch : Nat \ {0}, host : BOOLEAN] /\ TRUE \in BOOLEAN
    BY DEF CollectorInv, Typed
  <2>2. UNCHANGED reg \/ reg' = [reg EXCEPT !.host = TRUE]
    BY DEF LearnHostname, CloudChanges
  <2> QED BY <2>1, <2>2
<1>3. cloud' \in {"loading", "known", "unknown"}
  BY DEF LearnHostname, CloudChanges, CollectorInv, Typed
<1>4. upsets \in Nat /\ upsets' \in 0 .. MaxUpsets /\ upsets <= upsets'
  BY ShellyAssumption DEF LearnHostname, CloudChanges, Upset, CollectorInv, Typed
<1>5. Typed'
  <2>1. {checked', forgotten'} \subseteq BOOLEAN
    BY <1>1 DEF CollectorInv, Typed
  <2> QED BY <1>1, <1>2, <1>3, <1>4, <2>1 DEF CollectorInv, Typed
<1>6. Spent'
  <2>1. Astray' = Astray /\ Astray \in {0, 1} /\ reg.epoch \in Nat
    BY <1>1, <1>2 DEF CollectorInv, Typed, Astray
  <2> QED BY <1>1, <1>2, <1>4, <2>1 DEF CollectorInv, Spent, OnePlace
<1>7. OneEpoch'
  BY <1>1 DEF CollectorInv, OneEpoch, OwnName
<1>8. CheckInv'
  BY <1>1, <1>2 DEF CheckInv, EpochsStand, Checks
<1> QED BY <1>5, <1>6, <1>7, <1>8 DEF CollectorInv

-----------------------------------------------------------------------------
(* The theorems *)

LEMMA InitHolds == Init => CollectorInv /\ CheckInv
<1> SUFFICES ASSUME Init PROVE CollectorInv /\ CheckInv
  OBVIOUS
<1>1. reg \in [addr : Addrs, epoch : Nat \ {0}, host : BOOLEAN] /\ reg.epoch = 1
  BY DEF Init
<1>2. Typed
  <2>1. {checked, forgotten} \subseteq BOOLEAN
    BY DEF Init
  <2> QED BY <1>1, <2>1, IdleTyped, ShellyAssumption DEF Init, Typed
<1>3. Spent
  <2>1. OnePlace
    BY ShellyAssumption DEF Init, OnePlace
  <2>2. Astray \in {0, 1} /\ upsets = 0
    BY DEF Init, Astray
  <2> QED BY <1>1, <2>1, <2>2 DEF Spent
<1>4. OneEpoch /\ CheckInv
  BY IdleTyped DEF Init, OneEpoch, CheckInv, EpochsStand, Checks
<1> QED BY <1>2, <1>3, <1>4 DEF CollectorInv

LEMMA NextKeeps == CollectorInv /\ CheckInv /\ [Next]_vars => CollectorInv' /\ CheckInv'
<1> SUFFICES ASSUME CollectorInv, CheckInv, [Next]_vars PROVE CollectorInv' /\ CheckInv'
  OBVIOUS
<1>1. CASE Probe
  BY <1>1, BeginKeeps, IdentifyKeeps, TakeClientKeeps, EnsureNamesKeeps, AwaitCloudKeeps, ReadStatusKeeps
  DEF Probe
<1>2. CASE RequestFails \/ ExpireIdentity \/ ExpireNames
  BY <1>2, RequestFailsKeeps, ExpireKeeps
<1>3. CASE Network
  <2>1. CASE Follow
    <3>1. PICK a \in Addrs : lan[a] = Me /\ Readdress(a)
      BY <2>1 DEF Follow
    <3>2. upsets' \in upsets .. MaxUpsets
      BY <2>1, ShellyAssumption DEF Follow, CollectorInv, Typed
    <3> QED BY <2>1, <3>1, <3>2, ReaddressKeeps DEF Follow, caches
  <2>2. CASE Mislead
    <3>1. PICK a \in Addrs : Readdress(a)
      BY <2>2 DEF Mislead
    <3>2. upsets' \in upsets .. MaxUpsets /\ upsets' = upsets + 1
      BY <2>2, ShellyAssumption DEF Mislead, Upset, CollectorInv, Typed
    <3> QED BY <2>2, <3>1, <3>2, ReaddressKeeps DEF Mislead, caches
  <2>3. CASE \E a \in Addrs, device \in Devices \cup {Nobody} : Reassign(a, device)
    BY <2>3, ReassignKeeps
  <2>4. CASE LearnHostname \/ CloudChanges \/ Rediscover
    BY <2>4, LearnKeeps, RediscoverKeeps
  <2> QED BY <1>3, <2>1, <2>2, <2>3, <2>4 DEF Network
<1>4. CASE UNCHANGED vars
  <2>1. UNCHANGED <<lan, reg, cloud, upsets, forgotten, identity, client, names, probe, checked>>
    BY <1>4 DEF vars, world, caches
  <2>2. Typed'
    BY <2>1 DEF CollectorInv, Typed
  <2>3. Spent' /\ OneEpoch'
    BY <2>1, SameAccount DEF CollectorInv, OneEpoch, OwnName
  <2>4. CheckInv'
    BY <2>1 DEF CheckInv, EpochsStand, Checks
  <2> QED BY <2>2, <2>3, <2>4 DEF CollectorInv
<1> QED BY <1>1, <1>2, <1>3, <1>4 DEF Next

\* Only a status that was read is a success.
LEMMA OnlyReadStatusSucceeds ==
    ASSUME Next, result' # result, result'.ok
    PROVE  ReadStatus
<1>1. \A why : ~Failed(why).ok
  BY DEF Failed
<1>2. ~Begin /\ ~TakeClient /\ ~EnsureNames /\ ~AwaitCloud /\ ~ExpireIdentity /\ ~ExpireNames /\ ~Network
  BY DEF Begin, TakeClient, EnsureNames, AwaitCloud, ExpireIdentity, ExpireNames, Network, Reassign, Follow,
         Mislead, LearnHostname, Rediscover, CloudChanges
<1>3. ~Identify /\ ~RequestFails
  BY <1>1 DEF Identify, RequestFails, Fail
<1> QED BY <1>2, <1>3 DEF Next, Probe

LEMMA Outcome ==
    ASSUME ReadStatus, result'.ok
    PROVE  result'.of = lan[probe.addr] /\ result'.name = Label
<1>1. \A why : ~Failed(why).ok
  BY DEF Failed
<1>2. result' = Read(lan[probe.addr], Label)
  BY <1>1 DEF ReadStatus, Fail
<1> QED BY <1>2 DEF Read

\* The invariants that carry the rest: one epoch's client and names for a scrape, and an epoch that
\* stands for one address (the epoch keys of cache.go and recomputeAddrs).
THEOREM CollectorInvariant == Spec => [](CollectorInv /\ CheckInv)
<1> QED BY InitHolds, NextKeeps, PTL DEF Spec

\* Every scrape works with the client and the names of the epoch it began in, however addresses,
\* caches and the registry move under it (Collector.Probe).
THEOREM CollectorTyped == Spec => []TypeOK
<1>1. CollectorInv => TypeOK
  <2> SUFFICES ASSUME CollectorInv PROVE TypeOK
    OBVIOUS
  <2>1. lan \in [Addrs -> Devices \cup {Nobody}] /\ reg.addr \in Addrs
    BY DEF CollectorInv, Typed
  <2>2. reg.epoch \in 1 .. 2 + 2 * MaxUpsets
    <3>1. Astray \in {0, 1} /\ reg.epoch \in Nat \ {0} /\ upsets \in Nat /\ upsets <= MaxUpsets
      BY ShellyAssumption DEF CollectorInv, Typed, Astray
    <3> QED BY <3>1, ShellyAssumption DEF CollectorInv, Spent
  <2>3. (client # None => client.credential \in {"global", "override"}) /\ (names # None => names.of \in Devices \cup {None})
    BY DEF CollectorInv, Typed, Clients, NameSets
  <2>4. cloud \in {"loading", "known", "unknown"} /\ probe.pc \in Steps
    BY DEF CollectorInv, Typed, Probes
  <2>5. {checked, forgotten} \subseteq BOOLEAN
    BY DEF CollectorInv, Typed
  <2> QED BY <2>1, <2>2, <2>3, <2>4, <2>5 DEF CollectorInv, OneEpoch, Steps, TypeOK
<1> QED BY <1>1, CollectorInvariant, PTL

\* Readings of another device are not emitted as this one's while the last check of the MAC still
\* speaks for the network: an identity that is cached was checked at the address its epoch stands
\* for (fetchIdentity, verifyMAC), until the registry forgets the device.
THEOREM CheckedBeforeItIsRead == Spec => CheckedBeforeRead
<1>1. CollectorInv /\ CheckInv /\ [Next]_vars
        => [result' # result /\ result'.ok /\ checked /\ ~forgotten => result'.of = Me]_vars
  <2> SUFFICES ASSUME CollectorInv, CheckInv, Next, result' # result, result'.ok, checked, ~forgotten
               PROVE  result'.of = Me
    OBVIOUS
  <2>1. ReadStatus
    BY OnlyReadStatusSucceeds
  <2>2. result'.of = lan[probe.addr]
    BY <2>1, Outcome
  <2>3. lan[probe.addr] = Me
    BY <2>1 DEF ReadStatus, CheckInv, Checks
  <2> QED BY <2>2, <2>3
<1> QED BY <1>1, CollectorInvariant, PTL DEF Spec, CheckedBeforeRead

\* The label is the registry's name only while no name is cached: a refreshed identity takes the
\* cached names back (ensureNames, identity's own Name field).
THEOREM NamesAreKept == Spec => NameIsKept
<1>1. CollectorInv /\ CheckInv /\ [Next]_vars
        => [FetchConfig /\ result' # result /\ result'.ok /\ result'.name = "registry" => names.of = None]_vars
  <2> SUFFICES ASSUME CollectorInv, Next, FetchConfig, result' # result, result'.ok, result'.name = "registry"
               PROVE  names.of = None
    OBVIOUS
  <2>1. ReadStatus
    BY OnlyReadStatusSucceeds
  <2>2. result'.name = Label
    BY <2>1, Outcome
  <2>3. names \in NameSets /\ probe.name = OwnName(names) /\ names # None
    BY <2>1 DEF ReadStatus, CollectorInv, Typed, OneEpoch
  <2>4. probe.name \in Devices \cup {None}
    BY <2>3, OwnNameTyped
  <2>5. probe.name = None
    BY <2>2, <2>4, ShellyAssumption DEF Label, Devices
  <2> QED BY <2>3, <2>5, NoEntry DEF OwnName
<1> QED BY <1>1, CollectorInvariant, PTL DEF Spec, NameIsKept
=============================================================================
