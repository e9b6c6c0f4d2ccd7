------------------------------ MODULE Readings -------------------------------
(***************************************************************************)
(* From a document to series: the Shelly decoders, internal/shelly gen1,   *)
(* gen2, generic and jsonpath, and the ESPHome rendering,                  *)
(* internal/esphome collector and entities.                                *)
(*                                                                         *)
(* A document is what a device sends: its components and the readings each *)
(* has a usable value for (a null, a missing key and a value of the wrong  *)
(* type are one, jsonpath.go).  A Gen2 document is walked component by     *)
(* component, a snapshot of a node entity by entity, each in the order of  *)
(* a Go map: any.  Meanwhile the names of the Shelly app may be refreshed, *)
(* which the walk looks up component by component.                         *)
(***************************************************************************)
EXTENDS Metrics, TLC

CONSTANTS
    Documents,          \* what devices may send
    MaxRawLeaves,       \* maxGenericLeaves
    GenericFallback, PercentAsRatio, TextSensors, MaxStateAge      \* configuration

ASSUME ReadingsAssumption ==
    /\ MaxRawLeaves \in Nat \ {0}
    /\ {GenericFallback, PercentAsRatio, TextSensors, MaxStateAge} \subseteq BOOLEAN

VARIABLES
    doc,        \* the document under decode
    left,       \* its components, or entities, not walked yet
    out,        \* the emitter: series, those emitted twice, errors
    app,        \* the name the app has for the channels of this device, if any
    renamed     \* history: it changed during the walk

vars == <<doc, left, out, app, renamed>>

-----------------------------------------------------------------------------
(* Shelly, the second generation: what each extractor reads *)

R(field, family)      == Reading(field, family, Blank, <<>>)
RX(field, family, x)  == Reading(field, family, Blank, <<x>>)
RP(field, family, p)  == Reading(field, family, p, <<>>)
RPX(field, family, p, x) == Reading(field, family, p, <<x>>)

Electrical ==
    {R("apower", "power_watts"), R("aprt_power", "apparent_power_voltamperes"), R("voltage", "voltage_volts"),
     R("current", "current_amperes"), R("pf", "power_factor"), R("freq", "frequency_hertz"),
     RX("aenergy", "energy_joules", "import"), RX("ret_aenergy", "energy_joules", "export")}

ComponentErrors == {RX("errors", "component_error", "fault")}
Powered == Electrical \cup ComponentErrors \cup {R("temperature", "temperature_celsius")}

Phases == {"a", "b", "c"}

\* extractEM: three phases, the neutral and the total, each reading with its phase.
PhaseReadings(p) ==
    {RP(p \o "_act_power", "power_watts", p), RP(p \o "_aprt_power", "apparent_power_voltamperes", p),
     RP(p \o "_voltage", "voltage_volts", p), RP(p \o "_current", "current_amperes", p),
     RP(p \o "_pf", "power_factor", p), RP(p \o "_freq", "frequency_hertz", p)}
ThreePhases == UNION {PhaseReadings(p) : p \in Phases}

EM == ThreePhases \cup ComponentErrors \cup
    {RP("n_current", "current_amperes", "n"), RP("total_act_power", "power_watts", "total"),
     RP("total_aprt_power", "apparent_power_voltamperes", "total"), RP("total_current", "current_amperes", "total")}

\* extractEMData and extractEM1Data.
EnergyOf(field, p) ==
    {RPX(field \o "_act_energy", "energy_joules", p, "import"),
     RPX(field \o "_act_ret_energy", "energy_joules", p, "export")}
EMData  == EnergyOf("total", "total") \cup UNION {EnergyOf(p \o "_total", p) : p \in Phases}
EM1Data == EnergyOf("total", Blank)

\* extractEM1 reads the apparent power, and electrical reads it again.
EM1 == {R("act_power", "power_watts"), R("aprt_power_again", "apparent_power_voltamperes")}
       \cup Electrical \cup ComponentErrors

Input == ComponentErrors \cup
    {R("state", "input_state"), R("percent", "ratio"), RX("counts.total", "input_counts", "total"),
     RX("counts.xtotal", "input_counts", "xtotal"), R("freq", "frequency_hertz")}

DevicePower == ComponentErrors \cup
    {R("battery.V", "voltage_volts"), R("battery.percent", "battery_ratio"), R("external", "external_power_present")}

\* extractSys: both update channels in every scrape.
Sys ==
    {R("uptime", "uptime_seconds"), R("restart_required", "restart_required"),
     RX("ram_size", "ram_bytes", "size"), RX("ram_free", "ram_bytes", "free"),
     RX("fs_size", "fs_bytes", "size"), RX("fs_free", "fs_bytes", "free"),
     RX("always", "update_available", "stable"), RX("always", "update_available", "beta")}

\* extractors.
Extractor ==
    [switch      |-> Powered \cup {R("output", "switch_on")},
     light       |-> Powered \cup {R("output", "light_on"), R("brightness", "light_brightness_ratio")},
     cover       |-> Powered \cup {RX("current_pos", "cover_position_ratio", "current"),
                                   RX("target_pos", "cover_position_ratio", "target")},
     input       |-> Input,
     em          |-> EM,
     em1         |-> EM1,
     emdata      |-> EMData,
     em1data     |-> EM1Data,
     pm1         |-> Electrical \cup ComponentErrors,
     temperature |-> ComponentErrors \cup {R("tC", "temperature_celsius")},
     humidity    |-> ComponentErrors \cup {R("rh", "humidity_ratio")},
     illuminance |-> ComponentErrors \cup {R("lux", "illuminance_lux")},
     voltmeter   |-> ComponentErrors \cup {R("voltage", "voltage_volts"), R("xvoltage", "voltage_volts")},
     devicepower |-> DevicePower,
     smoke       |-> ComponentErrors \cup {R("alarm", "smoke_alarm"), R("mute", "smoke_muted")},
     sys         |-> Sys,
     wifi        |-> {R("rssi", "wifi_rssi_dbm"), R("status", "wifi_connected")},
     cloud       |-> {R("connected", "cloud_connected")},
     mqtt        |-> {R("connected", "mqtt_connected")},
     ws          |-> {R("connected", "websocket_connected")},
     eth         |-> {R("ip", "ethernet_up")}]


Lights     == {"light", "rgb", "rgbw", "cct"}       \* one extractor
Types      == DOMAIN Extractor \cup Lights
\* skipComponents: no measurements.
Skipped    == {"ble", "ht_ui", "knx", "modbus", "plugs_ui", "matter", "script", "schedule", "webhook"}
ReadingsOf(type) == Extractor[IF type \in Lights THEN "light" ELSE type]

\* What may be read of what is there, which extractEM1 reads once more.
Readable(has)    == has \cup {"always"} \cup IF "aprt_power" \in has THEN {"aprt_power_again"} ELSE {}
Usable(rs, has)  == {r \in rs : r.at \in Readable(has)}

\* extractEMData and extractEM1Data emit as the meter they belong to.
Meter == [emdata |-> "em", em1data |-> "em1"]
MeterOf(type) == IF type \in DOMAIN Meter THEN Meter[type] ELSE type

\* cloudChannelComponents, by the category of the device's channels in the app.
AppNames(category) ==
    CASE category = "relay"  -> {"switch"}
      [] category = "cover"  -> {"cover"}
      [] category = "light"  -> Lights
      [] category = "emeter" -> {"em1", "pm1"}
      [] OTHER               -> {}

NameIn(type) ==
    IF app # Blank /\ type \in AppNames(doc.category) THEN app
    ELSE IF type \in doc.named THEN "own" ELSE Blank

\* Mutant: the energy component keeps its own type's name.
ComponentNameAsIs(type) == NameIn(type)

\* componentName: the app's, or the one the device's own configuration has for the meter, or none.
ComponentName(type) == NameIn(MeterOf(type))

\* The leaves of an unknown component are paths: <<key>>, or <<object, key>>, which one level of nesting
\* bounds; a number in an array is a leaf with its index in its key, and a denied key is none.  A key
\* is a sequence of words, the maximal runs of letters and digits, and separators.  Of a word and its
\* capitals the numbers differ in the last bit.
Dash       == 0
Underscore == 1
IsWord(x)  == x > Underscore
Key(k)     == k \in Seq(Nat) /\ \A i \in 1 .. Len(k) - 1 : ~(IsWord(k[i]) /\ IsWord(k[i + 1]))

\* collectLeaves: the name of a leaf, by which the map of leaves is indexed.
Name(path) ==
    IF Len(path) = 1 \/ path[1] = <<>> THEN path[Len(path)] ELSE path[1] \o <<Underscore>> \o path[2]
NamesOf(paths) == {Name(p) : p \in paths}

\* SanitizeName: words in small letters, one separator between any two.  (That of the component, a
\* label as well, is left out.)
RawFamily(name) ==
    LET words == SelectSeq(name, IsWord) IN "raw_" \o ToString([i \in DOMAIN words |-> words[i] \div 2])

\* collectLeaves: keys and objects are met in any order.  Every leaf of the component itself is found; an
\* object is entered unless twice the leaves wanted are found by then.
Objects(has)   == {p[1] : p \in {q \in has : Len(q) = 2}}
Within(has, O) == {p \in has : Len(p) = 2 /\ p[1] \in O}
Beside(has)    == {p \in has : Len(p) = 1}
Enough(paths)  == Cardinality(NamesOf(paths)) >= 2 * MaxRawLeaves
Found(has) ==
    {NamesOf(Beside(has) \cup Within(has, O)) : O \in {P \in SUBSET Objects(has) :
        /\ P # {} => \E last \in P : ~Enough(Within(has, P \ {last}))
        /\ P # Objects(has) => Enough(Beside(has) \cup Within(has, P))}}

\* genericWalk: of the leaves found the first few by name.
Precedes(s, t) ==
    \/ \E i \in DOMAIN s \cap DOMAIN t : s[i] < t[i] /\ \A j \in 1 .. i - 1 : s[j] = t[j]
    \/ Len(s) < Len(t) /\ \A j \in DOMAIN s : s[j] = t[j]
FirstFew(names)    == {n \in names : Cardinality({k \in names : Precedes(k, n)}) < MaxRawLeaves}
RawReadings(names) == {RawReading(n, RawFamily(n)) : n \in FirstFew(names)}

Walked(c, emitted) ==
    /\ left' = left \ {c} /\ out' = Emit(out, emitted)
    /\ UNCHANGED <<doc, app, renamed>>

\* decodeGen2Status, per component.
WalkComponent(c) ==
    /\ c.type \in Types
    /\ Walked(c, Label(Usable(ReadingsOf(c.type), c.has), MeterOf(c.type), c.id, ComponentName(c.type)))

SkipComponent(c) == c.type \in Skipped /\ Walked(c, {})

WalkUnknown(c) ==
    /\ c.type \notin Types \cup Skipped
    /\ \E names \in Found(c.has) :
          Walked(c, IF GenericFallback THEN Label(RawReadings(names), c.type, c.id, Blank) ELSE {})

-----------------------------------------------------------------------------
(* Shelly, the first generation: one document of a fixed shape *)

OfRelay  == {R("always", "switch_on"), RX("overpower", "component_error", "overpower")}
OfMeter  == {R("valid", "power_watts"), RX("total", "energy_joules", "import"),
             RX("total_returned", "energy_joules", "export")}
OfEMeter == {R("power", "power_watts"), R("voltage", "voltage_volts"), R("current", "current_amperes"),
             R("pf", "power_factor"), RX("total", "energy_joules", "import"),
             RX("total_returned", "energy_joules", "export")}
OfInput  == {R("always", "input_state"), RX("always", "input_counts", "event")}
OfLight  == {R("always", "light_on"), R("brightness", "light_brightness_ratio")}

\* What the whole device reports, by the component it is filed under.
OfDevice ==
    [humidity     |-> {R("hum", "humidity_ratio")},
     illuminance  |-> {R("lux", "illuminance_lux")},
     devicepower  |-> {R("bat.value", "battery_ratio"), R("bat.voltage", "voltage_volts")},
     ext_temperature |-> {R("ext_temperature", "temperature_celsius")},
     ext_humidity |-> {R("ext_humidity", "humidity_ratio")},
     sys          |-> Sys \ {R("restart_required", "restart_required")},
     wifi         |-> {R("rssi", "wifi_rssi_dbm"), R("always", "wifi_connected")},
     cloud        |-> {R("always", "cloud_connected")},
     mqtt         |-> {R("always", "mqtt_connected")}]

\* Mutant: meters[] of a light is filed under switch.
OutputAlwaysSwitch(d) == "switch"

\* The component that meters[] and the internal temperature belong to.
Output(d)     == IF d.relays = 0 /\ d.lights > 0 THEN "light" ELSE "switch"
HasOutputs(d) == d.relays + d.lights + d.meters > 0

\* tmp is internal on a device with outputs, where the top-level temperature wins, and ambient else.
Internal(d) == "temperature" \in d.has \/ ("tmp" \in d.has /\ HasOutputs(d))

Named(rs, has, component, id) == Label(Usable(rs, has), component, id, ComponentName(component))

OfInside(d)  == IF Internal(d) THEN {R("always", "temperature_celsius"),
                                     RX("overtemperature", "component_error", "overtemp")} ELSE {}
OfOutside(d) == IF HasOutputs(d) THEN {} ELSE {R("tmp", "temperature_celsius")}

\* One after the other: what n of a kind report, then what is there once.
Each(n, rs, has, component) == UNION {Named(rs, has, component, i) : i \in 0 .. n - 1}

Decoded(d) ==
    UNION ({Each(d.relays, OfRelay, d.has, "switch"),
            Each(IF "valid" \in d.has THEN d.meters ELSE 0, OfMeter, d.has, Output(d)),
            Each(d.emeters, OfEMeter, d.has, "em1"),
            Each(d.inputs, OfInput, d.has, "input"),
            Each(d.lights, OfLight, d.has, "light"),
            Named(OfInside(d), d.has, Output(d), 0),
            Label(Usable(OfOutside(d), d.has), "temperature", 0, Blank)}
           \cup {Label(Usable(OfDevice[c], d.has), c, 0, Blank) : c \in DOMAIN OfDevice})

\* decodeGen1Status.
DecodeGen1(d) == Walked(d, Decoded(d))

-----------------------------------------------------------------------------
(* An ESPHome node: a snapshot of the cache, entity by entity *)

\* entityFromMessage: the domains that have records; of some the state is a float.
Floats  == {"sensor", "number", "cover", "climate"}
Domains == Floats \cup {"binary_sensor", "text_sensor", "switch", "light", "fan", "select", "lock", "button"}

\* Mutant: NaN and infinity are taken for readings.
MissingNotNaN(n) == n.payload = "missing"

\* stateFromMessage: which payloads of which domains become a missing reading.
Missing(n) ==
    \/ n.payload = "missing"
    \/ n.payload = "nan" /\ n.domain \in {"sensor", "number"}
    \/ n.payload = "inf" /\ n.domain = "sensor"

Stale(n) == n.old /\ MaxStateAge

\* Mutant: a total that does not only grow is filed as a counter.
NumericByUnit(n) ==
    LET family == ResolveUnit(n.unit, n.class, PercentAsRatio) IN
    IF family = "sensor_value" THEN RX("state", family, "unit")
    ELSE IF family = "energy_joules" /\ n.increasing THEN RX("state", family, "import")
    ELSE R("state", family)

\* emitNumeric: the unit's family, unless the reading would be mistyped there.
Numeric(n) ==
    LET family == ResolveUnit(n.unit, n.class, PercentAsRatio) IN
    IF family = "sensor_value" \/ (family = "energy_joules" /\ ~n.increasing)
    THEN RX("state", "sensor_value", "unit")
    ELSE IF family = "energy_joules" THEN RX("state", family, "import") ELSE R("state", family)

\* Emitter.Enum: a series for each choice, one after the other; of a list that is empty none, which is
\* what emitEntity's own checks of its length come to.
Choices(family, all) == {Reading(ToString(i), family, Blank, <<all[i]>>) : i \in DOMAIN all}

\* emitEntity, past its checks: by domain.
ValuesOf(n) ==
    CASE n.domain \in {"sensor", "number"} -> {Numeric(n)}
      [] n.domain = "binary_sensor" -> {R("state", "binary_state")}
      [] n.domain = "switch"        -> {R("state", "switch_on")}
      [] n.domain = "light"         -> {R("state", "light_on")}
      [] n.domain = "fan"           -> {R("state", "fan_on")}
      [] n.domain = "cover"         -> {RX("state", "cover_position_ratio", "current")}
      [] n.domain = "lock"          -> {R("state", "lock_state")}
      [] n.domain = "climate"       -> {R("state", "temperature_celsius")}
                                       \cup Choices("climate_mode", n.options)
      [] n.domain = "select"        -> Choices("select_option", n.options)
      [] n.domain = "text_sensor"   -> IF TextSensors THEN {RX("state", "text_info", "text")} ELSE {}
      [] OTHER                      -> {}

Unavailable(why) == {RX("state", "entity_unavailable", why)}
Updated          == {R("state", "entity_updated_timestamp_seconds")}

\* emitEntity: the metadata always; then the reason there is no reading, or the reading.
Rendered(n) ==
    {Reading("info", "entity_info", Blank, <<"unit", "state_class", "category", "icon">>)} \cup
    (IF n.payload = "none" THEN Unavailable("never_reported")
     ELSE Updated \cup (IF Missing(n) THEN Unavailable("missing_state")
                        ELSE IF Stale(n) THEN Unavailable("stale") ELSE ValuesOf(n)))

RenderEntity(n) ==
    /\ doc.kind = "esphome"
    /\ Walked(n, Label(Rendered(n), n.domain, n.id, n.domain))

\* emitDeviceMetrics, and device_info and auth_required of a Shelly: with any document.
Header ==
    {Reading("device", "device_info", Blank, <<"mac", "model", "manufacturer", "version", "gen", "ip", "transport", "name">>)} \cup
    IF doc.kind # "esphome" THEN {R("auth_en", "auth_required")}
    ELSE {Reading("device", "esphome_build_info", Blank, <<"time", "project", "version">>), RX("failures", "connect_failures", "dial")}
         \cup {R("device", f) : f \in
                 {"connected_since_timestamp_seconds", "last_message_timestamp_seconds", "api_ping_seconds",
                  "entities", "state_updates", "entity_list_generation", "connect_attempts",
                  "entities_truncated"}}

-----------------------------------------------------------------------------
\* Of a node that is not connected no entity is rendered.
Init ==
    /\ doc \in Documents
    /\ left = IF doc.kind = "esphome" /\ ~doc.connected THEN {} ELSE doc.parts
    /\ out = Emit(Nothing, Label(Header, Blank, 0, Blank))
    /\ app \in IF doc.category = "none" THEN {Blank} ELSE {Blank, "old"}
    /\ renamed = FALSE

\* NameStore.refresh publishes new names in the middle of a walk.
AppRenames ==
    /\ left # {} /\ doc.category # "none" /\ app # "new"
    /\ app' = "new" /\ renamed' = TRUE
    /\ UNCHANGED <<doc, left, out>>

Next ==
    \/ \E c \in left : \/ doc.kind = "gen2" /\ (WalkComponent(c) \/ SkipComponent(c) \/ WalkUnknown(c))
                       \/ doc.kind = "gen1" /\ DecodeGen1(c)
                       \/ RenderEntity(c)
    \/ AppRenames

Spec == Init /\ [][Next]_vars

-----------------------------------------------------------------------------
(* Properties *)

\* What EM1 and the voltmeter read twice into one series.
ReadTwice(s) ==
    \/ s.component = "em1" /\ s.family = "apparent_power_voltamperes"
    \/ s.component = "voltmeter" /\ s.family = "voltage_volts"

\* The unknown components of a Gen2 document, which the generic walk takes.
UnknownParts == {c \in doc.parts : doc.kind = "gen2" /\ c.type \notin Types \cup Skipped}

\* Leaves of one component whose names SanitizeName makes one, a-b and a_b.
SanitisedAlike(s) ==
    \E c \in UnknownParts : \E k, l \in NamesOf(c.has) :
        /\ k # l /\ RawFamily(k) = RawFamily(l)
        /\ s.family = RawFamily(k) /\ s.component = c.type /\ s.id = c.id

\* An option, or a mode, that a node lists twice.
ListedTwice(s) ==
    doc.kind = "esphome" /\
    \E n \in doc.parts : \E i, j \in DOMAIN n.options :
        i # j /\ n.options[i] = n.options[j] /\ s.extra = <<n.options[i]>> /\ s.component = n.domain /\ s.id = n.id

KnownTwice(s) == ReadTwice(s) \/ SanitisedAlike(s) \/ ListedTwice(s)

\* What is sent, as far as the properties need it.  A component or an entity is there once, being
\* the key of a JSON object or, hashed, of the cache's map; a single-phase meter leaves its energy to
\* em1data; of an unknown component there is what the walk is bound to; only a float is NaN.
WellFormed(d) ==
    /\ d.kind \in {"gen1", "gen2", "esphome"}
    /\ d.kind = "gen2" =>
          /\ \A c, e \in d.parts : c.type = e.type /\ c.id = e.id => c = e
          /\ \A c \in d.parts : c.type # Blank
          /\ \A c \in d.parts : c.type = "em1" => c.has \cap {"apower", "aenergy", "ret_aenergy"} = {}
          /\ \A c \in d.parts : c.type \notin Types \cup Skipped =>
                IsFiniteSet(c.has) /\ \A p \in c.has : Len(p) \in 1 .. 2 /\ \A i \in 1 .. Len(p) : Key(p[i])
    /\ d.kind = "gen1" =>
          \A p \in d.parts :
             /\ d.parts = {p}
             /\ {p.relays, p.lights, p.meters} \subseteq Nat
    /\ d.kind = "esphome" =>
          /\ \A n, m \in d.parts : n.domain = m.domain /\ n.id = m.id => n = m
          /\ \A n \in d.parts : n.domain \in Domains /\ n.options \in Seq(STRING)
          /\ \A n \in d.parts : n.payload \in {"nan", "inf"} => n.domain \in Floats

\* A component without an extractor loses no name to the limit on leaves it is within (genericWalk).
UnknownKept ==
    \A c \in UnknownParts \ left :
        GenericFallback /\ Cardinality(NamesOf(c.has)) <= MaxRawLeaves =>
            \A n \in NamesOf(c.has) :
                \E s \in out.series : s.family = RawFamily(n) /\ s.component = c.type /\ s.id = c.id

\* No reading is lost on its way out: every family the decoders and the unit table name is
\* registered with those labels; no two readings share a series (the gatherer would drop one) but those
\* of KnownTwice; and the walk of a new model's component skips none of the names it has room for.
\* (Of two leaves with one name, a_b and b in a, collectLeaves itself keeps one: they are a name here.)
NothingDropped ==
    /\ out.errs = {}
    /\ \A s \in out.twice : KnownTwice(s)
    /\ UnknownKept

\* What two series join on.
Place(s) == <<s.component, s.id, s.name, s.phase>>

\* The energy of a meter joins its power on (component, id, phase), name included, though two
\* components of the document report them, walked in any order (unless the app renames in between).
EnergyJoinsPower ==
    ~renamed /\ doc.kind = "gen2" =>
        \A d, m \in doc.parts \ left :
            /\ d.type \in DOMAIN Meter /\ m.type = Meter[d.type] /\ m.id = d.id
            => \A e \in ReadingsOf(d.type), p \in ReadingsOf(m.type) :
                  /\ e.at \in d.has /\ p.at \in m.has
                  /\ p.family = "power_watts" /\ p.phase = e.phase
                  => \E s, t \in out.series :
                        /\ s.family = "energy_joules" /\ t.family = "power_watts"
                        /\ s.extra = e.extra /\ Place(s) = Place(t)
                        /\ s.phase = e.phase /\ s.id = d.id

\* Gen1 readings carry the labels Gen2 gives them, errors, counters and external sensors apart.
Gen2Labels ==
    UNION {{<<MeterOf(t), r.family, r.phase, r.extra>> : r \in ReadingsOf(t)} : t \in Types}

\* The outputs a device lists: its relays, and of one without relays its lights.
OutputsListed(d) == IF d.relays > 0 THEN d.relays ELSE d.lights

\* A Shelly 1PM and a Plus 1PM produce identical label sets, a battery sensor's ambient readings
\* included, and no output that is listed has its watts or its temperature apart from its state (a
\* phantom switch).  Meters past those, and the temperature of a device that lists none, are filed
\* under a component that has no state.
Gen1MatchesGen2 ==
    doc.kind = "gen1" =>
        \A d \in doc.parts : \A s \in out.series :
            /\ \/ s.component \in {Blank, "ext_temperature", "ext_humidity"}
               \/ s.family \in {"component_error", "input_counts"}
               \/ <<s.component, s.family, s.phase, s.extra>> \in Gen2Labels
            /\ s.component \in {"switch", "light"} /\ s.id < OutputsListed(d) =>
                  \E t \in out.series : /\ t.component = s.component /\ t.id = s.id /\ t.name = s.name
                                        /\ t.family \in {"switch_on", "light_on"}

\* Domains of which a snapshot may have nothing to show.
Silent(n) ==
    \/ n.domain = "button"
    \/ n.domain = "text_sensor" /\ ~TextSensors
    \/ n.domain = "select" /\ n.options = <<>>

\* An entity without a reading is said to be unavailable and shows none; one with a reading shows
\* it.  (Positions, temperatures of a thermostat and infinite numbers are not told apart.  Nothing
\* is shown, or said, of a button, of a text unless configured, and of a selection without options.)
MissingIsSaid ==
    \A n \in doc.parts \ left :
        doc.kind = "esphome" /\ doc.connected =>
            LET of     == {s \in out.series : s.component = n.domain /\ s.id = n.id}
                values == {s \in of : s.family \notin {"entity_info", "entity_unavailable",
                                                       "entity_updated_timestamp_seconds"}}
                gone   == n.payload \in {"none", "missing", "nan", "inf"} \/ Stale(n)
                leaks  == n.domain \in {"cover", "climate"} \/ (n.domain = "number" /\ n.payload = "inf")
            IN  /\ values = {} \/ ~\E s \in of : s.family = "entity_unavailable"
                /\ ~leaks => (gone <=> \E s \in of : s.family = "entity_unavailable")
                /\ values # {} \/ gone \/ Silent(n)
=============================================================================
