--------------------------- MODULE ReadingsProofs ----------------------------
(***************************************************************************)
(* What the decoders and the rendering promise of every document that is   *)
(* well formed.  First the tables: every reading fits its family, and no   *)
(* two readings of a component have the same labels but the known ones.    *)
(* Then the emitter, and the invariants that carry both through a walk.    *)
(***************************************************************************)
EXTENDS Readings, FiniteSetTheorems, FunctionTheorems, TLAPS

-----------------------------------------------------------------------------
(* Families *)

\* An empty label is none of the names.
LEMMA BlankIs == Blank \notin Phases \cup Types \cup Domains \cup {"ext_temperature", "ext_humidity"}
BY Zenon DEF Blank, Phases, Types, Domains, Extractor, Lights, Floats

\* Registered, and without, or with one, label of its own.
Plain(f) == f \in Registered /\ Extra(f) = 0
One(f)   == f \in Registered /\ Extra(f) = 1

\* Of a registered family, with as many labels as it has.
Fitting(r) == r.family \in Registered /\ Len(r.extra) = Extra(r.family)

\* The families that need no label but the common ones (registerCurated).
LEMMA PlainFamilies ==
    \A f \in {"power_watts", "apparent_power_voltamperes", "voltage_volts", "current_amperes", "power_factor",
              "frequency_hertz", "temperature_celsius", "humidity_ratio", "battery_ratio", "illuminance_lux",
              "uptime_seconds", "wifi_rssi_dbm", "switch_on", "input_state", "light_on",
              "light_brightness_ratio", "binary_state", "entity_updated_timestamp_seconds",
              "restart_required", "auth_required", "cloud_connected", "mqtt_connected", "wifi_connected",
              "websocket_connected", "ethernet_up", "external_power_present", "smoke_alarm", "smoke_muted",
              "connected_since_timestamp_seconds", "last_message_timestamp_seconds", "api_ping_seconds",
              "entities", "state_updates", "entity_list_generation", "connect_attempts",
              "entities_truncated", "fan_on", "lock_state", "ratio"} : Plain(f)
<1>1. "ratio" \in Percentages
  BY DEF Percentages
<1>2. \A f \in Curated.plain \cup {"ratio"} : f \in Registered /\ Extra(f) = 0
  BY <1>1 DEF Registered, Extra, Curated
<1> QED BY <1>2 DEF Plain, Curated

\* The families with one label of their own: the direction, the slot, the reason and the like.
LEMMA OneFamilies ==
    \A f \in {"energy_joules", "input_counts", "cover_position_ratio", "text_info", "entity_unavailable",
              "component_error", "update_available", "ram_bytes", "fs_bytes", "connect_failures",
              "climate_mode", "select_option", "sensor_value"} : One(f)
BY DEF One, Registered, Extra, Curated

\* A reading without labels of its own fits a plain family.
LEMMA PlainFits == \A at, f, p : Plain(f) => Fitting(R(at, f)) /\ Fitting(RP(at, f, p))
BY DEF Plain, Fitting, R, RP, Reading

\* A reading with one label fits a family with one.
LEMMA OneFits == \A at, f, p, x : One(f) => Fitting(RX(at, f, x)) /\ Fitting(RPX(at, f, p, x))
BY DEF One, Fitting, RX, RPX, Reading

\* The families a unit leads to with percentages as ratios: energy alone is a counter.
LEMMA UnitFits ==
    \A unit, class :
       LET f == ResolveUnit(unit, class, TRUE)
       IN  IF f \in {"energy_joules", "sensor_value"} THEN One(f) ELSE Plain(f)
<1>1. \A f \in UnitFamilies \ {"energy_joules"} : Plain(f)
  BY DEF Plain, Registered, Extra, Curated, UnitFamilies
<1>2. \A c \in PercentClasses : Ratio[c] \in Percentages
  BY DEF Percentages
<1>3. \A c \in PercentClasses : Extra(Ratio[c]) = 0 /\ Ratio[c] \notin {"energy_joules", "sensor_value"}
  BY DEF PercentClasses, Ratio, Extra, Curated
<1>4. \A c \in PercentClasses : Plain(Ratio[c])
  BY <1>2, <1>3 DEF Plain, Registered
<1>5. "sensor_value" \notin UnitFamilies /\ "ratio" \notin {"energy_joules", "sensor_value"}
  BY DEF UnitFamilies
<1> QED BY <1>1, <1>3, <1>4, <1>5, PlainFamilies, OneFamilies DEF ResolveUnit

-----------------------------------------------------------------------------
(* The tables of the extractors *)

\* Two readings of one component that would be one series.
SameLabels(r, q) == r.family = q.family /\ r.phase = q.phase /\ r.extra = q.extra

\* No two of these would be.
Apart(S) == \A r, q \in S : SameLabels(r, q) => r = q

\* Each has a family, with the labels of it.
AllFit(S) == \A r \in S : Fitting(r)

\* The extractors, one by one.
LEMMA ExtractorIs ==
    /\ DOMAIN Extractor = {"switch", "light", "cover", "input", "em", "em1", "emdata", "em1data", "pm1",
                           "temperature", "humidity", "illuminance", "voltmeter", "devicepower", "smoke",
                           "sys", "wifi", "cloud", "mqtt", "ws", "eth"}
    /\ Extractor["switch"] = Powered \cup {R("output", "switch_on")}
    /\ Extractor["light"] = Powered \cup {R("output", "light_on"), R("brightness", "light_brightness_ratio")}
    /\ Extractor["cover"] = Powered \cup {RX("current_pos", "cover_position_ratio", "current"),
                                          RX("target_pos", "cover_position_ratio", "target")}
    /\ Extractor["input"] = Input
    /\ Extractor["em"] = EM
    /\ Extractor["em1"] = EM1
    /\ Extractor["emdata"] = EMData
    /\ Extractor["em1data"] = EM1Data
    /\ Extractor["pm1"] = Electrical \cup ComponentErrors
    /\ Extractor["temperature"] = ComponentErrors \cup {R("tC", "temperature_celsius")}
    /\ Extractor["humidity"] = ComponentErrors \cup {R("rh", "humidity_ratio")}
    /\ Extractor["illuminance"] = ComponentErrors \cup {R("lux", "illuminance_lux")}
    /\ Extractor["voltmeter"] = ComponentErrors \cup {R("voltage", "voltage_volts"), R("xvoltage", "voltage_volts")}
    /\ Extractor["devicepower"] = DevicePower
    /\ Extractor["smoke"] = ComponentErrors \cup {R("alarm", "smoke_alarm"), R("mute", "smoke_muted")}
    /\ Extractor["sys"] = Sys
    /\ Extractor["wifi"] = {R("rssi", "wifi_rssi_dbm"), R("status", "wifi_connected")}
    /\ Extractor["cloud"] = {R("connected", "cloud_connected")}
    /\ Extractor["mqtt"] = {R("connected", "mqtt_connected")}
    /\ Extractor["ws"] = {R("connected", "websocket_connected")}
    /\ Extractor["eth"] = {R("ip", "ethernet_up")}
BY DEF Extractor

\* Every type that has an extractor is in the table, the colours of light under one entry.
LEMMA TypesAre ==
    \A t \in Types : \E x \in DOMAIN Extractor :
       ReadingsOf(t) = Extractor[x] /\ (t = x \/ (t \in Lights /\ x = "light"))
BY ExtractorIs DEF Types, ReadingsOf, Lights

\* What every powered component reads fits (extractElectrical, extractErrors).
LEMMA ElectricalFit == AllFit(Electrical) /\ AllFit(ComponentErrors) /\ AllFit(Powered)
BY PlainFits, OneFits, PlainFamilies, OneFamilies DEF AllFit, Electrical, ComponentErrors, Powered

\* The three-phase meter fits, its totals and its phases.
LEMMA EMFit == AllFit(EM)
<1>1. AllFit(ThreePhases)
  BY PlainFits, PlainFamilies DEF AllFit, ThreePhases, PhaseReadings
<1> QED BY <1>1, ElectricalFit, PlainFits, PlainFamilies DEF AllFit, EM

\* The energy of both meters fits.
LEMMA EnergyFits == AllFit(EMData) /\ AllFit(EM1Data)
BY OneFits, OneFamilies DEF AllFit, EMData, EM1Data, EnergyOf

\* So do the single-phase meter, the inputs, the batteries and the system.
LEMMA OthersFit == AllFit(EM1) /\ AllFit(Input) /\ AllFit(DevicePower) /\ AllFit(Sys)
<1>1. AllFit(EM1)
  BY ElectricalFit, PlainFits, PlainFamilies DEF AllFit, EM1
<1>2. AllFit(Input)
  BY ElectricalFit, PlainFits, PlainFamilies, OneFits, OneFamilies DEF AllFit, Input
<1>3. AllFit(DevicePower)
  BY ElectricalFit, PlainFits, PlainFamilies DEF AllFit, DevicePower
<1>4. AllFit(Sys)
  BY PlainFits, PlainFamilies, OneFits, OneFamilies DEF AllFit, Sys
<1> QED BY <1>1, <1>2, <1>3, <1>4

\* No extractor emits a family that is not registered, or with the wrong number of labels.
LEMMA ExtractorsFit == \A x \in DOMAIN Extractor : AllFit(Extractor[x])
<1>1. \A x \in {"switch", "light", "cover"} : AllFit(Extractor[x])
  <2>1. AllFit({R("output", "switch_on")})
    BY PlainFits, PlainFamilies DEF AllFit
  <2>2. AllFit({R("output", "light_on"), R("brightness", "light_brightness_ratio")})
    BY PlainFits, PlainFamilies DEF AllFit
  <2>3. AllFit({RX("current_pos", "cover_position_ratio", "current"),
                RX("target_pos", "cover_position_ratio", "target")})
    BY OneFits, OneFamilies DEF AllFit
  <2>4. \A S, T : AllFit(S) /\ AllFit(T) => AllFit(S \cup T)
    BY DEF AllFit
  <2> QED BY <2>1, <2>2, <2>3, <2>4, ElectricalFit, ExtractorIs
<1>2. \A x \in {"input", "em", "em1", "emdata", "em1data", "devicepower", "sys"} : AllFit(Extractor[x])
  BY ExtractorIs, EMFit, EnergyFits, OthersFit
<1>3. \A x \in {"pm1", "temperature", "humidity", "illuminance", "voltmeter", "smoke"} : AllFit(Extractor[x])
  <2>1. \A at : \A f \in {"temperature_celsius", "humidity_ratio", "illuminance_lux", "voltage_volts",
                         "smoke_alarm", "smoke_muted"} : Fitting(R(at, f))
    BY PlainFits, PlainFamilies
  <2>2. \A r \in Electrical \cup ComponentErrors : Fitting(r)
    BY ElectricalFit DEF AllFit
  <2> QED BY <2>1, <2>2, ExtractorIs DEF AllFit
<1>4. \A x \in {"wifi", "cloud", "mqtt", "ws", "eth"} : \A r \in Extractor[x] :
         \E at : \E f \in {"wifi_rssi_dbm", "wifi_connected", "cloud_connected", "mqtt_connected",
                         "websocket_connected", "ethernet_up"} : r = R(at, f)
  BY ExtractorIs
<1>5. \A x \in {"wifi", "cloud", "mqtt", "ws", "eth"} : AllFit(Extractor[x])
  BY <1>4, PlainFits, PlainFamilies DEF AllFit
<1> QED BY <1>1, <1>2, <1>3, <1>5, ExtractorIs

\* A powered component reads no series twice.
LEMMA ElectricalApart == Apart(Powered) /\ Apart(Electrical \cup ComponentErrors)
<1>1. Apart(Powered)
  BY DEF Apart, SameLabels, Powered, Electrical, ComponentErrors, R, RX, Reading
<1> QED BY <1>1 DEF Apart, Powered

\* The phases of a meter keep its readings apart, and its totals from them.
LEMMA EMApart == Apart(EM)
<1>1. \A p, a, b, c, d, e, f :
         LET S == {RP(a, "power_watts", p), RP(b, "apparent_power_voltamperes", p), RP(c, "voltage_volts", p),
                   RP(d, "current_amperes", p), RP(e, "power_factor", p), RP(f, "frequency_hertz", p)}
         IN  Apart(S) /\ \A r \in S : r.phase = p
  BY DEF RP, Reading, Apart, SameLabels
<1>2. \A p : Apart(PhaseReadings(p)) /\ \A r \in PhaseReadings(p) : r.phase = p
  BY <1>1 DEF PhaseReadings
<1>3. Apart(ThreePhases) /\ \A r \in ThreePhases : r.phase \in Phases
  BY <1>2 DEF Apart, SameLabels, ThreePhases
<1>4. Apart(EM \ ThreePhases)
  BY DEF Apart, SameLabels, EM, ComponentErrors, RX, RP, Reading
<1>5. \A r \in EM \ ThreePhases : r.phase \notin Phases
  BY BlankIs DEF EM, ComponentErrors, RX, RP, Reading, Phases
<1> QED BY <1>3, <1>4, <1>5 DEF Apart, SameLabels

\* The same of its energy: a total is not one of the phases.
LEMMA EnergyApart == Apart(EMData) /\ Apart(EM1Data)
<1>1. \A field, p : Apart(EnergyOf(field, p)) /\ \A r \in EnergyOf(field, p) : r.phase = p
  BY DEF EnergyOf, RPX, Reading, Apart, SameLabels
<1>2. \A r \in EMData : r \in EnergyOf("total", "total") \/ \E p \in Phases : r \in EnergyOf(p \o "_total", p)
  BY DEF EMData
<1>3. "total" \notin Phases
  BY DEF Phases
<1> QED BY <1>1, <1>2, <1>3 DEF Apart, EM1Data, SameLabels

\* Inputs, batteries and the system read no series twice.
LEMMA OthersApart == Apart(Input) /\ Apart(DevicePower) /\ Apart(Sys)
BY DEF Apart, SameLabels, Input, DevicePower, Sys, ComponentErrors, R, RX, Reading

\* What the single-phase meter and the voltmeter read twice, and nothing else.
Doubled(t, r) ==
    \/ t = "em1" /\ r.family = "apparent_power_voltamperes"
    \/ t = "voltmeter" /\ r.family = "voltage_volts"

\* Without the older field names the single-phase meter reads one family twice (extractEM1).
LEMMA EM1Apart ==
    \A r, q \in EM1 : r.at # "apower" /\ q.at # "apower" /\ SameLabels(r, q) =>
        r = q \/ r.family = "apparent_power_voltamperes"
BY DEF EM1, Electrical, ComponentErrors, R, RX, Reading, SameLabels

\* Two readings of a component share their labels only where the code reads a field twice.
LEMMA ReadingsApart ==
    ASSUME NEW t \in Types, NEW has, t = "em1" => "apower" \notin has,
           NEW r \in Usable(ReadingsOf(t), has), NEW q \in Usable(ReadingsOf(t), has), SameLabels(r, q)
    PROVE  r = q \/ Doubled(t, r)
<1>1. PICK x \in DOMAIN Extractor : ReadingsOf(t) = Extractor[x] /\ (t = x \/ (t \in Lights /\ x = "light"))
  BY TypesAre
<1>2. r \in Extractor[x] /\ q \in Extractor[x] /\ r.at \in Readable(has) /\ q.at \in Readable(has)
  BY <1>1 DEF Usable
<1>3. CASE x \in {"switch", "light", "cover"}
  <2>1. Apart(Extractor["switch"]) /\ Apart(Extractor["light"]) /\ Apart(Extractor["cover"])
    BY ExtractorIs DEF Apart, SameLabels, Powered, Electrical, ComponentErrors, R, RX, Reading
  <2> QED BY <1>2, <1>3, <2>1 DEF Apart
<1>4. CASE x \in {"input", "em", "emdata", "em1data", "devicepower", "sys", "pm1"}
  BY <1>2, <1>4, ExtractorIs, EMApart, EnergyApart, OthersApart, ElectricalApart DEF Apart
<1>5. CASE x \in {"temperature", "humidity", "illuminance", "smoke"}
  <2>1. /\ Apart(Extractor["temperature"]) /\ Apart(Extractor["humidity"])
        /\ Apart(Extractor["illuminance"]) /\ Apart(Extractor["smoke"])
    BY ExtractorIs DEF Apart, SameLabels, ComponentErrors, R, RX, Reading
  <2> QED BY <1>2, <1>5, <2>1 DEF Apart
<1>6. CASE x \in {"wifi", "cloud", "mqtt", "ws", "eth"}
  <2>1. /\ Apart(Extractor["wifi"]) /\ Apart(Extractor["cloud"]) /\ Apart(Extractor["mqtt"])
        /\ Apart(Extractor["ws"]) /\ Apart(Extractor["eth"])
    BY ExtractorIs DEF Apart, SameLabels, R, Reading
  <2> QED BY <1>2, <1>6, <2>1 DEF Apart
<1>7. CASE x = "em1"
  <2>1. t = "em1" /\ r \in EM1 /\ q \in EM1
    BY <1>1, <1>2, <1>7, ExtractorIs
  <2>2. r.at # "apower" /\ q.at # "apower"
    BY <1>2, <2>1 DEF Readable
  <2> QED BY <2>1, <2>2, EM1Apart DEF Doubled
<1>8. CASE x = "voltmeter"
  <2>1. /\ t = "voltmeter"
        /\ {r, q} \subseteq ComponentErrors \cup {R("voltage", "voltage_volts"), R("xvoltage", "voltage_volts")}
    BY <1>1, <1>2, <1>8, ExtractorIs
  <2> QED BY <2>1 DEF Doubled, ComponentErrors, R, RX, Reading, SameLabels
<1> QED BY <1>3, <1>4, <1>5, <1>6, <1>7, <1>8, ExtractorIs

\* Energy is of the components that only report it, but for two fields of a single-phase meter.
LEMMA EnergyIsApart ==
    /\ \A t \in DOMAIN Meter : \A r \in ReadingsOf(t) : r.family = "energy_joules"
    /\ \A r \in ReadingsOf("em") : r.family # "energy_joules"
    /\ \A r \in ReadingsOf("em1") : r.family = "energy_joules" => r.at \in {"aenergy", "ret_aenergy"}
<1>1. /\ ReadingsOf("em") = EM /\ ReadingsOf("em1") = EM1
      /\ ReadingsOf("emdata") = EMData /\ ReadingsOf("em1data") = EM1Data
  BY ExtractorIs DEF ReadingsOf, Lights
<1>2. \A field, p : \A r \in EnergyOf(field, p) : r.family = "energy_joules"
  BY DEF EnergyOf, RPX, Reading
<1>3. \A r \in EMData \cup EM1Data : r.family = "energy_joules"
  BY <1>2 DEF EMData, EM1Data
<1>4. \A p : \A r \in PhaseReadings(p) : r.family # "energy_joules"
  BY DEF PhaseReadings, RP, Reading
<1>5. \A r \in EM : r.family # "energy_joules"
  BY <1>4 DEF EM, ThreePhases, ComponentErrors, RX, RP, Reading
<1>6. \A r \in EM1 : r.family = "energy_joules" => r.at \in {"aenergy", "ret_aenergy"}
  BY DEF EM1, Electrical, ComponentErrors, R, RX, Reading
<1>7. DOMAIN Meter = {"emdata", "em1data"}
  BY DEF Meter
<1> QED BY <1>1, <1>3, <1>5, <1>6, <1>7

\* The families with more labels of their own.
LEMMA InfosFit ==
    /\ Fitting(Reading("device", "device_info", Blank,
                       <<"mac", "model", "manufacturer", "version", "gen", "ip", "transport", "name">>))
    /\ Fitting(Reading("device", "esphome_build_info", Blank, <<"time", "project", "version">>))
    /\ Fitting(Reading("info", "entity_info", Blank, <<"unit", "state_class", "category", "icon">>))
<1>1. /\ Len(<<"mac", "model", "manufacturer", "version", "gen", "ip", "transport", "name">>) = 8
      /\ Len(<<"time", "project", "version">>) = 3
      /\ Len(<<"unit", "state_class", "category", "icon">>) = 4
  OBVIOUS
<1>2. {"device_info", "esphome_build_info", "entity_info"} \subseteq Registered
  BY DEF Registered
<1>3. Extra("device_info") = 8 /\ Extra("esphome_build_info") = 3 /\ Extra("entity_info") = 4
  BY DEF Extra, Curated
<1> QED BY <1>1, <1>2, <1>3 DEF Fitting, Reading

\* What every device is told to have fits, and is said once.
LEMMA HeaderFits == AllFit(Header) /\ Apart(Header)
<1>1. AllFit(Header)
  <2>1. /\ Fitting(R("auth_en", "auth_required")) /\ Fitting(RX("failures", "connect_failures", "dial"))
        /\ \A at : \A f \in {"connected_since_timestamp_seconds", "last_message_timestamp_seconds",
                            "api_ping_seconds", "entities", "state_updates", "entity_list_generation",
                            "connect_attempts", "entities_truncated"} : Fitting(R(at, f))
    BY PlainFits, PlainFamilies, OneFits, OneFamilies
  <2> QED BY <2>1, InfosFit DEF AllFit, Header
<1>2. Apart(Header)
  BY DEF Apart, SameLabels, Header, R, RX, Reading
<1> QED BY <1>1, <1>2

-----------------------------------------------------------------------------
(* The rendering of an entity *)

\* What is said of an entity besides its value.
About == {"entity_info", "entity_unavailable", "entity_updated_timestamp_seconds"}

\* A number fits the family its unit resolves to, with percentages as ratios (ResolveUnit).
LEMMA NumericIs ==
    ASSUME NEW n, PercentAsRatio = TRUE
    PROVE  Fitting(Numeric(n)) /\ Numeric(n).family \notin About
<1> DEFINE family == ResolveUnit(n.unit, n.class, PercentAsRatio)
<1>1. IF family \in {"energy_joules", "sensor_value"} THEN One(family) ELSE Plain(family)
  BY UnitFits
<1>2. One("sensor_value")
  BY OneFamilies
<1>3. Fitting(Numeric(n))
  BY <1>1, <1>2, PlainFits, OneFits DEF Numeric
<1>4. family \notin About
  BY DEF ResolveUnit, UnitFamilies, About, Ratio, PercentClasses
<1> QED BY <1>3, <1>4 DEF Numeric, R, RX, Reading, About

\* A choice that a node lists twice.
Repeated(n, r) ==
    \E i, j \in DOMAIN n.options : i # j /\ n.options[i] = n.options[j] /\ r.extra = <<n.options[i]>>

\* The series of an entity's choices are told apart by the choices (Enum).
LEMMA ChoicesAre ==
    ASSUME NEW n, NEW family, One(family)
    PROVE  /\ AllFit(Choices(family, n.options))
           /\ \A r \in Choices(family, n.options) : r.family = family
           /\ \A r, q \in Choices(family, n.options) : SameLabels(r, q) => r = q \/ Repeated(n, r)
<1>1. \A r \in Choices(family, n.options) : \E i \in DOMAIN n.options :
         r = Reading(ToString(i), family, Blank, <<n.options[i]>>)
  BY DEF Choices
<1>2. \A at, x : LET r == Reading(at, family, Blank, <<x>>)
                IN  Fitting(r) /\ r.family = family /\ r.extra = <<x>>
  BY OneFits DEF RX, Reading
<1>3. ASSUME NEW r \in Choices(family, n.options), NEW q \in Choices(family, n.options), SameLabels(r, q)
      PROVE  r = q \/ Repeated(n, r)
  <2>1. PICK i \in DOMAIN n.options : r = Reading(ToString(i), family, Blank, <<n.options[i]>>)
    BY <1>1
  <2>2. PICK j \in DOMAIN n.options : q = Reading(ToString(j), family, Blank, <<n.options[j]>>)
    BY <1>1
  <2>3. r.extra = <<n.options[i]>> /\ q.extra = <<n.options[j]>> /\ r.extra = q.extra
    BY <1>2, <1>3, <2>1, <2>2 DEF SameLabels
  <2>4. n.options[i] = n.options[j]
    BY <2>3
  <2>5. CASE i = j
    BY <2>1, <2>2, <2>5
  <2>6. CASE i # j
    BY <2>3, <2>4, <2>6 DEF Repeated
  <2> QED BY <2>5, <2>6
<1>4. ASSUME NEW r \in Choices(family, n.options)
      PROVE  Fitting(r) /\ r.family = family
  <2>1. PICK i \in DOMAIN n.options : r = Reading(ToString(i), family, Blank, <<n.options[i]>>)
    BY <1>1
  <2> QED BY <1>2, <2>1
<1> QED BY <1>3, <1>4 DEF AllFit

\* The values of an entity fit, are apart but for a choice it repeats, and are none of what is said
\* about it (emitEntity).
LEMMA ValuesAre ==
    ASSUME NEW n, PercentAsRatio = TRUE
    PROVE  /\ AllFit(ValuesOf(n)) /\ \A r \in ValuesOf(n) : r.family \notin About
           /\ \A r, q \in ValuesOf(n) : SameLabels(r, q) => r = q \/ Repeated(n, r)
<1>1. CASE n.domain \in {"sensor", "number"}
  <2>1. ValuesOf(n) = {Numeric(n)}
    BY <1>1 DEF ValuesOf
  <2> QED BY <2>1, NumericIs DEF AllFit
<1>2. CASE n.domain \in {"binary_sensor", "switch", "light", "fan", "lock"}
  <2>1. \E f \in {"binary_state", "switch_on", "light_on", "fan_on", "lock_state"} : ValuesOf(n) = {R("state", f)}
    BY <1>2 DEF ValuesOf
  <2> QED BY <2>1, PlainFits, PlainFamilies DEF AllFit, R, Reading, About
<1>3. CASE n.domain \in {"cover", "text_sensor"}
  <2>1. \/ ValuesOf(n) = {}
        \/ ValuesOf(n) = {RX("state", "cover_position_ratio", "current")}
        \/ ValuesOf(n) = {RX("state", "text_info", "text")}
    BY <1>3 DEF ValuesOf
  <2>2. AllFit(ValuesOf(n))
    BY <2>1, OneFits, OneFamilies DEF AllFit
  <2> QED BY <2>1, <2>2 DEF RX, Reading, About
<1>5. CASE n.domain = "select"
  <2>1. ValuesOf(n) = Choices("select_option", n.options) /\ One("select_option")
    BY <1>5, OneFamilies DEF ValuesOf
  <2> QED BY <2>1, ChoicesAre DEF About
<1>6. CASE n.domain = "climate"
  <2> DEFINE t == R("state", "temperature_celsius")
  <2>1. ValuesOf(n) = {t} \cup Choices("climate_mode", n.options) /\ One("climate_mode")
    BY <1>6, OneFamilies DEF ValuesOf
  <2>2. Fitting(t) /\ t.family = "temperature_celsius"
    BY PlainFits, PlainFamilies DEF R, Reading
  <2> HIDE DEF t
  <2>3. \A r \in Choices("climate_mode", n.options) : Fitting(r) /\ r.family = "climate_mode"
    BY <2>1, ChoicesAre DEF AllFit
  <2>4. AllFit(ValuesOf(n)) /\ \A r \in ValuesOf(n) : r.family \notin About
    BY <2>1, <2>2, <2>3 DEF AllFit, About
  <2>5. ASSUME NEW r \in ValuesOf(n), NEW q \in ValuesOf(n), SameLabels(r, q)
        PROVE  r = q \/ Repeated(n, r)
    <3>1. r.family = q.family
      BY <2>5 DEF SameLabels
    <3>2. CASE r = t \/ q = t
      BY <2>1, <2>2, <2>3, <3>1, <3>2
    <3>3. CASE r # t /\ q # t
      BY <2>1, <2>5, <3>3, ChoicesAre
    <3> QED BY <3>2, <3>3
  <2> QED BY <2>4, <2>5
<1>4. CASE n.domain \notin {"sensor", "number", "binary_sensor", "switch", "light", "fan", "lock",
                            "cover", "select", "text_sensor", "climate"}
  <2>1. ValuesOf(n) = {}
    BY <1>4 DEF ValuesOf
  <2> QED BY <2>1 DEF AllFit
<1> QED BY <1>1, <1>2, <1>3, <1>4, <1>5, <1>6

\* All that is said of an entity fits and is apart but for a choice it repeats (emitEntity).
LEMMA RenderedIs ==
    ASSUME NEW n, PercentAsRatio = TRUE
    PROVE  /\ AllFit(Rendered(n))
           /\ \A r, q \in Rendered(n) : SameLabels(r, q) => r = q \/ Repeated(n, r)
<1> DEFINE info == Reading("info", "entity_info", Blank, <<"unit", "state_class", "category", "icon">>)
<1>1. Fitting(info) /\ info.family = "entity_info"
  BY InfosFit DEF Reading
<1>2. \A why : AllFit(Unavailable(why)) /\ Apart(Unavailable(why))
               /\ \A r \in Unavailable(why) : r.family = "entity_unavailable"
  BY OneFits, OneFamilies DEF AllFit, Apart, Unavailable, RX, Reading
<1>3. AllFit(Updated) /\ Apart(Updated) /\ \A r \in Updated : r.family = "entity_updated_timestamp_seconds"
  BY PlainFits, PlainFamilies DEF AllFit, Apart, Updated, R, Reading
<1>4. \E why : \/ Rendered(n) = {info} \cup Unavailable(why)
                \/ Rendered(n) = {info} \cup (Updated \cup Unavailable(why))
                \/ Rendered(n) = {info} \cup (Updated \cup ValuesOf(n))
  BY DEF Rendered
<1> HIDE DEF info
<1>5. AllFit(Rendered(n))
  BY <1>1, <1>2, <1>3, <1>4, ValuesAre DEF AllFit
<1>6. \A r, q \in Rendered(n) : SameLabels(r, q) => r = q \/ Repeated(n, r)
  BY <1>1, <1>2, <1>3, <1>4, ValuesAre DEF Apart, SameLabels, About
<1> QED BY <1>5, <1>6

-----------------------------------------------------------------------------
(* The emitter *)

\* The series a reading becomes.
SeriesOf(r, component, id, name) ==
    [family |-> r.family, component |-> component, id |-> id, name |-> name, phase |-> r.phase, extra |-> r.extra]

\* The labelled readings of a component are its readings, each with its series.
LEMMA LabelIs ==
    ASSUME NEW rs, NEW component, NEW id, NEW name, NEW e
    PROVE  e \in Label(rs, component, id, name) <=>
              \E r \in rs : e = [at |-> r.at, kind |-> r.kind, series |-> SeriesOf(r, component, id, name)]
BY DEF Label, SeriesOf

\* Where everything fits, nothing is dropped, and a series is there twice only if it was there, or
\* two readings lead to it.
LEMMA EmitIs ==
    ASSUME NEW o, NEW E, \A e \in E : Fits(e)
    PROVE  /\ Emit(o, E).errs = o.errs
           /\ Emit(o, E).series = o.series \cup {e.series : e \in E}
           /\ \A s \in Emit(o, E).twice :
                 \/ s \in o.twice
                 \/ \E e \in E : s = e.series /\ (s \in o.series \/ \E f \in E : f # e /\ f.series = s)
<1>1. {e \in E : Fits(e)} = E
  OBVIOUS
<1>2. /\ Emit(o, E).errs = o.errs \cup {e.series.family : e \in E \ E}
      /\ Emit(o, E).series = o.series \cup {e.series : e \in E}
      /\ Emit(o, E).twice = o.twice \cup {e.series : e \in {d \in E : \/ d.series \in o.series
                                                                  \/ \E c \in E \ {d} : c.series = d.series}}
  BY <1>1 DEF Emit
<1>3. {e.series.family : e \in E \ E} = {}
  OBVIOUS
<1> QED BY <1>2, <1>3

\* The same of the readings of a component.
LEMMA EmitLabelIs ==
    ASSUME NEW o, NEW rs, NEW component, NEW id, NEW name, \A r \in rs : r.kind = "raw" \/ Fitting(r)
    PROVE  LET now == Emit(o, Label(rs, component, id, name)) IN
           /\ now.errs = o.errs
           /\ \A s : s \in now.series <=>
                 s \in o.series \/ \E r \in rs : s = SeriesOf(r, component, id, name)
           /\ \A s \in now.twice :
                 \/ s \in o.twice
                 \/ \E r \in rs : /\ s = SeriesOf(r, component, id, name)
                                  /\ \/ s \in o.series
                                     \/ \E q \in rs : q # r /\ SameLabels(q, r)
<1> DEFINE E == Label(rs, component, id, name)
<1>1. \A e : e \in E <=> \E r \in rs : e = [at |-> r.at, kind |-> r.kind, series |-> SeriesOf(r, component, id, name)]
  BY LabelIs
<1>2. \A e \in E : Fits(e)
  BY <1>1 DEF Fits, Fitting, SeriesOf
<1>3. \A s : (\E e \in E : s = e.series) <=> \E r \in rs : s = SeriesOf(r, component, id, name)
  <2>1. \A e \in E : \E r \in rs : e.series = SeriesOf(r, component, id, name)
    BY <1>1
  <2>2. ASSUME NEW r \in rs
        PROVE  \E e \in E : e.series = SeriesOf(r, component, id, name)
    <3> DEFINE e == [at |-> r.at, kind |-> r.kind, series |-> SeriesOf(r, component, id, name)]
    <3>1. e \in E
      BY <1>1
    <3>2. e.series = SeriesOf(r, component, id, name)
      OBVIOUS
    <3> QED BY <3>1, <3>2
  <2> HIDE DEF E
  <2> QED BY <2>1, <2>2
<1>4. ASSUME NEW e \in E, NEW f \in E, f # e, f.series = e.series
      PROVE  \E r, q \in rs : e.series = SeriesOf(r, component, id, name) /\ q # r /\ SameLabels(q, r)
  <2>1. PICK r \in rs : e = [at |-> r.at, kind |-> r.kind, series |-> SeriesOf(r, component, id, name)]
    BY <1>1
  <2>2. PICK q \in rs : f = [at |-> q.at, kind |-> q.kind, series |-> SeriesOf(q, component, id, name)]
    BY <1>1
  <2>3. q # r
    BY <1>4, <2>1, <2>2
  <2>4. SameLabels(q, r)
    BY <1>4, <2>1, <2>2 DEF SameLabels, SeriesOf
  <2> QED BY <2>1, <2>3, <2>4
<1> HIDE DEF E
<1>5. /\ Emit(o, E).errs = o.errs
      /\ Emit(o, E).series = o.series \cup {e.series : e \in E}
      /\ \A s \in Emit(o, E).twice :
                 \/ s \in o.twice
                 \/ \E e \in E : s = e.series /\ (s \in o.series \/ \E f \in E : f # e /\ f.series = s)
  BY <1>2, EmitIs
<1>6. \A s : s \in Emit(o, E).series <=>
                 s \in o.series \/ \E r \in rs : s = SeriesOf(r, component, id, name)
  BY <1>3, <1>5
<1>7. ASSUME NEW s \in Emit(o, E).twice, s \notin o.twice
      PROVE  \E r \in rs : /\ s = SeriesOf(r, component, id, name)
                           /\ \/ s \in o.series
                              \/ \E q \in rs : q # r /\ SameLabels(q, r)
  <2>1. PICK e \in E : s = e.series /\ (s \in o.series \/ \E f \in E : f # e /\ f.series = s)
    BY <1>5, <1>7
  <2>2. CASE s \in o.series
    BY <1>3, <2>1, <2>2
  <2>3. CASE \E f \in E : f # e /\ f.series = s
    BY <1>4, <2>1, <2>3
  <2> QED BY <2>1, <2>2, <2>3
<1> QED BY <1>5, <1>6, <1>7 DEF E

-----------------------------------------------------------------------------
(* The first generation *)

\* A reading as the emitter is given it.
Emitted(r, component, id, name) == [at |-> r.at, kind |-> r.kind, series |-> SeriesOf(r, component, id, name)]

Inside == {R("always", "temperature_celsius"), RX("overtemperature", "component_error", "overtemp")}

\* Everything a Gen1 device may report as a component, whatever it is.
Gen1Of(component) ==
    CASE component = "switch"      -> OfRelay \cup OfMeter \cup Inside
      [] component = "light"       -> OfLight \cup OfMeter \cup Inside
      [] component = "em1"         -> OfEMeter
      [] component = "input"       -> OfInput
      [] component = "temperature" -> {R("tmp", "temperature_celsius")}
      [] OTHER                     -> OfDevice[component]

\* What a Gen1 device switches or dims.
Outputs == {"switch", "light"}
Gen1Components == Outputs \cup {"em1", "input", "temperature"} \cup DOMAIN OfDevice

\* The name its readings are labelled with: only channels have one.
Gen1Name(component) == IF component \in Outputs \cup {"em1", "input"} THEN ComponentName(component) ELSE Blank

\* What a Gen1 device has one of, component by component.
LEMMA DeviceIs ==
    /\ DOMAIN OfDevice = {"humidity", "illuminance", "devicepower", "ext_temperature", "ext_humidity",
                          "sys", "wifi", "cloud", "mqtt"}
    /\ OfDevice["humidity"] = {R("hum", "humidity_ratio")}
    /\ OfDevice["illuminance"] = {R("lux", "illuminance_lux")}
    /\ OfDevice["devicepower"] = {R("bat.value", "battery_ratio"), R("bat.voltage", "voltage_volts")}
    /\ OfDevice["ext_temperature"] = {R("ext_temperature", "temperature_celsius")}
    /\ OfDevice["ext_humidity"] = {R("ext_humidity", "humidity_ratio")}
    /\ OfDevice["sys"] = Sys \ {R("restart_required", "restart_required")}
    /\ OfDevice["wifi"] = {R("rssi", "wifi_rssi_dbm"), R("always", "wifi_connected")}
    /\ OfDevice["cloud"] = {R("always", "cloud_connected")}
    /\ OfDevice["mqtt"] = {R("always", "mqtt_connected")}
BY DEF OfDevice

\* What Gen1 reads of each component, component by component.
LEMMA Gen1OfIs ==
    /\ Gen1Of("switch") = OfRelay \cup OfMeter \cup Inside
    /\ Gen1Of("light") = OfLight \cup OfMeter \cup Inside
    /\ Gen1Of("em1") = OfEMeter /\ Gen1Of("input") = OfInput
    /\ Gen1Of("temperature") = {R("tmp", "temperature_celsius")}
    /\ \A c \in DOMAIN OfDevice : Gen1Of(c) = OfDevice[c]
BY DeviceIs DEF Gen1Of

\* The Gen1 decoder emits registered families with their labels only (decodeGen1Status).
LEMMA Gen1Fits == \A c \in Gen1Components : AllFit(Gen1Of(c))
<1>1. AllFit(OfRelay) /\ AllFit(OfMeter) /\ AllFit(Inside) /\ AllFit(OfLight)
  BY PlainFits, PlainFamilies, OneFits, OneFamilies DEF AllFit, OfRelay, OfMeter, Inside, OfLight
<1>2. AllFit(OfEMeter) /\ AllFit(OfInput) /\ AllFit({R("tmp", "temperature_celsius")})
  BY PlainFits, PlainFamilies, OneFits, OneFamilies DEF AllFit, OfEMeter, OfInput
<1>3. \A c \in DOMAIN OfDevice : AllFit(OfDevice[c])
  <2>1. AllFit(OfDevice["sys"])
    BY DeviceIs, OthersFit DEF AllFit
  <2>2. \A c \in {"humidity", "illuminance", "ext_temperature", "ext_humidity", "cloud", "mqtt"} :
           \E at : \E f \in {"humidity_ratio", "illuminance_lux", "temperature_celsius", "cloud_connected",
                           "mqtt_connected"} : OfDevice[c] = {R(at, f)}
    BY DeviceIs
  <2>3. \A c \in {"humidity", "illuminance", "ext_temperature", "ext_humidity", "cloud", "mqtt"} : AllFit(OfDevice[c])
    <3>1. \A at : \A f \in {"humidity_ratio", "illuminance_lux", "temperature_celsius", "cloud_connected",
                           "mqtt_connected"} : Fitting(R(at, f))
      BY PlainFits, PlainFamilies
    <3> QED BY <2>2, <3>1 DEF AllFit
  <2>4. AllFit(OfDevice["devicepower"])
    <3>1. Plain("battery_ratio") /\ Plain("voltage_volts")
      BY PlainFamilies
    <3>2. Fitting(R("bat.value", "battery_ratio")) /\ Fitting(R("bat.voltage", "voltage_volts"))
      BY <3>1, PlainFits
    <3> QED BY <3>2, DeviceIs DEF AllFit
  <2>5. AllFit(OfDevice["wifi"])
    <3>1. Plain("wifi_rssi_dbm") /\ Plain("wifi_connected")
      BY PlainFamilies
    <3>2. Fitting(R("rssi", "wifi_rssi_dbm")) /\ Fitting(R("always", "wifi_connected"))
      BY <3>1, PlainFits
    <3> QED BY <3>2, DeviceIs DEF AllFit
  <2> QED BY <2>1, <2>3, <2>4, <2>5, DeviceIs
<1> QED BY <1>1, <1>2, <1>3, Gen1OfIs DEF Gen1Components, Outputs, AllFit

\* No component of a Gen1 device reads a series twice.
LEMMA Gen1Apart == \A c \in Gen1Components : Apart(Gen1Of(c))
<1>1. Apart(OfRelay \cup OfMeter \cup Inside)
  BY DEF Apart, SameLabels, OfRelay, OfMeter, Inside, R, RX, Reading
<1>2. Apart(OfLight \cup OfMeter \cup Inside)
  BY DEF Apart, SameLabels, OfLight, OfMeter, Inside, R, RX, Reading
<1>3. Apart(OfEMeter) /\ Apart(OfInput) /\ Apart({R("tmp", "temperature_celsius")})
  BY DEF Apart, SameLabels, OfEMeter, OfInput, R, RX, Reading
<1>4. \A c \in DOMAIN OfDevice \ {"sys"} : Apart(OfDevice[c])
  <2>1. \A c \in DOMAIN OfDevice \ {"sys", "devicepower", "wifi"} : \E r : OfDevice[c] = {r}
    BY DeviceIs
  <2>2. Apart(OfDevice["devicepower"]) /\ Apart(OfDevice["wifi"])
    BY DeviceIs DEF Apart, SameLabels, R, Reading
  <2> QED BY <2>1, <2>2 DEF Apart
<1>5. Apart(OfDevice["sys"])
  BY DeviceIs, OthersApart DEF Apart
<1> QED BY <1>1, <1>2, <1>3, <1>4, <1>5, Gen1OfIs DEF Gen1Components, Outputs

\* Readings with the same labels, whatever fields they are of.
LEMMA LabelsOf ==
    /\ \A a, b, f : SameLabels(R(a, f), R(b, f))
    /\ \A a, b, f, x : SameLabels(RX(a, f, x), RX(b, f, x))
    /\ \A a, b, f, x : SameLabels(RPX(a, f, Blank, x), RX(b, f, x))
    /\ \A a, f, x : RX(a, f, x).family = f
BY DEF SameLabels, R, RX, RPX, Reading

\* What Gen2 has the labels of.
LEMMA Gen2Has ==
    ASSUME NEW t \in Types, NEW q \in ReadingsOf(t), NEW r, SameLabels(q, r)
    PROVE  <<MeterOf(t), r.family, r.phase, r.extra>> \in Gen2Labels
BY DEF Gen2Labels, SameLabels

\* Every reading of a Gen1 device has its counterpart, the exceptions named apart.
LEMMA Gen1HasGen2 ==
    ASSUME NEW c \in Gen1Components \ {"ext_temperature", "ext_humidity"}, NEW r \in Gen1Of(c),
           r.family \notin {"component_error", "input_counts"}
    PROVE  <<c, r.family, r.phase, r.extra>> \in Gen2Labels
<1>1. /\ \A t \in DOMAIN Extractor \ {"light"} : t \in Types /\ ReadingsOf(t) = Extractor[t]
      /\ "light" \in Types /\ ReadingsOf("light") = Extractor["light"]
  BY ExtractorIs DEF Types, ReadingsOf, Lights
<1>2. /\ MeterOf("em1data") = "em1"
      /\ \A t \in Types \ {"emdata", "em1data"} : MeterOf(t) = t
  BY DEF MeterOf, Meter
<1>3. SUFFICES \E t \in Types : MeterOf(t) = c /\ \E q \in ReadingsOf(t) : SameLabels(q, r)
  BY Gen2Has
<1>4. CASE c \in Outputs
  <2> DEFINE families == {"power_watts", "temperature_celsius"}
  <2>1. \A q \in Powered : q \in ReadingsOf("switch") /\ q \in ReadingsOf("light")
    BY <1>1, ExtractorIs
  <2>2. /\ \A f \in families : \E a : R(a, f) \in Powered
        /\ \A x \in {"import", "export"} : \E a : RX(a, "energy_joules", x) \in Powered
    BY DEF Powered, Electrical
  <2>3. \/ \E a : \E f \in families : r = R(a, f)
        \/ \E a : \E x \in {"import", "export"} : r = RX(a, "energy_joules", x)
        \/ c = "switch" /\ r = R("always", "switch_on")
        \/ c = "light" /\ (r = R("always", "light_on") \/ r = R("brightness", "light_brightness_ratio"))
    <3>1. CASE c = "switch"
      BY <3>1, Gen1OfIs, LabelsOf DEF OfRelay, OfMeter, Inside
    <3>2. CASE c = "light"
      BY <3>2, Gen1OfIs, LabelsOf DEF OfLight, OfMeter, Inside
    <3> QED BY <1>4, <3>1, <3>2 DEF Outputs
  <2> HIDE DEF families
  <2>4. CASE (\E a : \E f \in families : r = R(a, f))
             \/ \E a : \E x \in {"import", "export"} : r = RX(a, "energy_joules", x)
    <3>1. \E q \in Powered : SameLabels(q, r)
      BY <2>2, <2>4, LabelsOf
    <3>2. c \in Types /\ MeterOf(c) = c
      BY <1>1, <1>2, <1>4, ExtractorIs DEF Outputs
    <3>3. \A q \in Powered : q \in ReadingsOf(c)
      BY <1>4, <2>1 DEF Outputs
    <3> QED BY <3>1, <3>2, <3>3
  <2>5. CASE c = "switch" /\ r = R("always", "switch_on")
    BY <1>1, <1>2, <2>5, ExtractorIs, LabelsOf
  <2>6. CASE c = "light" /\ (r = R("always", "light_on") \/ r = R("brightness", "light_brightness_ratio"))
    <3>1. \E q \in Extractor["light"] : SameLabels(q, r)
      BY <2>6, ExtractorIs, LabelsOf
    <3> QED BY <1>1, <1>2, <2>6, <3>1
  <2> QED BY <2>3, <2>4, <2>5, <2>6
<1>5. CASE c = "em1"
  <2>1. (\E q \in EM1 : SameLabels(q, r)) \/ \E q \in EM1Data : SameLabels(q, r)
    <3>1. \A x \in {"import", "export"} : \E a : RPX(a, "energy_joules", Blank, x) \in EM1Data
      BY DEF EM1Data, EnergyOf
    <3>2. \A f \in {"power_watts", "voltage_volts", "current_amperes", "power_factor"} : \E a : R(a, f) \in EM1
      BY DEF EM1, Electrical
    <3>3. \/ \E a : \E f \in {"power_watts", "voltage_volts", "current_amperes", "power_factor"} : r = R(a, f)
          \/ \E a : \E x \in {"import", "export"} : r = RX(a, "energy_joules", x)
      BY <1>5, Gen1OfIs DEF OfEMeter
    <3> QED BY <3>1, <3>2, <3>3, LabelsOf
  <2> QED BY <1>1, <1>2, <1>5, <2>1, ExtractorIs
<1>6. CASE c \in {"input", "temperature"}
  <2>1. /\ c = "input" => \E q \in Input : SameLabels(q, r)
        /\ c = "temperature" => \E q \in ReadingsOf("temperature") : SameLabels(q, r)
    <3>1. c = "input" => r = R("always", "input_state")
      BY Gen1OfIs, LabelsOf DEF OfInput
    <3>2. c = "temperature" => r = R("tmp", "temperature_celsius")
      BY Gen1OfIs
    <3>3. R("state", "input_state") \in Input /\ R("tC", "temperature_celsius") \in ReadingsOf("temperature")
      BY <1>1, ExtractorIs DEF Input
    <3> QED BY <3>1, <3>2, <3>3, LabelsOf
  <2> QED BY <1>1, <1>2, <1>6, <2>1, ExtractorIs
<1>7. CASE c = "sys"
  <2>1. r \in Sys /\ SameLabels(r, r)
    BY <1>7, Gen1OfIs, DeviceIs DEF SameLabels
  <2> QED BY <1>1, <1>2, <1>7, <2>1, ExtractorIs
<1>8. CASE c \in DOMAIN OfDevice \ {"sys"}
  <2>1. c \in {"humidity", "illuminance", "devicepower", "wifi", "cloud", "mqtt"}
    BY <1>8, DeviceIs
  <2>2. \E q \in Extractor[c] : SameLabels(q, r)
    <3>1. CASE c \in {"humidity", "illuminance", "cloud", "mqtt"}
      <4>1. \E a, b, f : OfDevice[c] = {R(a, f)} /\ R(b, f) \in Extractor[c]
        BY <3>1, DeviceIs, ExtractorIs
      <4> QED BY <1>8, <4>1, Gen1OfIs, LabelsOf
    <3>2. CASE c = "devicepower"
      <4>1. \E a : \E f \in {"battery_ratio", "voltage_volts"} : r = R(a, f)
        BY <1>8, <3>2, Gen1OfIs, DeviceIs
      <4>2. \A f \in {"battery_ratio", "voltage_volts"} : \E a : R(a, f) \in Extractor[c]
        BY <3>2, ExtractorIs DEF DevicePower
      <4> QED BY <4>1, <4>2, LabelsOf
    <3>3. CASE c = "wifi"
      <4>1. \E a : \E f \in {"wifi_rssi_dbm", "wifi_connected"} : r = R(a, f)
        BY <1>8, <3>3, Gen1OfIs, DeviceIs
      <4>2. \A f \in {"wifi_rssi_dbm", "wifi_connected"} : \E a : R(a, f) \in Extractor[c]
        BY <3>3, ExtractorIs
      <4> QED BY <4>1, <4>2, LabelsOf
    <3> QED BY <2>1, <3>1, <3>2, <3>3
  <2> QED BY <1>1, <1>2, <2>1, <2>2, ExtractorIs
<1> QED BY <1>4, <1>5, <1>6, <1>7, <1>8 DEF Gen1Components, Outputs

\* An array's readings are those of its elements.
LEMMA EachIs ==
    ASSUME NEW n, NEW rs, NEW has, NEW component, NEW e
    PROVE  e \in Each(n, rs, has, component) <=>
              \E i \in 0 .. n - 1 : \E r \in Usable(rs, has) : e = Emitted(r, component, i, ComponentName(component))
BY LabelIs DEF Each, Named, Emitted

\* Of outputs and meters there is a number each.
Sensible(d) == {d.relays, d.lights, d.meters} \subseteq Nat

\* The outputs a document has.
Count(d, component) == IF component = "switch" THEN d.relays ELSE d.lights

\* The meters and the temperature of a device are of the outputs it lists (decodeGen1Status).
LEMMA OutputIs ==
    ASSUME NEW d, Sensible(d)
    PROVE  Output(d) \in Outputs /\ Count(d, Output(d)) = OutputsListed(d)
BY DEF Sensible, Output, Outputs, Count, OutputsListed

\* Of a component's readings; and if of an output, of one that is there or is not listed.
Shaped(d, e) ==
    \E c \in Gen1Components : \E r \in Gen1Of(c) : \E id :
       /\ e = Emitted(r, c, id, Gen1Name(c))
       /\ c \in Outputs => id \in Nat /\ (id < Count(d, c) \/ id >= OutputsListed(d))

\* What can be read is of the readings.
LEMMA UsableIs == \A rs, has : Usable(rs, has) \subseteq rs
BY DEF Usable

\* What an array is decoded to is of its component.
LEMMA EachShaped ==
    ASSUME NEW d, NEW n, NEW rs, NEW c \in Outputs \cup {"em1", "input"}, rs \subseteq Gen1Of(c),
           c \in Outputs => n \in Nat /\ \A i \in Nat : i < n => i < Count(d, c) \/ i >= OutputsListed(d)
    PROVE  \A e \in Each(n, rs, d.has, c) : Shaped(d, e)
<1> SUFFICES ASSUME NEW e \in Each(n, rs, d.has, c)
             PROVE  Shaped(d, e)
  OBVIOUS
<1>1. PICK i \in 0 .. n - 1 : \E r \in Usable(rs, d.has) : e = Emitted(r, c, i, ComponentName(c))
  BY EachIs
<1>2. PICK r \in Usable(rs, d.has) : e = Emitted(r, c, i, ComponentName(c))
  BY <1>1
<1>3. r \in Gen1Of(c) /\ c \in Gen1Components /\ ComponentName(c) = Gen1Name(c)
  BY UsableIs DEF Gen1Components, Gen1Name
<1>4. c \in Outputs => i \in Nat /\ (i < Count(d, c) \/ i >= OutputsListed(d))
  <2> SUFFICES ASSUME c \in Outputs
               PROVE  i \in Nat /\ (i < Count(d, c) \/ i >= OutputsListed(d))
    OBVIOUS
  <2>1. i \in Nat /\ i < n
    BY <1>1
  <2> QED BY <2>1
<1> QED BY <1>2, <1>3, <1>4 DEF Shaped

\* What is read of the device itself is of its component.
LEMMA LabelShaped ==
    ASSUME NEW d, NEW rs, NEW c \in Gen1Components, rs \subseteq Gen1Of(c),
           c \in Outputs => 0 < Count(d, c) \/ 0 >= OutputsListed(d)
    PROVE  \A e \in Label(Usable(rs, d.has), c, 0, Gen1Name(c)) : Shaped(d, e)
<1> SUFFICES ASSUME NEW e \in Label(Usable(rs, d.has), c, 0, Gen1Name(c))
             PROVE  Shaped(d, e)
  OBVIOUS
<1>1. PICK r \in Usable(rs, d.has) : e = Emitted(r, c, 0, Gen1Name(c))
  BY LabelIs DEF Emitted
<1>2. r \in rs /\ r \in Gen1Of(c)
  BY UsableIs
<1> QED BY <1>1, <1>2 DEF Shaped

\* All that a Gen1 document is decoded to is of the table, and of outputs that are there or not listed.
LEMMA DecodedIs ==
    ASSUME NEW d, Sensible(d)
    PROVE  \A e \in Decoded(d) : Shaped(d, e)
<1> SUFFICES ASSUME NEW e \in Decoded(d)
             PROVE  Shaped(d, e)
  OBVIOUS
<1>1. /\ OfRelay \subseteq Gen1Of("switch") /\ OfLight \subseteq Gen1Of("light")
      /\ OfEMeter \subseteq Gen1Of("em1") /\ OfInput \subseteq Gen1Of("input")
      /\ OfMeter \subseteq Gen1Of(Output(d)) /\ OfInside(d) \subseteq Gen1Of(Output(d))
      /\ OfOutside(d) \subseteq Gen1Of("temperature")
      /\ \A c \in DOMAIN OfDevice : OfDevice[c] \subseteq Gen1Of(c)
  BY Gen1OfIs, OutputIs DEF Outputs, OfInside, OfOutside, Inside
<1>2. {d.relays, d.lights, d.meters} \subseteq Nat /\ Output(d) \in Outputs /\ Outputs = {"switch", "light"}
  BY OutputIs DEF Sensible, Outputs
<1>3. CASE e \in Each(d.relays, OfRelay, d.has, "switch")
  <2>1. "switch" \in Outputs /\ Count(d, "switch") = d.relays /\ d.relays \in Nat
    BY <1>2 DEF Count
  <2> QED BY <1>1, <1>3, <2>1, EachShaped
<1>4. CASE e \in Each(d.lights, OfLight, d.has, "light")
  <2>1. "light" \in Outputs /\ Count(d, "light") = d.lights /\ d.lights \in Nat
    BY <1>2 DEF Count
  <2> QED BY <1>1, <1>4, <2>1, EachShaped
<1>5. CASE e \in Each(d.emeters, OfEMeter, d.has, "em1")
  <2>1. "em1" \notin Outputs
    BY <1>2
  <2> QED BY <1>1, <1>5, <2>1, EachShaped
<1>6. CASE e \in Each(d.inputs, OfInput, d.has, "input")
  <2>1. "input" \notin Outputs
    BY <1>2
  <2> QED BY <1>1, <1>6, <2>1, EachShaped
<1>7. CASE e \in Each(IF "valid" \in d.has THEN d.meters ELSE 0, OfMeter, d.has, Output(d))
  <2> DEFINE n == IF "valid" \in d.has THEN d.meters ELSE 0
  <2>1. n \in Nat /\ \A i \in Nat : i < Count(d, Output(d)) \/ i >= OutputsListed(d)
    BY <1>2, OutputIs DEF OutputsListed
  <2>2. e \in Each(n, OfMeter, d.has, Output(d))
    BY <1>7
  <2> HIDE DEF n
  <2> QED BY <1>1, <1>2, <2>1, <2>2, EachShaped
<1>8. CASE e \in Named(OfInside(d), d.has, Output(d), 0)
  <2>1. 0 < Count(d, Output(d)) \/ 0 >= OutputsListed(d)
    BY <1>2, OutputIs DEF OutputsListed
  <2>2. e \in Label(Usable(OfInside(d), d.has), Output(d), 0, Gen1Name(Output(d)))
    BY <1>2, <1>8 DEF Named, Gen1Name
  <2>3. Output(d) \in Gen1Components
    BY <1>2 DEF Gen1Components
  <2> QED BY <1>1, <2>1, <2>2, <2>3, LabelShaped
<1>9. CASE e \in Label(Usable(OfOutside(d), d.has), "temperature", 0, Blank)
  <2>1. "temperature" \in Gen1Components /\ "temperature" \notin Outputs /\ Gen1Name("temperature") = Blank
    BY <1>2 DEF Gen1Components, Gen1Name
  <2> QED BY <1>1, <1>9, <2>1, LabelShaped
<1>10. CASE \E c \in DOMAIN OfDevice : e \in Label(Usable(OfDevice[c], d.has), c, 0, Blank)
  <2>1. PICK c \in DOMAIN OfDevice : e \in Label(Usable(OfDevice[c], d.has), c, 0, Blank)
    BY <1>10
  <2>2. c \in Gen1Components /\ c \notin Outputs /\ Gen1Name(c) = Blank
    BY <1>2, DeviceIs DEF Gen1Components, Gen1Name
  <2> QED BY <1>1, <2>1, <2>2, LabelShaped
<1>11. \/ e \in Each(d.relays, OfRelay, d.has, "switch")
       \/ e \in Each(IF "valid" \in d.has THEN d.meters ELSE 0, OfMeter, d.has, Output(d))
       \/ e \in Each(d.emeters, OfEMeter, d.has, "em1")
       \/ e \in Each(d.inputs, OfInput, d.has, "input")
       \/ e \in Each(d.lights, OfLight, d.has, "light")
       \/ e \in Named(OfInside(d), d.has, Output(d), 0)
       \/ e \in Label(Usable(OfOutside(d), d.has), "temperature", 0, Blank)
       \/ \E c \in DOMAIN OfDevice : e \in Label(Usable(OfDevice[c], d.has), c, 0, Blank)
  BY DEF Decoded
<1> QED BY <1>3, <1>4, <1>5, <1>6, <1>7, <1>8, <1>9, <1>10, <1>11

\* An output that is there has a state.
LEMMA OutputHasState ==
    ASSUME NEW d, NEW c \in Outputs, NEW id \in 0 .. Count(d, c) - 1
    PROVE  \E e \in Decoded(d) : /\ e.series.component = c /\ e.series.id = id /\ e.series.name = Gen1Name(c)
                                 /\ e.series.family \in {"switch_on", "light_on"}
<1>1. Gen1Name(c) = ComponentName(c)
  BY DEF Gen1Name
<1>2. \A a, f, x, y, z : LET e == Emitted(R(a, f), x, y, z)
                        IN  /\ e.series.component = x /\ e.series.id = y /\ e.series.name = z
                            /\ e.series.family = f
  BY DEF Emitted, SeriesOf, R, Reading
<1>3. \A rs, has, f : R("always", f) \in rs => R("always", f) \in Usable(rs, has)
  BY DEF Usable, Readable, R, Reading
<1>4. CASE c = "switch"
  <2> DEFINE e == Emitted(R("always", "switch_on"), c, id, ComponentName(c))
  <2>1. R("always", "switch_on") \in Usable(OfRelay, d.has)
    BY <1>3 DEF OfRelay
  <2>2. e \in Each(d.relays, OfRelay, d.has, "switch")
    BY <1>4, <2>1, EachIs DEF Count
  <2>3. e \in Decoded(d)
    BY <2>2 DEF Decoded
  <2> QED BY <1>1, <1>2, <2>3
<1>5. CASE c = "light"
  <2> DEFINE e == Emitted(R("always", "light_on"), c, id, ComponentName(c))
  <2>1. R("always", "light_on") \in Usable(OfLight, d.has)
    BY <1>3 DEF OfLight
  <2>2. e \in Each(d.lights, OfLight, d.has, "light")
    BY <1>5, <2>1, EachIs DEF Count
  <2>3. e \in Decoded(d)
    BY <2>2 DEF Decoded
  <2> QED BY <1>1, <1>2, <2>3
<1> QED BY <1>4, <1>5 DEF Outputs

-----------------------------------------------------------------------------
(* Invariants, by the kind of document; a document is what it was to the end *)

\* The labels of a series are those it was given.
LEMMA SeriesIs ==
    \A r, c, i, n : LET s == SeriesOf(r, c, i, n)
                   IN  s.component = c /\ s.id = i /\ s.name = n /\ s.family = r.family
BY DEF SeriesOf

\* The component a series is of.  Its energy is apart.
Whence(s, c) ==
    /\ s.component = MeterOf(c.type) /\ s.id = c.id
    /\ c.type \in DOMAIN Meter => s.family = "energy_joules"
    /\ c.type \in {"em", "em1"} => s.family # "energy_joules"

\* Every series but the header's is of a component that was walked, and all that those read is there.
Gen2Inv ==
    doc.kind = "gen2" =>
        /\ NothingDropped
        /\ left \subseteq doc.parts
        /\ \A s \in out.series : s.component = Blank \/ \E c \in doc.parts \ left : Whence(s, c)
        /\ ~renamed => \A c \in doc.parts \ left : c.type \in Types =>
              \A r \in Usable(ReadingsOf(c.type), c.has) :
                 SeriesOf(r, MeterOf(c.type), c.id, ComponentName(c.type)) \in out.series

\* Nothing but the header until the document is decoded; then it matches Gen2.
Gen1Inv ==
    doc.kind = "gen1" =>
        /\ NothingDropped
        /\ left \subseteq doc.parts
        /\ left # {} => \A s \in out.series : s.component = Blank
        /\ Gen1MatchesGen2

\* The series of an entity.
EntitySeries(n, r) == SeriesOf(r, n.domain, n.id, n.domain)

\* Every series but the header's is of an entity rendered by now, and all that those render is there.
EsphomeInv ==
    doc.kind = "esphome" =>
        /\ NothingDropped
        /\ left \subseteq doc.parts
        /\ \A s \in out.series : \/ s.component = Blank
                                 \/ \E n \in doc.parts \ left : \E r \in Rendered(n) : s = EntitySeries(n, r)
        /\ doc.connected => \A n \in doc.parts \ left : \A r \in Rendered(n) : EntitySeries(n, r) \in out.series

\* What may be there twice is a matter of the document.
LEMMA KnownStays ==
    ASSUME doc' = doc
    PROVE  /\ \A s : KnownTwice(s)' <=> KnownTwice(s)
           /\ UnknownParts' = UnknownParts
BY DEF KnownTwice, ReadTwice, SanitisedAlike, ListedTwice, UnknownParts

\* No document but Gen2's has components that the walk may not know.
LEMMA OnlyOfGen2 == (doc.kind # "gen2" => UnknownKept) /\ (doc'.kind # "gen2" => UnknownKept')
BY DEF UnknownKept, UnknownParts

\* What was dropped by now is a matter of the emitter, of the document and of what is left of it.
LEMMA DroppedStays ==
    ASSUME NothingDropped, doc' = doc, left' = left, out' = out
    PROVE  NothingDropped'
<1>1. UnknownKept'
  BY KnownStays DEF NothingDropped, UnknownKept
<1> QED BY <1>1, KnownStays DEF NothingDropped

\* At the start there is the header, and nothing went wrong.
LEMMA HeaderOnly ==
    ASSUME Init
    PROVE  out.errs = {} /\ out.twice = {} /\ left \subseteq doc.parts /\ \A s \in out.series : s.component = Blank
<1>1. out = Emit(Nothing, Label(Header, Blank, 0, Blank)) /\ left \subseteq doc.parts
  BY DEF Init
<1>2. \A r \in Header : Fitting(r)
  BY HeaderFits DEF AllFit
<1>3. /\ out.errs = Nothing.errs
      /\ \A s : s \in out.series <=> s \in Nothing.series \/ \E r \in Header : s = SeriesOf(r, Blank, 0, Blank)
      /\ \A s \in out.twice :
            \/ s \in Nothing.twice
            \/ \E r \in Header : /\ s = SeriesOf(r, Blank, 0, Blank)
                                 /\ s \in Nothing.series \/ \E q \in Header : q # r /\ SameLabels(q, r)
  BY <1>1, <1>2, EmitLabelIs
<1>4. Nothing.errs = {} /\ Nothing.series = {} /\ Nothing.twice = {}
  BY DEF Nothing
<1>5. out.twice = {}
  BY <1>3, <1>4, HeaderFits DEF Apart
<1> QED BY <1>1, <1>3, <1>4, <1>5, SeriesIs

-----------------------------------------------------------------------------
(* The second generation *)

\* The meters energy is reported for.
LEMMA MeterIs ==
    /\ DOMAIN Meter = {"emdata", "em1data"} /\ Meter["emdata"] = "em" /\ Meter["em1data"] = "em1"
    /\ \A t : t \notin DOMAIN Meter => MeterOf(t) = t
    /\ MeterOf("emdata") = "em" /\ MeterOf("em1data") = "em1"
    /\ DOMAIN Meter \cup {"em", "em1"} \subseteq Types
BY ExtractorIs DEF Meter, MeterOf, Types

\* Two components that report one series are one.
LEMMA OnePlace ==
    ASSUME NEW s, NEW c, NEW e, Whence(s, c), Whence(s, e)
    PROVE  c.type = e.type /\ c.id = e.id
<1>1. MeterOf(c.type) = MeterOf(e.type) /\ c.id = e.id
  BY DEF Whence
<1>2. CASE c.type \in DOMAIN Meter /\ e.type \in DOMAIN Meter
  BY <1>1, <1>2, MeterIs
<1>3. CASE c.type \notin DOMAIN Meter /\ e.type \notin DOMAIN Meter
  BY <1>1, <1>3, MeterIs
<1>4. CASE c.type \in DOMAIN Meter /\ e.type \notin DOMAIN Meter
  <2>1. e.type \in {"em", "em1"} /\ s.family = "energy_joules"
    BY <1>1, <1>4, MeterIs DEF Whence
  <2> QED BY <2>1 DEF Whence
<1>5. CASE c.type \notin DOMAIN Meter /\ e.type \in DOMAIN Meter
  <2>1. c.type \in {"em", "em1"} /\ s.family = "energy_joules"
    BY <1>1, <1>5, MeterIs DEF Whence
  <2> QED BY <2>1 DEF Whence
<1> QED BY <1>1, <1>2, <1>3, <1>4, <1>5

\* What a component reads is its own: an em1 without energy of its own is told from its em1data.
LEMMA WhenceOf ==
    ASSUME NEW c, c.type \in Types, c.type = "em1" => c.has \cap {"apower", "aenergy", "ret_aenergy"} = {},
           NEW r \in Usable(ReadingsOf(c.type), c.has), NEW name
    PROVE  Whence(SeriesOf(r, MeterOf(c.type), c.id, name), c)
<1>1. r \in ReadingsOf(c.type) /\ r.at \in Readable(c.has)
  BY DEF Usable
<1>2. c.type = "em1" => r.at \notin {"aenergy", "ret_aenergy"}
  BY <1>1 DEF Readable
<1> QED BY <1>1, <1>2, EnergyIsApart, SeriesIs DEF Whence

\* No component is the blank one, which the header has.
LEMMA MeterNotBlank == \A t : t # Blank => MeterOf(t) # Blank
BY MeterIs, BlankIs

\* A component is walked: its series are new.
LEMMA Gen2Walk ==
    ASSUME Gen2Inv, doc.kind = "gen2", WellFormed(doc), NEW c \in left, NEW rs, NEW name,
           Walked(c, Label(rs, MeterOf(c.type), c.id, name)),
           \A r \in rs : r.kind = "raw" \/ Fitting(r),
           \A r \in rs : Whence(SeriesOf(r, MeterOf(c.type), c.id, name), c),
           \A r, q \in rs : SameLabels(q, r) => q = r \/ KnownTwice(SeriesOf(r, MeterOf(c.type), c.id, name)),
           \/ c \notin UnknownParts \/ ~GenericFallback \/ ~(Cardinality(NamesOf(c.has)) <= MaxRawLeaves)
           \/ MeterOf(c.type) = c.type /\ \A n \in NamesOf(c.has) : \E r \in rs : r.family = RawFamily(n)
    PROVE  /\ NothingDropped'
           /\ left' \subseteq doc'.parts
           /\ \A s \in out'.series : s.component = Blank \/ \E e \in doc'.parts \ left' : Whence(s, e)
           /\ out.series \subseteq out'.series
           /\ \A r \in rs : SeriesOf(r, MeterOf(c.type), c.id, name) \in out'.series
<1> DEFINE At(r) == SeriesOf(r, MeterOf(c.type), c.id, name)
<1>1. /\ NothingDropped /\ left \subseteq doc.parts
      /\ \A s \in out.series : s.component = Blank \/ \E e \in doc.parts \ left : Whence(s, e)
  BY DEF Gen2Inv
<1>2. doc' = doc /\ left' = left \ {c} /\ out' = Emit(out, Label(rs, MeterOf(c.type), c.id, name))
  BY DEF Walked
<1>3. /\ out'.errs = out.errs
      /\ \A s : s \in out'.series <=> s \in out.series \/ \E r \in rs : s = At(r)
      /\ \A s \in out'.twice :
            \/ s \in out.twice
            \/ \E r \in rs : s = At(r) /\ (s \in out.series \/ \E q \in rs : q # r /\ SameLabels(q, r))
  BY <1>2, EmitLabelIs
<1>4. \A r \in rs : At(r) \notin out.series
  <2> SUFFICES ASSUME NEW r \in rs, At(r) \in out.series
               PROVE  FALSE
    OBVIOUS
  <2>1. c \in doc.parts /\ c.type # Blank
    BY <1>1 DEF WellFormed
  <2>2. At(r).component = MeterOf(c.type) /\ MeterOf(c.type) # Blank
    BY <2>1, SeriesIs, MeterNotBlank
  <2>3. PICK e \in doc.parts \ left : Whence(At(r), e)
    BY <1>1, <2>2
  <2>4. Whence(At(r), c)
    OBVIOUS
  <2>5. c.type = e.type /\ c.id = e.id
    BY <2>3, <2>4, OnePlace
  <2> QED BY <2>1, <2>3, <2>5 DEF WellFormed
<1>5. UnknownKept'
  <2> SUFFICES ASSUME NEW e \in UnknownParts' \ left', GenericFallback, Cardinality(NamesOf(e.has)) <= MaxRawLeaves,
                      NEW n \in NamesOf(e.has)
               PROVE  \E s \in out'.series : s.family = RawFamily(n) /\ s.component = e.type /\ s.id = e.id
    BY DEF UnknownKept
  <2>1. e \in UnknownParts /\ (e \notin left \/ e = c)
    BY <1>2, KnownStays
  <2>2. CASE e = c
    <3>1. PICK r \in rs : r.family = RawFamily(n)
      BY <2>1, <2>2
    <3>2. At(r).family = RawFamily(n) /\ At(r).component = e.type /\ At(r).id = e.id
      BY <2>1, <2>2, <3>1, SeriesIs
    <3> QED BY <1>3, <3>2
  <2>3. CASE e # c
    <3>1. \E s \in out.series : s.family = RawFamily(n) /\ s.component = e.type /\ s.id = e.id
      BY <1>1, <2>1, <2>3 DEF NothingDropped, UnknownKept
    <3> QED BY <1>3, <3>1
  <2> QED BY <2>2, <2>3
<1>6. NothingDropped'
  <2>1. out'.errs = {}
    BY <1>1, <1>3 DEF NothingDropped
  <2>2. \A s \in out'.twice : KnownTwice(s)
    BY <1>1, <1>3, <1>4 DEF NothingDropped
  <2> QED BY <1>2, <1>5, <2>1, <2>2, KnownStays DEF NothingDropped
<1>7. ASSUME NEW s \in out'.series
      PROVE  s.component = Blank \/ \E e \in doc'.parts \ left' : Whence(s, e)
  <2>1. CASE s \in out.series
    BY <1>1, <1>2, <2>1
  <2>2. CASE \E r \in rs : s = At(r)
    BY <1>1, <1>2, <2>2
  <2> QED BY <1>3, <2>1, <2>2
<1>8. left' \subseteq doc'.parts
  BY <1>1, <1>2
<1>9. out.series \subseteq out'.series /\ \A r \in rs : At(r) \in out'.series
  BY <1>3
<1> QED BY <1>6, <1>7, <1>8, <1>9

\* A component with an extractor keeps the invariant (extractComponent).
LEMMA WalkComponentKeeps ==
    ASSUME Gen2Inv, doc.kind = "gen2", WellFormed(doc), NEW c \in left, WalkComponent(c)
    PROVE  Gen2Inv'
<1> DEFINE rs == Usable(ReadingsOf(c.type), c.has)
           name == ComponentName(c.type)
<1>1. c.type \in Types /\ Walked(c, Label(rs, MeterOf(c.type), c.id, name))
  BY DEF WalkComponent
<1>2. c.type = "em1" => c.has \cap {"apower", "aenergy", "ret_aenergy"} = {}
  BY DEF WellFormed, Gen2Inv
<1>3. \A r \in rs : Fitting(r)
  BY <1>1, ExtractorsFit, TypesAre DEF AllFit, Usable
<1>4. \A r \in rs : Whence(SeriesOf(r, MeterOf(c.type), c.id, name), c)
  BY <1>1, <1>2, WhenceOf
<1>5. \A r, q \in rs : SameLabels(q, r) => q = r \/ Doubled(c.type, q)
  BY <1>1, <1>2, ReadingsApart
<1>6. \A r, q \in rs : SameLabels(q, r) => q = r \/ KnownTwice(SeriesOf(r, MeterOf(c.type), c.id, name))
  <2>1. \A r \in rs : Doubled(c.type, r) => KnownTwice(SeriesOf(r, MeterOf(c.type), c.id, name))
    BY SeriesIs, MeterIs DEF Doubled, KnownTwice, ReadTwice
  <2> QED BY <1>5, <2>1 DEF Doubled, SameLabels
<1>7. doc' = doc /\ app' = app /\ renamed' = renamed /\ left' = left \ {c}
  BY <1>1 DEF Walked
<1>6a. c \notin UnknownParts
  BY <1>1 DEF UnknownParts
<1> HIDE DEF rs, name
<1>8. /\ NothingDropped'
      /\ left' \subseteq doc'.parts
      /\ \A s \in out'.series : s.component = Blank \/ \E e \in doc'.parts \ left' : Whence(s, e)
      /\ out.series \subseteq out'.series
      /\ \A r \in rs : SeriesOf(r, MeterOf(c.type), c.id, name) \in out'.series
  BY <1>1, <1>3, <1>4, <1>6, <1>6a, Gen2Walk
<1>9. \A t : ComponentName(t)' = ComponentName(t)
  BY <1>7 DEF ComponentName, NameIn
<1>10. ASSUME ~renamed, NEW e \in doc.parts \ left', e.type \in Types, NEW r \in Usable(ReadingsOf(e.type), e.has)
       PROVE  SeriesOf(r, MeterOf(e.type), e.id, ComponentName(e.type)) \in out'.series
  <2>1. CASE e = c
    BY <1>8, <1>10, <2>1 DEF rs, name
  <2>2. CASE e # c
    <3>1. e \in doc.parts \ left
      BY <1>7, <1>10, <2>2
    <3>2. SeriesOf(r, MeterOf(e.type), e.id, ComponentName(e.type)) \in out.series
      BY <1>10, <3>1 DEF Gen2Inv
    <3> QED BY <1>8, <3>2
  <2> QED BY <2>1, <2>2
<1>11. ~renamed' => \A e \in doc'.parts \ left' : e.type \in Types =>
              \A r \in Usable(ReadingsOf(e.type), e.has) :
                 SeriesOf(r, MeterOf(e.type), e.id, ComponentName(e.type)') \in out'.series
  BY <1>7, <1>9, <1>10
<1> QED BY <1>8, <1>11 DEF Gen2Inv

\* A component that has no extractor.
LEMMA WalkOtherKeeps ==
    ASSUME Gen2Inv, doc.kind = "gen2", WellFormed(doc), NEW c \in left, c.type \notin Types, NEW rs,
           Walked(c, Label(rs, c.type, c.id, Blank)),
           \A r \in rs : r.kind = "raw",
           \A r, q \in rs : SameLabels(q, r) => q = r \/ KnownTwice(SeriesOf(r, c.type, c.id, Blank)),
           \/ c \notin UnknownParts \/ ~GenericFallback \/ ~(Cardinality(NamesOf(c.has)) <= MaxRawLeaves)
           \/ \A n \in NamesOf(c.has) : \E r \in rs : r.family = RawFamily(n)
    PROVE  Gen2Inv'
<1>1. MeterOf(c.type) = c.type /\ c.type \notin DOMAIN Meter \cup {"em", "em1"}
  BY MeterIs
<1>2. \A r \in rs : Whence(SeriesOf(r, MeterOf(c.type), c.id, Blank), c)
  BY <1>1, SeriesIs DEF Whence
<1>3. /\ NothingDropped'
      /\ left' \subseteq doc'.parts
      /\ \A s \in out'.series : s.component = Blank \/ \E e \in doc'.parts \ left' : Whence(s, e)
      /\ out.series \subseteq out'.series
  BY <1>1, <1>2, Gen2Walk
<1>4. doc' = doc /\ app' = app /\ renamed' = renamed /\ left' = left \ {c}
  BY DEF Walked
<1>5. \A t : ComponentName(t)' = ComponentName(t)
  BY <1>4 DEF ComponentName, NameIn
<1>6. ~renamed' => \A e \in doc'.parts \ left' : e.type \in Types =>
              \A r \in Usable(ReadingsOf(e.type), e.has) :
                 SeriesOf(r, MeterOf(e.type), e.id, ComponentName(e.type)') \in out'.series
  BY <1>3, <1>4, <1>5 DEF Gen2Inv
<1> QED BY <1>3, <1>6 DEF Gen2Inv

\* So does one that is skipped.
LEMMA SkipComponentKeeps ==
    ASSUME Gen2Inv, doc.kind = "gen2", WellFormed(doc), NEW c \in left, SkipComponent(c)
    PROVE  Gen2Inv'
<1>1. Label({}, c.type, c.id, Blank) = {}
  BY DEF Label
<1>2. c.type \notin Types
  BY ExtractorIs DEF SkipComponent, Skipped, Types, Lights
<1>3. Walked(c, Label({}, c.type, c.id, Blank))
  BY <1>1 DEF SkipComponent
<1>4. c \notin UnknownParts
  BY DEF SkipComponent, UnknownParts
<1> QED BY <1>2, <1>3, <1>4, WalkOtherKeeps

\* A component has no more names than leaves.
LEMMA NamesFinite ==
    ASSUME NEW has, IsFiniteSet(has)
    PROVE  IsFiniteSet(NamesOf(has))
<1> DEFINE f == [p \in has |-> Name(p)]
<1>1. f \in [has -> NamesOf(has)] /\ \A n \in NamesOf(has) : \E p \in has : f[p] = n
  BY DEF NamesOf
<1> HIDE DEF f
<1>2. f \in Surjection(has, NamesOf(has))
  BY <1>1, Fun_IsSurj
<1> QED BY <1>2, FS_Surjection

\* Within the limit a component's every name is found: no object is left out (collectLeaves).
LEMMA FoundAll ==
    ASSUME NEW has, IsFiniteSet(has), \A p \in has : Len(p) \in 1 .. 2,
           Cardinality(NamesOf(has)) <= MaxRawLeaves, NEW names \in Found(has)
    PROVE  names = NamesOf(has)
<1>1. PICK O \in SUBSET Objects(has) :
         /\ names = NamesOf(Beside(has) \cup Within(has, O))
         /\ O # Objects(has) => Enough(Beside(has) \cup Within(has, O))
  BY DEF Found
<1>2. IsFiniteSet(NamesOf(has))
  BY NamesFinite
<1>3. NamesOf(Beside(has) \cup Within(has, O)) \subseteq NamesOf(has)
  BY DEF NamesOf, Beside, Within
<1>4. ~Enough(Beside(has) \cup Within(has, O))
  <2> DEFINE few == NamesOf(Beside(has) \cup Within(has, O))
  <2>1. Cardinality(few) \in Nat /\ Cardinality(few) <= Cardinality(NamesOf(has)) /\ Cardinality(NamesOf(has)) \in Nat
    BY <1>2, <1>3, FS_Subset, FS_CardinalityType
  <2>2. MaxRawLeaves \in Nat /\ MaxRawLeaves > 0
    BY ReadingsAssumption
  <2> HIDE DEF few
  <2>3. ~(Cardinality(few) >= 2 * MaxRawLeaves)
    BY <2>1, <2>2
  <2> QED BY <2>3 DEF Enough, few
<1>5. \A p \in has : Len(p) = 1 \/ Len(p) = 2
  OBVIOUS
<1>6. Beside(has) \cup Within(has, Objects(has)) = has
  BY <1>5 DEF Beside, Within, Objects
<1> QED BY <1>1, <1>4, <1>6

\* No name is before itself, so of few enough names all are the first few (genericWalk).
LEMMA FewAll ==
    ASSUME NEW N \in SUBSET Seq(Nat), IsFiniteSet(N), Cardinality(N) <= MaxRawLeaves
    PROVE  FirstFew(N) = N
<1>1. SUFFICES ASSUME NEW n \in N
               PROVE  Cardinality({k \in N : Precedes(k, n)}) < MaxRawLeaves
  BY DEF FirstFew
<1>2. ~Precedes(n, n)
  BY DEF Precedes
<1> DEFINE before == {k \in N : Precedes(k, n)}
<1>3. before \subseteq N \ {n}
  BY <1>2
<1>4. IsFiniteSet(N \ {n}) /\ Cardinality(N \ {n}) = Cardinality(N) - 1
  BY FS_RemoveElement
<1> HIDE DEF before
<1>5. Cardinality(before) <= Cardinality(N \ {n}) /\ Cardinality(before) \in Nat
  BY <1>3, <1>4, FS_Subset, FS_CardinalityType
<1>6. Cardinality(N) \in Nat /\ MaxRawLeaves \in Nat
  BY FS_CardinalityType, ReadingsAssumption
<1>7. Cardinality(before) < MaxRawLeaves
  BY <1>4, <1>5, <1>6
<1> QED BY <1>7 DEF before

\* The names of leaves are of words and separators, as their keys are.
LEMMA NamesAre ==
    ASSUME NEW has, \A q \in has : Len(q) \in 1 .. 2 /\ \A i \in 1 .. Len(q) : Key(q[i])
    PROVE  NamesOf(has) \in SUBSET Seq(Nat)
<1> SUFFICES ASSUME NEW p \in has
             PROVE  Name(p) \in Seq(Nat)
  BY DEF NamesOf
<1>1. Len(p) \in 1 .. 2 /\ \A i \in 1 .. Len(p) : p[i] \in Seq(Nat)
  BY DEF Key
<1>2. CASE Len(p) = 1
  <2>1. p[1] \in Seq(Nat)
    BY <1>1, <1>2
  <2> QED BY <1>2, <2>1 DEF Name
<1>3. CASE Len(p) = 2
  <2>1. p[1] \in Seq(Nat) /\ p[2] \in Seq(Nat) /\ <<Underscore>> \in Seq(Nat)
    BY <1>1, <1>3 DEF Underscore
  <2>2. p[1] \o <<Underscore>> \o p[2] \in Seq(Nat)
    BY <2>1
  <2> QED BY <1>3, <2>1, <2>2 DEF Name
<1>4. Len(p) = 1 \/ Len(p) = 2
  BY <1>1
<1> QED BY <1>2, <1>3, <1>4

\* What is found is of the component's names, and no raw reading has another's label but by its name.
LEMMA RawAre ==
    ASSUME NEW has, NEW names \in Found(has), NEW r \in RawReadings(names)
    PROVE  \E n \in NamesOf(has) : r = RawReading(n, RawFamily(n)) /\ r.kind = "raw" /\ r.family = RawFamily(n)
<1>1. names \subseteq NamesOf(has)
  BY DEF Found, NamesOf, Beside, Within
<1>2. PICK n \in names : r = RawReading(n, RawFamily(n))
  BY DEF RawReadings, FirstFew
<1>3. r.kind = "raw" /\ r.family = RawFamily(n)
  BY <1>2 DEF RawReading, Reading
<1> QED BY <1>1, <1>2, <1>3

\* A component that nothing is known of, with the generic fallback or without (genericWalk).
LEMMA WalkUnknownKeeps ==
    ASSUME Gen2Inv, doc.kind = "gen2", WellFormed(doc), NEW c \in left, WalkUnknown(c)
    PROVE  Gen2Inv'
<1>1. PICK names \in Found(c.has) :
         Walked(c, IF GenericFallback THEN Label(RawReadings(names), c.type, c.id, Blank) ELSE {})
  BY DEF WalkUnknown
<1>2. c.type \notin Types /\ c.type \notin Skipped /\ c \in doc.parts
  BY DEF WalkUnknown, Gen2Inv
<1>3. CASE GenericFallback
  <2>1. \A r \in RawReadings(names) : r.kind = "raw"
    BY RawAre
  <2>2. ASSUME NEW r \in RawReadings(names), NEW q \in RawReadings(names), SameLabels(q, r), q # r
        PROVE  KnownTwice(SeriesOf(r, c.type, c.id, Blank))
    <3>1. PICK k \in NamesOf(c.has) : r = RawReading(k, RawFamily(k)) /\ r.family = RawFamily(k)
      BY RawAre
    <3>2. PICK l \in NamesOf(c.has) : q = RawReading(l, RawFamily(l)) /\ q.family = RawFamily(l)
      BY RawAre
    <3>3. k # l /\ RawFamily(k) = RawFamily(l)
      BY <2>2, <3>1, <3>2 DEF SameLabels
    <3>4. c \in UnknownParts
      BY <1>2 DEF UnknownParts
    <3> QED BY <3>1, <3>3, <3>4, SeriesIs DEF KnownTwice, SanitisedAlike
  <2>3. Walked(c, Label(RawReadings(names), c.type, c.id, Blank))
    BY <1>1, <1>3
  <2>4. ASSUME Cardinality(NamesOf(c.has)) <= MaxRawLeaves, NEW n \in NamesOf(c.has)
        PROVE  \E r \in RawReadings(names) : r.family = RawFamily(n)
    <3>1. IsFiniteSet(c.has) /\ \A p \in c.has : Len(p) \in 1 .. 2 /\ \A i \in 1 .. Len(p) : Key(p[i])
      BY <1>2 DEF WellFormed
    <3>2. NamesOf(c.has) \in SUBSET Seq(Nat) /\ IsFiniteSet(NamesOf(c.has))
      BY <3>1, NamesAre, NamesFinite
    <3>3. names = NamesOf(c.has)
      BY <2>4, <3>1, FoundAll
    <3>4. n \in FirstFew(names)
      BY <2>4, <3>2, <3>3, FewAll
    <3>5. RawReading(n, RawFamily(n)) \in RawReadings(names)
      BY <3>4 DEF RawReadings
    <3>6. RawReading(n, RawFamily(n)).family = RawFamily(n)
      BY DEF RawReading, Reading
    <3> QED BY <3>5, <3>6
  <2>5. \/ ~(Cardinality(NamesOf(c.has)) <= MaxRawLeaves)
        \/ \A n \in NamesOf(c.has) : \E r \in RawReadings(names) : r.family = RawFamily(n)
    BY <2>4
  <2> QED BY <1>2, <2>1, <2>2, <2>3, <2>5, WalkOtherKeeps
<1>4. CASE ~GenericFallback
  <2>1. Label({}, c.type, c.id, Blank) = {}
    BY DEF Label
  <2>2. Walked(c, Label({}, c.type, c.id, Blank))
    BY <1>1, <1>4, <2>1
  <2> QED BY <1>2, <1>4, <2>2, WalkOtherKeeps
<1> QED BY <1>3, <1>4

\* The document stays what it is.
LEMMA DocumentStays ==
    ASSUME [Next]_vars
    PROVE  doc' = doc
BY DEF Next, WalkComponent, SkipComponent, WalkUnknown, DecodeGen1, RenderEntity, Walked, AppRenames, vars

\* A Gen2 document starts with the header only.
LEMMA Gen2Start ==
    ASSUME Init
    PROVE  Gen2Inv
<1>1. out.errs = {} /\ out.twice = {} /\ left \subseteq doc.parts /\ \A s \in out.series : s.component = Blank
  BY HeaderOnly
<1>2. doc.kind = "gen2" => left = doc.parts
  BY DEF Init
<1>3. doc.kind = "gen2" => NothingDropped
  BY <1>1, <1>2 DEF NothingDropped, UnknownKept, UnknownParts
<1> QED BY <1>1, <1>2, <1>3 DEF Gen2Inv

\* Every step keeps the invariant of the second generation.
LEMMA Gen2Step ==
    ASSUME Gen2Inv, doc.kind = "gen2" => WellFormed(doc), [Next]_vars
    PROVE  Gen2Inv'
<1>1. CASE doc.kind # "gen2"
  BY <1>1, DocumentStays DEF Gen2Inv
<1>2. CASE doc.kind = "gen2"
  <2>1. ASSUME NEW c \in left, WalkComponent(c)
        PROVE  Gen2Inv'
    BY <1>2, <2>1, WalkComponentKeeps
  <2>2. ASSUME NEW c \in left, SkipComponent(c)
        PROVE  Gen2Inv'
    BY <1>2, <2>2, SkipComponentKeeps
  <2>3. ASSUME NEW c \in left, WalkUnknown(c)
        PROVE  Gen2Inv'
    BY <1>2, <2>3, WalkUnknownKeeps
  <2>4. CASE AppRenames
    BY <2>4, DroppedStays DEF AppRenames, Gen2Inv
  <2>5. CASE UNCHANGED vars
    <3>1. \A t : ComponentName(t)' = ComponentName(t)
      BY <2>5 DEF vars, ComponentName, NameIn
    <3> QED BY <2>5, <3>1, DroppedStays DEF vars, Gen2Inv
  <2> QED BY <1>2, <2>1, <2>2, <2>3, <2>4, <2>5 DEF Next, RenderEntity
<1> QED BY <1>1, <1>2

-----------------------------------------------------------------------------
(* The first generation, and what it shares with the second *)

\* No Gen1 component is the blank one.
LEMMA ComponentNotBlank == Blank \notin Gen1Components
<1>1. Gen1Components \subseteq Types \cup {"ext_temperature", "ext_humidity"}
  BY ExtractorIs, DeviceIs DEF Gen1Components, Outputs, Types
<1> QED BY <1>1, BlankIs

\* The header alone matches Gen2, for it is no component's.
LEMMA BlankMatches ==
    ASSUME \A s \in out.series : s.component = Blank
    PROVE  Gen1MatchesGen2
<1>1. Blank \notin {"switch", "light"}
  BY ComponentNotBlank DEF Gen1Components, Outputs
<1> QED BY <1>1 DEF Gen1MatchesGen2

\* The labels of what a Gen1 document is decoded to.
LEMMA EmittedIs ==
    \A r, c, i, n : LET e == Emitted(r, c, i, n)
                   IN  /\ e.at = r.at /\ e.series.component = c /\ e.series.id = i /\ e.series.name = n
                       /\ e.series.family = r.family /\ e.series.phase = r.phase /\ e.series.extra = r.extra
BY DEF Emitted, SeriesOf

\* What a Gen1 document is decoded to is apart: meters and outputs share no family.
LEMMA DecodedApart ==
    ASSUME NEW d, NEW e, NEW f, Shaped(d, e), Shaped(d, f), f.series = e.series
    PROVE  f = e
<1>1. PICK c, r, id : c \in Gen1Components /\ r \in Gen1Of(c) /\ e = Emitted(r, c, id, Gen1Name(c))
  BY DEF Shaped
<1>2. PICK b, q, no : b \in Gen1Components /\ q \in Gen1Of(b) /\ f = Emitted(q, b, no, Gen1Name(b))
  BY DEF Shaped
<1>3. b = c /\ no = id /\ SameLabels(q, r)
  BY <1>1, <1>2, EmittedIs DEF SameLabels
<1>4. q = r
  BY <1>1, <1>2, <1>3, Gen1Apart DEF Apart
<1> QED BY <1>1, <1>2, <1>3, <1>4

\* All of it has its Gen2 counterpart.
LEMMA DecodedMatches ==
    ASSUME NEW d, Sensible(d), NEW e \in Decoded(d)
    PROVE  /\ \/ e.series.component \in {"ext_temperature", "ext_humidity"}
              \/ e.series.family \in {"component_error", "input_counts"}
              \/ <<e.series.component, e.series.family, e.series.phase, e.series.extra>> \in Gen2Labels
           /\ e.series.component \in {"switch", "light"} /\ e.series.id < OutputsListed(d) =>
                 \E f \in Decoded(d) : /\ f.series.component = e.series.component
                                       /\ f.series.id = e.series.id /\ f.series.name = e.series.name
                                       /\ f.series.family \in {"switch_on", "light_on"}
<1>1. PICK c, r, id :
         /\ c \in Gen1Components /\ r \in Gen1Of(c)
         /\ e = Emitted(r, c, id, Gen1Name(c))
         /\ c \in Outputs => id \in Nat /\ (id < Count(d, c) \/ id >= OutputsListed(d))
  BY DecodedIs DEF Shaped
<1>2. /\ e.series.component = c /\ e.series.id = id /\ e.series.name = Gen1Name(c)
      /\ e.series.family = r.family /\ e.series.phase = r.phase /\ e.series.extra = r.extra
  BY <1>1, EmittedIs
<1>3. c \in Outputs /\ id < OutputsListed(d) => id \in 0 .. Count(d, c) - 1
  BY <1>1 DEF Sensible, Count, OutputsListed, Outputs
<1> QED BY <1>1, <1>2, <1>3, Gen1HasGen2, OutputHasState DEF Outputs

\* Decoding, which is one step, gives a document its invariant (decodeGen1Status).
LEMMA DecodeGen1Keeps ==
    ASSUME Gen1Inv, doc.kind = "gen1", WellFormed(doc), NEW d \in left, DecodeGen1(d)
    PROVE  Gen1Inv'
<1>1. doc' = doc /\ left' = left \ {d} /\ out' = Emit(out, Decoded(d))
  BY DEF DecodeGen1, Walked
<1>2. left \subseteq doc.parts /\ NothingDropped /\ \A s \in out.series : s.component = Blank
  BY DEF Gen1Inv
<1>3. doc.parts = {d} /\ Sensible(d)
  BY <1>2 DEF WellFormed, Sensible
<1>4. left' = {}
  BY <1>1, <1>2, <1>3
<1>5. \A e \in Decoded(d) : Shaped(d, e)
  BY <1>3, DecodedIs
<1>6. \A e \in Decoded(d) : Fits(e) /\ e.series.component # Blank
  <2> SUFFICES ASSUME NEW e \in Decoded(d)
               PROVE  Fits(e) /\ e.series.component # Blank
    OBVIOUS
  <2>1. PICK c, r, id : c \in Gen1Components /\ r \in Gen1Of(c) /\ e = Emitted(r, c, id, Gen1Name(c))
    BY <1>5 DEF Shaped
  <2>2. Fitting(r)
    BY <2>1, Gen1Fits DEF AllFit
  <2>3. e.series.component = c /\ e.series.family = r.family /\ e.series.extra = r.extra
    BY <2>1, EmittedIs
  <2> QED BY <2>1, <2>2, <2>3, ComponentNotBlank DEF Fits, Fitting
<1>7. /\ out'.errs = out.errs
      /\ out'.series = out.series \cup {e.series : e \in Decoded(d)}
      /\ \A s \in out'.twice :
            \/ s \in out.twice
            \/ \E e \in Decoded(d) : s = e.series /\ (s \in out.series \/ \E f \in Decoded(d) : f # e /\ f.series = s)
  BY <1>1, <1>6, EmitIs
<1>8. NothingDropped'
  <2>1. \A e \in Decoded(d) : e.series \notin out.series
    BY <1>2, <1>6
  <2>2. \A e, f \in Decoded(d) : f.series = e.series => f = e
    BY <1>5, DecodedApart
  <2>3. \A s \in out'.twice : s \in out.twice
    BY <1>7, <2>1, <2>2
  <2>4. \A s \in out'.twice : KnownTwice(s)'
    BY <1>1, <1>2, <2>3, KnownStays DEF NothingDropped
  <2>5. out'.errs = {}
    BY <1>2, <1>7 DEF NothingDropped
  <2>6. UnknownKept'
    BY <1>1, OnlyOfGen2
  <2> QED BY <2>4, <2>5, <2>6 DEF NothingDropped
<1>9. \A s \in out'.series :
         /\ \/ s.component \in {Blank, "ext_temperature", "ext_humidity"}
            \/ s.family \in {"component_error", "input_counts"}
            \/ <<s.component, s.family, s.phase, s.extra>> \in Gen2Labels
         /\ s.component \in {"switch", "light"} /\ s.id < OutputsListed(d) =>
               \E t \in out'.series : /\ t.component = s.component /\ t.id = s.id /\ t.name = s.name
                                      /\ t.family \in {"switch_on", "light_on"}
  <2> SUFFICES ASSUME NEW s \in out'.series
               PROVE  /\ \/ s.component \in {Blank, "ext_temperature", "ext_humidity"}
                         \/ s.family \in {"component_error", "input_counts"}
                         \/ <<s.component, s.family, s.phase, s.extra>> \in Gen2Labels
                      /\ s.component \in {"switch", "light"} /\ s.id < OutputsListed(d) =>
                            \E t \in out'.series : /\ t.component = s.component /\ t.id = s.id /\ t.name = s.name
                                                   /\ t.family \in {"switch_on", "light_on"}
    OBVIOUS
  <2>1. CASE s \in out.series
    <3>1. Blank \notin {"switch", "light"}
      BY ComponentNotBlank DEF Gen1Components, Outputs
    <3> QED BY <1>2, <2>1, <3>1
  <2>2. CASE s \notin out.series
    <3>1. PICK e \in Decoded(d) : s = e.series
      BY <1>7, <2>2
    <3>2. \A f \in Decoded(d) : f.series \in out'.series
      BY <1>7
    <3> QED BY <1>3, <3>1, <3>2, DecodedMatches
  <2> QED BY <2>1, <2>2
<1>10. Gen1MatchesGen2'
  BY <1>1, <1>3, <1>9 DEF Gen1MatchesGen2, Gen2Labels, MeterOf, Meter, OutputsListed
<1> QED BY <1>1, <1>2, <1>4, <1>8, <1>10 DEF Gen1Inv

\* A Gen1 document starts with the header only.
LEMMA Gen1Start ==
    ASSUME Init
    PROVE  Gen1Inv
<1>1. out.errs = {} /\ out.twice = {} /\ left \subseteq doc.parts /\ \A s \in out.series : s.component = Blank
  BY HeaderOnly
<1>2. doc.kind = "gen1" => NothingDropped
  BY <1>1, OnlyOfGen2 DEF NothingDropped
<1> QED BY <1>1, <1>2, BlankMatches DEF Gen1Inv

\* Every step keeps the invariant of the first generation.
LEMMA Gen1Step ==
    ASSUME Gen1Inv, doc.kind = "gen1" => WellFormed(doc), [Next]_vars
    PROVE  Gen1Inv'
<1>1. CASE doc.kind # "gen1"
  BY <1>1, DocumentStays DEF Gen1Inv
<1>2. CASE doc.kind = "gen1"
  <2>1. ASSUME NEW d \in left, DecodeGen1(d)
        PROVE  Gen1Inv'
    BY <1>2, <2>1, DecodeGen1Keeps
  <2>2. CASE AppRenames \/ UNCHANGED vars
    <3>1. doc' = doc /\ left' = left /\ out' = out
      BY <2>2 DEF AppRenames, vars
    <3>2. Gen1MatchesGen2' = Gen1MatchesGen2
      BY <3>1 DEF Gen1MatchesGen2, Gen2Labels, OutputsListed
    <3> QED BY <3>1, <3>2, DroppedStays DEF Gen1Inv
  <2> QED BY <1>2, <2>1, <2>2 DEF Next, RenderEntity
<1> QED BY <1>1, <1>2

-----------------------------------------------------------------------------
(* ESPHome *)

\* An entity that is rendered adds its own series, and only those (emitEntity).
LEMMA RenderEntityKeeps ==
    ASSUME PercentAsRatio = TRUE, EsphomeInv, doc.kind = "esphome", WellFormed(doc), NEW n \in left, RenderEntity(n)
    PROVE  EsphomeInv'
<1>1. /\ doc' = doc /\ left' = left \ {n} /\ out' = Emit(out, Label(Rendered(n), n.domain, n.id, n.domain))
      /\ Walked(n, Label(Rendered(n), n.domain, n.id, n.domain))
  BY DEF RenderEntity, Walked
<1>2. /\ left \subseteq doc.parts /\ NothingDropped
      /\ \A s \in out.series : \/ s.component = Blank
                               \/ \E m \in doc.parts \ left : \E r \in Rendered(m) : s = EntitySeries(m, r)
  BY DEF EsphomeInv
<1>3. \A r \in Rendered(n) : Fitting(r)
  BY RenderedIs DEF AllFit
<1>4. /\ out'.errs = out.errs
      /\ \A s : s \in out'.series <=> s \in out.series \/ \E r \in Rendered(n) : s = EntitySeries(n, r)
      /\ \A s \in out'.twice :
            \/ s \in out.twice
            \/ \E r \in Rendered(n) : /\ s = EntitySeries(n, r)
                                      /\ s \in out.series \/ \E q \in Rendered(n) : q # r /\ SameLabels(q, r)
  BY <1>1, <1>3, EmitLabelIs DEF EntitySeries
<1>5. \A r \in Rendered(n) : EntitySeries(n, r) \notin out.series
  <2> SUFFICES ASSUME NEW r \in Rendered(n), EntitySeries(n, r) \in out.series
               PROVE  FALSE
    OBVIOUS
  <2>1. EntitySeries(n, r).component = n.domain /\ EntitySeries(n, r).id = n.id
    BY SeriesIs DEF EntitySeries
  <2>2. n.domain # Blank /\ n \in doc.parts
    BY <1>2, BlankIs DEF WellFormed
  <2>3. PICK m, q : m \in doc.parts \ left /\ q \in Rendered(m) /\ EntitySeries(n, r) = EntitySeries(m, q)
    BY <1>2, <2>1, <2>2
  <2>4. m.domain = n.domain /\ m.id = n.id
    BY <2>1, <2>3, SeriesIs DEF EntitySeries
  <2> QED BY <2>2, <2>3, <2>4 DEF WellFormed
<1>6. \A s \in out'.twice : s \in out.twice \/ KnownTwice(s)
  <2> SUFFICES ASSUME NEW s \in out'.twice, s \notin out.twice
               PROVE  KnownTwice(s)
    OBVIOUS
  <2>1. PICK r \in Rendered(n) : s = EntitySeries(n, r) /\ \E q \in Rendered(n) : q # r /\ SameLabels(q, r)
    BY <1>4, <1>5
  <2>2. Repeated(n, r)
    BY <2>1, RenderedIs DEF Repeated, SameLabels
  <2>3. s.component = n.domain /\ s.id = n.id /\ s.extra = r.extra
    BY <2>1 DEF EntitySeries, SeriesOf
  <2>4. n \in doc.parts
    BY <1>2
  <2> QED BY <2>2, <2>3, <2>4 DEF Repeated, KnownTwice, ListedTwice
<1>7. NothingDropped'
  <2>1. out'.errs = {} /\ \A s \in out'.twice : KnownTwice(s)
    BY <1>2, <1>4, <1>6 DEF NothingDropped
  <2> QED BY <1>1, <2>1, KnownStays, OnlyOfGen2 DEF NothingDropped
<1>8. \A s \in out'.series : \/ s.component = Blank
                            \/ \E m \in doc.parts \ left' : \E r \in Rendered(m) : s = EntitySeries(m, r)
  <2> SUFFICES ASSUME NEW s \in out'.series
               PROVE  \/ s.component = Blank
                      \/ \E m \in doc.parts \ left' : \E r \in Rendered(m) : s = EntitySeries(m, r)
    OBVIOUS
  <2>1. CASE s \in out.series
    BY <1>1, <1>2, <2>1
  <2>2. CASE \E r \in Rendered(n) : s = EntitySeries(n, r)
    BY <1>1, <1>2, <2>2
  <2> QED BY <1>4, <2>1, <2>2
<1>9. doc.connected => \A m \in doc.parts \ left' : \A r \in Rendered(m) : EntitySeries(m, r) \in out'.series
  BY <1>1, <1>4 DEF EsphomeInv
<1> QED BY <1>1, <1>2, <1>7, <1>8, <1>9 DEF EsphomeInv, EntitySeries, SeriesOf, Rendered

\* A snapshot starts with the header only.
LEMMA EsphomeStart ==
    ASSUME Init
    PROVE  EsphomeInv
<1>1. out.errs = {} /\ out.twice = {} /\ left \subseteq doc.parts /\ \A s \in out.series : s.component = Blank
  BY HeaderOnly
<1>2. doc.kind = "esphome" => NothingDropped
  BY <1>1, OnlyOfGen2 DEF NothingDropped
<1>3. doc.kind = "esphome" /\ doc.connected => left = doc.parts
  BY DEF Init
<1> QED BY <1>1, <1>2, <1>3 DEF EsphomeInv

\* Every step keeps the invariant of a snapshot.
LEMMA EsphomeStep ==
    ASSUME PercentAsRatio = TRUE, EsphomeInv, doc.kind = "esphome" => WellFormed(doc), [Next]_vars
    PROVE  EsphomeInv'
<1>1. CASE doc.kind # "esphome"
  BY <1>1, DocumentStays DEF EsphomeInv
<1>2. CASE doc.kind = "esphome"
  <2>1. ASSUME NEW n \in left, RenderEntity(n)
        PROVE  EsphomeInv'
    BY <1>2, <2>1, RenderEntityKeeps
  <2>2. CASE AppRenames \/ UNCHANGED vars
    <3>1. doc' = doc /\ left' = left /\ out' = out
      BY <2>2 DEF AppRenames, vars
    <3> QED BY <3>1, DroppedStays DEF EsphomeInv
  <2> QED BY <1>2, <2>1, <2>2 DEF Next
<1> QED BY <1>1, <1>2

\* Of an entity: what is told of it, and whether a value is.
LEMMA RenderedTells ==
    ASSUME NEW n, PercentAsRatio = TRUE, n.domain \in Domains, n.options \in Seq(STRING),
           n.payload \in {"nan", "inf"} => n.domain \in Floats
    PROVE  LET says  == \E r \in Rendered(n) : r.family = "entity_unavailable"
               shows == \E r \in Rendered(n) : r.family \notin About
               gone  == n.payload \in {"none", "missing", "nan", "inf"} \/ Stale(n)
               leaks == n.domain \in {"cover", "climate"} \/ (n.domain = "number" /\ n.payload = "inf")
           IN  /\ ~shows \/ ~says
               /\ ~leaks => (gone <=> says)
               /\ shows \/ gone \/ Silent(n)
<1> DEFINE info == Reading("info", "entity_info", Blank, <<"unit", "state_class", "category", "icon">>)
<1>1. info.family = "entity_info"
  BY DEF Reading
<1>2. \A why : Unavailable(why) # {} /\ \A r \in Unavailable(why) : r.family = "entity_unavailable"
  BY DEF Unavailable, RX, Reading
<1>3. \A r \in Updated : r.family = "entity_updated_timestamp_seconds"
  BY DEF Updated, R, Reading
<1>4. \A r \in ValuesOf(n) : r.family \notin About
  BY ValuesAre
<1>5. /\ n.payload = "none" => Rendered(n) = {info} \cup Unavailable("never_reported")
      /\ n.payload # "none" /\ Missing(n) => Rendered(n) = {info} \cup (Updated \cup Unavailable("missing_state"))
      /\ n.payload # "none" /\ ~Missing(n) /\ Stale(n) =>
            Rendered(n) = {info} \cup (Updated \cup Unavailable("stale"))
      /\ n.payload # "none" /\ ~Missing(n) /\ ~Stale(n) => Rendered(n) = {info} \cup (Updated \cup ValuesOf(n))
  BY DEF Rendered
<1>6. ~Silent(n) => ValuesOf(n) # {}
  <2>1. n.options # <<>> => Choices("select_option", n.options) # {}
    <3> SUFFICES ASSUME n.options # <<>>
                 PROVE  Choices("select_option", n.options) # {}
      OBVIOUS
    <3>1. 1 \in DOMAIN n.options
      OBVIOUS
    <3> QED BY <3>1 DEF Choices
  <2> QED BY <2>1 DEF ValuesOf, Domains, Floats, Silent
<1> HIDE DEF info
<1>7. CASE n.payload = "none" \/ Missing(n) \/ Stale(n)
  <2>1. \E why : \/ Rendered(n) = {info} \cup Unavailable(why)
                 \/ Rendered(n) = {info} \cup (Updated \cup Unavailable(why))
    BY <1>5, <1>7
  <2>2. \A r \in Rendered(n) : r.family \in About
    BY <1>1, <1>2, <1>3, <2>1 DEF About
  <2>3. \E r \in Rendered(n) : r.family = "entity_unavailable"
    BY <1>2, <2>1
  <2>4. n.payload \in {"none", "missing", "nan", "inf"} \/ Stale(n)
    BY <1>7 DEF Missing
  <2> QED BY <2>2, <2>3, <2>4
<1>8. CASE ~(n.payload = "none" \/ Missing(n) \/ Stale(n))
  <2>1. Rendered(n) = {info} \cup (Updated \cup ValuesOf(n))
    BY <1>5, <1>8
  <2>2. \A r \in Rendered(n) : r.family # "entity_unavailable"
    BY <1>1, <1>3, <1>4, <2>1 DEF About
  <2>3. ~Silent(n) => \E r \in Rendered(n) : r.family \notin About
    BY <1>4, <1>6, <2>1
  <2>4. ~(n.domain \in {"cover", "climate"} \/ (n.domain = "number" /\ n.payload = "inf"))
           => n.payload \notin {"none", "missing", "nan", "inf"}
    BY <1>8 DEF Missing, Floats
  <2> QED BY <1>8, <2>2, <2>3, <2>4
<1> QED BY <1>7, <1>8

\* What a snapshot shows of an entity says it is missing exactly when no value is shown.
LEMMA EsphomeSaysMissing ==
    ASSUME PercentAsRatio = TRUE, EsphomeInv, WellFormed(doc)
    PROVE  MissingIsSaid
<1> SUFFICES ASSUME NEW n \in doc.parts \ left, doc.kind = "esphome", doc.connected
             PROVE  LET of     == {s \in out.series : s.component = n.domain /\ s.id = n.id}
                        values == {s \in of : s.family \notin About}
                        gone   == n.payload \in {"none", "missing", "nan", "inf"} \/ Stale(n)
                        leaks  == n.domain \in {"cover", "climate"} \/ (n.domain = "number" /\ n.payload = "inf")
                    IN  /\ values = {} \/ ~\E s \in of : s.family = "entity_unavailable"
                        /\ ~leaks => (gone <=> \E s \in of : s.family = "entity_unavailable")
                        /\ values # {} \/ gone \/ Silent(n)
  BY DEF MissingIsSaid, About
<1> DEFINE of == {s \in out.series : s.component = n.domain /\ s.id = n.id}
<1>1. n.domain \in Domains /\ n.options \in Seq(STRING) /\ n.domain # Blank /\ (n.payload \in {"nan", "inf"} => n.domain \in Floats)
  BY BlankIs DEF WellFormed
<1>2. \A r \in Rendered(n) : EntitySeries(n, r) \in of
  BY SeriesIs DEF EsphomeInv, EntitySeries
<1>3. \A s \in of : \E r \in Rendered(n) : s = EntitySeries(n, r)
  <2> SUFFICES ASSUME NEW s \in of
               PROVE  \E r \in Rendered(n) : s = EntitySeries(n, r)
    OBVIOUS
  <2>1. PICK m, r : m \in doc.parts \ left /\ r \in Rendered(m) /\ s = EntitySeries(m, r)
    BY <1>1 DEF EsphomeInv
  <2>2. m.domain = n.domain /\ m.id = n.id
    BY <2>1, SeriesIs DEF EntitySeries
  <2>3. m = n
    BY <2>1, <2>2 DEF WellFormed
  <2> QED BY <2>1, <2>3
<1>4. \A r : EntitySeries(n, r).family = r.family
  BY SeriesIs DEF EntitySeries
<1> HIDE DEF of
<1>5. (\E s \in of : s.family = "entity_unavailable") <=> \E r \in Rendered(n) : r.family = "entity_unavailable"
  BY <1>2, <1>3, <1>4
<1>6. {s \in of : s.family \notin About} # {} <=> \E r \in Rendered(n) : r.family \notin About
  BY <1>2, <1>3, <1>4
<1>7. LET values == {s \in of : s.family \notin About}
          gone   == n.payload \in {"none", "missing", "nan", "inf"} \/ Stale(n)
          leaks  == n.domain \in {"cover", "climate"} \/ (n.domain = "number" /\ n.payload = "inf")
      IN  /\ values = {} \/ ~\E s \in of : s.family = "entity_unavailable"
          /\ ~leaks => (gone <=> \E s \in of : s.family = "entity_unavailable")
          /\ values # {} \/ gone \/ Silent(n)
  BY <1>1, <1>5, <1>6, RenderedTells
<1> QED BY <1>7 DEF of

\* The energy of a meter has the power it joins, whichever of the two was walked first.
LEMMA EnergyJoins ==
    ASSUME Gen2Inv
    PROVE  EnergyJoinsPower
<1> SUFFICES ASSUME ~renamed, doc.kind = "gen2", NEW d \in doc.parts \ left, NEW m \in doc.parts \ left,
                    d.type \in DOMAIN Meter, m.type = Meter[d.type], m.id = d.id,
                    NEW e \in ReadingsOf(d.type), NEW p \in ReadingsOf(m.type), e.at \in d.has, p.at \in m.has,
                    p.family = "power_watts", p.phase = e.phase
             PROVE  \E s, t \in out.series :
                        /\ s.family = "energy_joules" /\ t.family = "power_watts"
                        /\ s.extra = e.extra /\ Place(s) = Place(t)
                        /\ s.phase = e.phase /\ s.id = d.id
  BY DEF EnergyJoinsPower
<1> DEFINE s == SeriesOf(e, MeterOf(d.type), d.id, ComponentName(d.type))
           t == SeriesOf(p, MeterOf(m.type), m.id, ComponentName(m.type))
<1>1. e \in Usable(ReadingsOf(d.type), d.has) /\ p \in Usable(ReadingsOf(m.type), m.has)
  BY DEF Usable, Readable
<1>2. d.type \in Types /\ m.type \in Types /\ MeterOf(m.type) = m.type /\ MeterOf(d.type) = m.type
  BY MeterIs
<1>3. s \in out.series /\ t \in out.series
  BY <1>1, <1>2 DEF Gen2Inv
<1>4. ComponentName(m.type) = ComponentName(d.type)
  BY <1>2 DEF ComponentName
<1>5. e.family = "energy_joules"
  BY EnergyIsApart
<1>6. /\ s = [family |-> e.family, component |-> m.type, id |-> d.id, name |-> ComponentName(d.type),
             phase |-> e.phase, extra |-> e.extra]
      /\ t = [family |-> p.family, component |-> m.type, id |-> d.id, name |-> ComponentName(d.type),
             phase |-> e.phase, extra |-> p.extra]
  BY <1>2, <1>4 DEF SeriesOf
<1> HIDE DEF s, t
<1>7. /\ s.family = "energy_joules" /\ t.family = "power_watts"
      /\ s.extra = e.extra /\ s.phase = e.phase /\ s.id = d.id
  BY <1>5, <1>6
<1>8. Place(s) = Place(t)
  BY <1>6 DEF Place
<1> QED BY <1>3, <1>7, <1>8

-----------------------------------------------------------------------------
(* The theorems.  What is sent is well formed: Sent is what they ask of the documents. *)

Sent == \A d \in Documents : WellFormed(d)

\* Shelly documents, of both generations: what is in the emitter halfway through a walk is known to
\* the series (decodeGen2Status, genericWalk, decodeGen1Status), whatever leaves an unknown component
\* has, whatever a Gen1 device counts and whatever configuration the exporter runs with.
THEOREM ShellyInvariant ==
    ASSUME Sent
    PROVE  Spec => [](doc \in Documents /\ Gen2Inv /\ Gen1Inv)
<1> DEFINE Inv == doc \in Documents /\ Gen2Inv /\ Gen1Inv
<1>1. Init => Inv
  BY Gen2Start, Gen1Start DEF Init
<1>2. Inv /\ [Next]_vars => Inv'
  BY DocumentStays, Gen2Step, Gen1Step DEF Sent
<1> QED BY <1>1, <1>2, PTL DEF Spec

\* The energy that emdata and em1data report joins the power that em and em1 report, name included, for
\* any components, walked in any order (componentName looks the meter up, not the energy component).
THEOREM EnergyAlwaysJoinsPower ==
    ASSUME Sent
    PROVE  Spec => []EnergyJoinsPower
<1>1. doc \in Documents /\ Gen2Inv /\ Gen1Inv => EnergyJoinsPower
  BY EnergyJoins
<1> QED BY <1>1, ShellyInvariant, PTL

\* A Gen1 device is shown with Gen2's labels, and no output that it lists without a state; meters it
\* has beyond those are shown without one (decodeGen1Status).
THEOREM Gen1AlwaysMatchesGen2 ==
    ASSUME Sent
    PROVE  Spec => []Gen1MatchesGen2
<1>1. doc \in Documents /\ Gen2Inv /\ Gen1Inv => Gen1MatchesGen2
  BY DEF Gen1Inv, Gen1MatchesGen2
<1> QED BY <1>1, ShellyInvariant, PTL

\* A snapshot of a node: exactly the series its entities have by now, options that are listed twice
\* or not at all included, where a percentage is exported as a ratio, which is the default
\* (percent_as_ratio); with percentages a reading is dropped.
THEOREM EsphomeInvariant ==
    ASSUME Sent, PercentAsRatio = TRUE
    PROVE  Spec => [](doc \in Documents /\ EsphomeInv)
<1> DEFINE Inv == doc \in Documents /\ EsphomeInv
<1>1. Init => Inv
  BY EsphomeStart DEF Init
<1>2. Inv /\ [Next]_vars => Inv'
  BY DocumentStays, EsphomeStep DEF Sent
<1> QED BY <1>1, <1>2, PTL DEF Spec

\* An entity without a reading is said to be unavailable, one with a reading shows it, unless it is a
\* button, a text that is not configured or a selection without options (emitEntity).
THEOREM MissingIsAlwaysSaid ==
    ASSUME Sent, PercentAsRatio = TRUE
    PROVE  Spec => []MissingIsSaid
<1>1. doc \in Documents /\ EsphomeInv => MissingIsSaid
  BY EsphomeSaysMissing DEF Sent
<1> QED BY <1>1, EsphomeInvariant, PTL

\* No reading of any document is dropped by the emitter, and none shares a series with another, but what
\* is read twice, leaves whose names are sanitised alike and options listed twice; an unknown component
\* within the limit keeps every name (Emitter.emit, Registry.Register, genericWalk, the gatherer).
THEOREM NothingIsDropped ==
    ASSUME Sent, PercentAsRatio = TRUE
    PROVE  Spec => []NothingDropped
<1>1. (doc \in Documents /\ Gen2Inv /\ Gen1Inv) /\ (doc \in Documents /\ EsphomeInv) => NothingDropped
  BY DEF Sent, WellFormed, Gen1Inv, Gen2Inv, EsphomeInv
<1> QED BY <1>1, ShellyInvariant, EsphomeInvariant, PTL
=============================================================================
