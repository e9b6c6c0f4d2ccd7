------------------------------- MODULE Metrics -------------------------------
(***************************************************************************)
(* Families, units and the emitter, internal/metrics.  A family fixes how  *)
(* many labels its series carry beyond the base ones, and whether it is a  *)
(* counter.  A reading emitted into a family that is not registered, or    *)
(* with another number of labels, is dropped with an error; and of two     *)
(* readings with the same labels in one family the response keeps one.     *)
(*                                                                         *)
(* A unit stands for the family its table entry leads to: scales and the   *)
(* spellings of one unit are left out, and so is device_class as a label.  *)
(***************************************************************************)
EXTENDS Integers, Sequences, FiniteSets

\* unitTable: the families its units lead to; that of energy is the only counter.
UnitFamilies ==
    {"temperature_celsius", "power_watts", "apparent_power_voltamperes", "reactive_power_voltamperes_reactive",
     "energy_joules", "voltage_volts", "current_amperes", "resistance_ohms", "duration_seconds", "bytes",
     "pressure_pascals", "signal_dbm", "distance_meters", "volume_liters", "flow_liters_per_minute",
     "illuminance_lux", "frequency_hertz", "rotation_rpm", "angle_degrees", "speed_meters_per_second",
     "concentration_micrograms_per_cubic_meter", "conductivity_microsiemens_per_centimeter", "acidity_ph",
     "concentration_ppm", "concentration_ppb"}

Units == UnitFamilies \cup {"%", "furlong", ""}

\* percentFamilies: by device class, what a percentage is the ratio of; and the family of the
\* percentage, the name without its _ratio and with _percent, as TrimSuffix leaves it.
Ratio ==
    [humidity |-> "humidity_ratio", battery |-> "battery_ratio", moisture |-> "moisture_ratio",
     illuminance |-> "illuminance_ratio", power_factor |-> "power_factor_ratio",
     volatile_organic_compounds |-> "voc_ratio"]
Percent ==
    [humidity_ratio |-> "humidity_percent", battery_ratio |-> "battery_percent",
     moisture_ratio |-> "moisture_percent", illuminance_ratio |-> "illuminance_percent",
     power_factor_ratio |-> "power_factor_percent", voc_ratio |-> "voc_percent",
     ratio |-> "ratio_percent"]
PercentClasses == DOMAIN Ratio

\* builtinFamilies and registerESPHomeFamilies: the curated families, by their number of extra labels.
Curated ==
    [plain |-> {"power_watts", "apparent_power_voltamperes", "voltage_volts", "current_amperes", "power_factor",
                "frequency_hertz", "temperature_celsius", "humidity_ratio", "battery_ratio", "illuminance_lux",
                "uptime_seconds", "wifi_rssi_dbm", "switch_on", "input_state", "light_on",
                "light_brightness_ratio", "binary_state", "entity_updated_timestamp_seconds",
                "restart_required", "auth_required", "cloud_connected", "mqtt_connected", "wifi_connected",
                "websocket_connected", "ethernet_up", "external_power_present", "smoke_alarm", "smoke_muted",
                "connected_since_timestamp_seconds", "last_message_timestamp_seconds", "api_ping_seconds",
                "entities", "state_updates", "entity_list_generation", "connect_attempts",
                "entities_truncated", "fan_on", "lock_state"},
     one   |-> {"energy_joules", "input_counts", "cover_position_ratio", "text_info", "entity_unavailable",
                "component_error", "update_available", "ram_bytes", "fs_bytes", "connect_failures",
                "climate_mode", "select_option"}]

Percentages == {"ratio", "percent"} \cup UNION {{Ratio[c], Percent[Ratio[c]]} : c \in PercentClasses}

\* Registry: the extra labels of each registered family.
Extra(family) ==
    CASE family = "device_info"        -> 8
      [] family = "entity_info"        -> 4
      [] family = "esphome_build_info" -> 3
      [] family \in Curated.one \cup {"sensor_value"} -> 1
      [] OTHER                         -> 0

Registered == Curated.plain \cup Curated.one \cup UnitFamilies \cup Percentages
              \cup {"device_info", "entity_info", "esphome_build_info", "sensor_value"}

\* ResolveUnit: the family a unit and a device class lead to.
ResolveUnit(unit, class, asRatio) ==
    IF unit = "%"
    THEN LET family == IF class \in PercentClasses THEN Ratio[class] ELSE "ratio"
         IN  IF asRatio THEN family ELSE Percent[family]
    ELSE IF unit \in UnitFamilies THEN unit ELSE "sensor_value"

-----------------------------------------------------------------------------
(* The emitter.  A reading names the field it is read from (at), so that two readings of one *)
(* series stay two; the raw families of a scrape register themselves.                        *)

\* A label left empty.
Blank == ""

Reading(at, family, phase, extra) ==
    [at |-> at, family |-> family, phase |-> phase, extra |-> extra, kind |-> "curated"]
RawReading(at, family) == [Reading(at, family, Blank, <<>>) EXCEPT !.kind = "raw"]

\* Emitter.For and WithComponent: the readings of a component, each with the series it goes to.
Label(readings, component, id, name) ==
    {[at |-> r.at, kind |-> r.kind,
      series |-> [family |-> r.family, component |-> component, id |-> id, name |-> name,
                  phase |-> r.phase, extra |-> r.extra]] : r \in readings}

Nothing == [series |-> {}, twice |-> {}, errs |-> {}]

Fits(e) == e.kind = "raw" \/ (e.series.family \in Registered /\ Len(e.series.extra) = Extra(e.series.family))

\* Emitter.Value and emit, and what the gatherer makes of a series it has seen.
Emit(out, emitted) ==
    LET sound == {e \in emitted : Fits(e)} IN
    [series |-> out.series \cup {e.series : e \in sound},
     twice  |-> out.twice \cup {e.series : e \in {d \in sound : \/ d.series \in out.series
                                                             \/ \E c \in sound \ {d} : c.series = d.series}},
     errs   |-> out.errs \cup {e.series.family : e \in emitted \ sound}]
=============================================================================
