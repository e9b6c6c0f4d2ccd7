----------------------------- MODULE MCReadings ------------------------------
(* Documents for the decoders: of each component every pair of its readings and all of them, of *)
(* components every pair; the shapes of Gen1 devices; entities in every state of every domain.  *)
EXTENDS Readings

UpTo(k, S) == {T \in SUBSET S : Cardinality(T) <= k}
Pairs(S)   == {{a, b} : a, b \in S}

\* A single-phase meter of the em1 component sends no energy and no apower.
Fields(type) ==
    {r.at : r \in ReadingsOf(type)}
    \ IF type = "em1" THEN {"aprt_power_again", "apower", "aenergy", "ret_aenergy"} ELSE {"always"}

Part(type, id, has) == [type |-> type, id |-> id, has |-> has]
Full(type, id)      == Part(type, id, Fields(type))

Gen2(parts, named, category) == [kind |-> "gen2", parts |-> parts, named |-> named, category |-> category]

\* The configuration names components; it has none for the energy data.
Configured == Types \ DOMAIN Meter

\* A leaf by itself, or in an object.  The names of three of the first component are one family, a-b,
\* A/b and a_b, which is also the name of b in a; the second has more leaves than the walk wants.
Leaf(k)      == <<k>>
Inside(o, k) == <<o, k>>
Word         == [a |-> 4, A |-> 5, b |-> 6, c |-> 8, d |-> 10]
Two(v, separator, w) == <<v, separator, w>>
Alike == Part("unheard_of", 0, {Leaf(Two(Word.a, Dash, Word.b)), Leaf(Two(Word.A, Dash, Word.b)),
                                Leaf(Two(Word.a, Underscore, Word.b)), Inside(<<Word.a>>, <<Word.b>>)})
Many  == Part("unheard_of", 1, {Inside(<<o>>, <<Word.b>>) : o \in {Word.a, Word.b, Word.c}}
                               \cup {Inside(<<Word.c>>, <<Word.d>>), Leaf(<<Word.d>>), Inside(<<Word.d>>, <<Word.a>>)})
Few   == Part("unheard_of", 2, {Leaf(Two(Word.A, Dash, Word.b)), Inside(<<Word.a>>, <<Word.c>>)})
AllFull == {Full(t, i) : t \in Types, i \in {0}} \cup {Full(t, 1) : t \in {"switch", "em1", "em1data", "em"}}
           \cup {Alike, Many, Few, Part("ble", 0, {})}

Gen2Documents ==
    UNION {{Gen2({Part(t, 0, has)}, Configured, "none") : has \in Pairs(Fields(t)) \cup {Fields(t), {}}} : t \in Types}
    \cup {Gen2(parts, Configured, "relay") : parts \in Pairs(AllFull)}
    \cup {Gen2(parts, {}, "emeter") : parts \in Pairs(AllFull)}
    \cup {Gen2({Full("em1", 0), Full("em1data", 0), Full("em1", 1), Full("em1data", 1)}, {}, "emeter"),
          Gen2({Full("em", 0), Full("emdata", 0), Full("switch", 0), Full("sys", 0)}, Configured, "relay")}

Gen1Fields ==
    {"overpower", "valid", "total", "total_returned", "power", "voltage", "current", "pf", "brightness",
     "temperature", "overtemperature", "tmp", "hum", "lux", "bat.value", "bat.voltage", "ext_temperature",
     "ext_humidity", "rssi", "uptime", "ram_size", "ram_free", "fs_size", "fs_free"}

Gen1Documents ==
    {[kind |-> "gen1", named |-> named, category |-> "none", parts |-> {p}] :
        named \in {{}, {"switch", "light", "em1", "input"}},
        p \in [relays : 0 .. 2, meters : 0 .. 2, emeters : {0, 2}, inputs : {0, 2}, lights : 0 .. 1,
               has : UpTo(1, Gen1Fields) \cup {Gen1Fields, {"tmp", "temperature"}, {"valid", "total"}}]}

Flagged   == {"sensor", "binary_sensor", "text_sensor", "number", "select"}
Payloads(domain) ==
    {"none"} \cup (IF domain = "button" THEN {} ELSE {"ok"})
    \cup (IF domain \in Flagged THEN {"missing"} ELSE {}) \cup (IF domain \in Floats THEN {"nan", "inf"} ELSE {})

\* Choices in a list of none, of two, and of two of which the node lists one twice.
Lists(domain) == IF domain \in {"select", "climate"} THEN {<<>>, <<"one", "two">>, <<"one", "two", "one">>} ELSE {<<>>}

Entity(domain, id, payload, old, unit, class, increasing, options) ==
    [domain |-> domain, id |-> id, payload |-> payload, old |-> old, unit |-> unit, class |-> class,
     increasing |-> increasing, options |-> options]
Simple(domain, id, payload, old, options) == Entity(domain, id, payload, old, "", "", FALSE, options)

Entities ==
    UNION {{Simple(d, 1, p, old, options) : p \in Payloads(d), old \in BOOLEAN, options \in Lists(d)} : d \in Domains}
    \cup {Entity("sensor", 1, "ok", FALSE, u, c, inc, <<>>) :
             u \in Units, c \in PercentClasses \cup {"", "power"}, inc \in BOOLEAN}

EsphomeDocuments ==
    {[kind |-> "esphome", connected |-> on, category |-> "none", named |-> {}, parts |-> parts] :
        on \in BOOLEAN,
        parts \in {{n} : n \in Entities} \cup
                  {{Entity(d, 1, p, FALSE, "%", "humidity", FALSE, <<>>), Simple(e, 2, "ok", FALSE, <<"one", "two">>)} :
                      d \in Floats, p \in {"ok", "nan"}, e \in Domains \ {"button"}}}

MCDocuments == Gen2Documents \cup Gen1Documents \cup EsphomeDocuments

\* What the theorems ask of documents holds of these.
ASSUME DocumentHypotheses == \A d \in MCDocuments : WellFormed(d)
=============================================================================
