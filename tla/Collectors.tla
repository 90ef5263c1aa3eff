----------------------------- MODULE Collectors -----------------------------
(***************************************************************************)
(* What the collectors make of a snapshot: the category of a device        *)
(* (kasa/device.go) and the series each collector sends for it             *)
(* (collector/*.go).  A series is its name and its label values; values    *)
(* are left out.  Model names and families are given in capitals, which is *)
(* what deviceTypeFor turns them into.                                     *)
(***************************************************************************)
EXTENDS Naturals, Sequences, FiniteSetsExt

Blank == ""     \* a string that was not given

HasPrefix(s, p) == Len(p) <= Len(s) /\ SubSeq(s, 1, Len(p)) = p
HasWord(s, p)   == \E i \in 0 .. Len(s) : HasPrefix(SubSeq(s, i + 1, Len(s)), p)

-----------------------------------------------------------------------------
(* deviceTypeFor.                                                          *)

DeviceTypes ==
    {"plug", "strip", "wallswitch", "dimmer", "bulb", "lightstrip", "hub", "unknown"}

(* The model without region and hardware suffixes.                         *)
Trimmed(model) ==
    LET ends == {i \in 2 .. Len(model) : SubSeq(model, i, i) \in {"(", " "}}
    IN  IF ends = {} THEN model ELSE SubSeq(model, 1, Min(ends) - 1)

Row(type, words) == [type |-> type, words |-> words]

(* A switch: the first of the matching rows decides.                       *)
FirstMatch(rows, matching, default) ==
    IF matching = {} THEN default ELSE rows[Min(matching)].type

Strips      == Row("strip", {"HS300", "HS107", "KP200", "KP303", "KP400", "EP40", "P300",
                             "P304", "P306", "TP25"})
Hubs        == Row("hub", {"KH100", "H100", "H200", "H300"})
LightStrips == Row("lightstrip", {"KL400", "KL420", "KL430", "L900", "L920", "L930"})
Dimmers     == Row("dimmer", {"HS220", "KS220", "KS230", "ES20", "S500D", "S505D"})
Switches    == Row("wallswitch", {"HS200", "HS210", "KS200", "KS205", "KS225", "KS240",
                                  "S500", "S505", "S210", "S220"})
Bulbs       == Row("bulb", {"KL", "LB", "L510", "L520", "L530", "L535", "L610", "L630"})
Plugs       == Row("plug", {"HS1", "KP1", "EP1", "EP2", "P100", "P110", "P115", "P125",
                            "P135", "TP15"})

(* Fault: the largest group comes first.                                   *)
ModelsPlugsFirst == <<Plugs, Strips, Hubs, LightStrips, Dimmers, Switches, Bulbs>>

(* A longer prefix comes before the shorter ones it begins with.           *)
Models == <<Strips, Hubs, LightStrips, Dimmers, Switches, Bulbs, Plugs>>

Families ==
    << Row("hub", {"HUB"}), Row("wallswitch", {"SWITCH"}), Row("bulb", {"BULB", "LIGHT"}),
       Row("plug", {"PLUG"}) >>

deviceTypeFor(model, family) ==
    LET m == Trimmed(model)
        byModel  == {i \in DOMAIN Models : \E p \in Models[i].words : HasPrefix(m, p)}
        byFamily == {i \in DOMAIN Families : \E w \in Families[i].words : HasWord(family, w)}
    IN  FirstMatch(Models, byModel, FirstMatch(Families, byFamily, "unknown"))

-----------------------------------------------------------------------------
(* A reading [host, alias, type, reports, parts]: which of the optional    *)
(* values the device reported, and its sockets or paired sensors.          *)

aliasOf(reading)   == IF reading.alias # Blank THEN reading.alias ELSE reading.host
labelsFor(reading) == <<reading.host, aliasOf(reading)>>

(* emitGauge and emitCounter: what was not reported is not sent.           *)
emit(subsystem, values, reading) ==
    {<<subsystem, v, labelsFor(reading)>> : v \in values \cap reading.reports}

(* One family of series for the whole fleet.                               *)
energyEmit(reading) == emit(Blank, {"power_watts"}, reading)

lightEmit(kind, reading, withColor) ==
    emit(kind, {"on", "brightness"} \cup IF withColor THEN {"hue"} ELSE {}, reading)

(* One set of series for each socket or sensor, by its identifier.         *)
partsEmit(kind, name, reading) ==
    {<<kind, name, labelsFor(reading) \o <<p>> >> : p \in reading.parts}

plugSeries(r)       == emit("plug", {"on"}, r) \cup energyEmit(r)
wallswitchSeries(r) == emit("wallswitch", {"on"}, r) \cup energyEmit(r)
bulbSeries(r)       == lightEmit("bulb", r, TRUE) \cup energyEmit(r)
dimmerSeries(r)     == lightEmit("dimmer", r, FALSE) \cup energyEmit(r)

lightstripSeries(r) ==
    lightEmit("lightstrip", r, TRUE) \cup emit("lightstrip", {"length"}, r) \cup energyEmit(r)

stripSeries(r) ==
    emit("strip", {"on"}, r) \cup {<<"strip", "sockets", labelsFor(r)>>} \cup energyEmit(r)
        \cup partsEmit("strip", "socket_on", r)

hubSeries(r) ==
    {<<"hub", "children", labelsFor(r)>>} \cup partsEmit("hub", "child_info", r)

(* A snapshot gives each device of the fleet a result: {} or its reading,  *)
(* and the name and the category it is known by.                           *)
readings(results) == UNION {results[h].reading : h \in DOMAIN results}
readingsOfType(results, type) == {r \in readings(results) : r.type = type}

deviceSeries(r) ==
    {<<"device", "up", labelsFor(r)>>, <<"device", "info", labelsFor(r) \o <<r.type>> >>}
        \cup emit("device", {"signal_level"}, r)

(* A device that could not be read is reported down, by its last name.     *)
downSeries(results) ==
    {<<"device", "up", <<h, results[h].alias>> >>
        : h \in {i \in DOMAIN results : results[i].reading = {}}}

TheReading(reading) == CHOOSE r \in reading : TRUE

(* The category a device is counted under.                                 *)
countedAs(result) ==
    IF result.reading = {} THEN result.type ELSE TheReading(result.reading).type

countSeries(results) ==
    {<<Blank, "devices", <<countedAs(results[h])>> >> : h \in DOMAIN results}

(* Update of the collector c.                                              *)
Series(c, results) ==
    LET mine == readingsOfType(results, c) IN
    CASE c = "device"     -> (UNION {deviceSeries(r) : r \in readings(results)})
                                 \cup downSeries(results) \cup countSeries(results)
      [] c = "plug"       -> UNION {plugSeries(r) : r \in mine}
      [] c = "wallswitch" -> UNION {wallswitchSeries(r) : r \in mine}
      [] c = "bulb"       -> UNION {bulbSeries(r) : r \in mine}
      [] c = "dimmer"     -> UNION {dimmerSeries(r) : r \in mine}
      [] c = "lightstrip" -> UNION {lightstripSeries(r) : r \in mine}
      [] c = "strip"      -> UNION {stripSeries(r) : r \in mine}
      [] c = "hub"        -> UNION {hubSeries(r) : r \in mine}
=============================================================================
