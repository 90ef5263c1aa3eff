----------------------------- MODULE MCExporter -----------------------------
(* Hardware whose models begin with a shorter prefix of another category,  *)
(* some that only the family tells apart, and a SMART strip that neither   *)
(* does.                                                                   *)
EXTENDS Exporter

Device(model, family, dialect, kind, reports, parts) ==
    [model |-> model, family |-> family, dialect |-> dialect, kind |-> kind,
     reports |-> reports, parts |-> parts]

MCHardware ==
    {Device("HS110(US)", "IOT.SMARTPLUGSWITCH", "iot", "plug", {"on", "power_watts"}, {}),
     Device("HS107(US) 1.0", "IOT.SMARTPLUGSWITCH", "iot", "strip", {"power_watts"}, {"1", "2"}),
     Device("KL430(US)", "IOT.SMARTBULB", "iot", "lightstrip", {"on", "hue", "length"}, {}),
     Device("S505D(US)", "SMART.TAPOSWITCH", "smart", "dimmer", {"on", "brightness"}, {}),
     Device("ZZ300", "SMART.TAPOPLUG", "smart", "strip", {"on", "power_watts"}, {"1", "2"}),
     Device("ZZ999", "SMART.TAPOHUB", "smart", "hub", {}, {"1"})}

Setting(address, concurrency, packets, timeout) ==
    [address |-> address, concurrency |-> concurrency, packets |-> packets, timeout |-> timeout]

MCSettings ==
    {Setting(<<"h1", "", "h1">>, 1, 1, 1), Setting(<<"", "">>, 1, 1, 1),
     Setting(<<"h1">>, 0, 1, 1), Setting(<<"h1">>, 1, 0, 1), Setting(<<"h1">>, 1, 1, 0)}

MCPaths ==
    {"", "metrics", "/a b", "/{x", "/debug/pprof/", "/debug/pprof/cmdline", "/", "/metrics"}
=============================================================================
