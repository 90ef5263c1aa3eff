------------------------------ MODULE Exporter ------------------------------
(***************************************************************************)
(* The process: the command line and run (kasa_exporter.go) decide which   *)
(* collectors are enabled, config.Registry (config/kasa.go) builds the     *)
(* device registry when the first collector asks for it, and each scrape   *)
(* runs the enabled collectors concurrently (collector/*.go).              *)
(*                                                                         *)
(* The registry is what FleetView promises of it: a snapshot is the last   *)
(* round of reads or a new one, which is one step here.  A device's        *)
(* connection is left to Device; what it remembers is not.                 *)
(***************************************************************************)
EXTENDS Collectors, FiniteSets

CONSTANTS
    Names,          \* the registered collectors
    Defaults,       \* the ones that are on by default
    Hosts,          \* addresses of devices
    Aliases,        \* names a device may have, "" among them
    Hardware,       \* devices: [model, family, dialect, kind, reports, parts]
    Settings,       \* --kasa.* flags: [address, concurrency, packets, timeout]
    Paths,          \* --web.telemetry-path
    MaxArgs,        \* bound: the collector toggles on one command line
    MaxRounds       \* bound: the rounds of reads begun in one scrape

(* kind is what the device is, whatever its firmware calls it; reports and *)
(* parts are what it says of itself when it leaves nothing out.            *)
ASSUME ExporterAssumption ==
    /\ "device" \in Names
    /\ Names \subseteq {"device"} \cup (DeviceTypes \ {"unknown"})
    /\ Defaults \subseteq Names
    /\ Blank \in Aliases
    /\ \A w \in Hardware :
           /\ w.kind \in DeviceTypes
           /\ w.dialect \in {"iot", "smart"}
           /\ w.kind \notin {"strip", "hub", "unknown"} => "on" \in w.reports
    /\ \A s \in Settings : \A i \in DOMAIN s.address : s.address[i] \in Hosts \cup {Blank}
    /\ MaxArgs \in Nat
    /\ MaxRounds \in Nat \ {0}

VARIABLES
    pc,             \* how far the process has come
    cmd,            \* history: the command line, until it has been acted on
    collectorState, forcedCollectors, enabledCollectors,
    settings,       \* the parsed --kasa.* flags
    once, registry, \* registryOnce; what it kept
    gor,            \* the goroutine of each enabled collector
    outcome,        \* what Update returned in this scrape
    seen,           \* the snapshot it was given
    rounds,         \* how many rounds of reads this scrape has begun
    hardware,       \* the device at each address the registry has had
    device,         \* the name and category Device remembers, nil for none
    latest          \* the registry's last snapshot, if any

startVars  == <<cmd, collectorState, forcedCollectors, enabledCollectors>>
configVars == <<settings, once, registry>>
scrapeVars == <<gor, outcome, seen, rounds>>
fleetVars  == <<hardware, device, latest>>
vars == <<pc, startVars, configVars, scrapeVars, fleetVars>>

NoCmd == [args |-> <<>>, disableDefaults |-> FALSE, flag |-> "absent", env |-> "unset"]
NoSettings == [address |-> <<>>, concurrency |-> 0, packets |-> 0, timeout |-> 0,
               discovery |-> FALSE]
NoRegistry == [built |-> 0, hosts |-> {}, discovery |-> FALSE]
Nothing == <<>>
NewDevice(alias) == [alias |-> alias, type |-> Blank]

Init ==
    /\ pc = "start"
    /\ cmd = NoCmd
    /\ collectorState = [n \in Names |-> n \in Defaults]
    /\ forcedCollectors = {}
    /\ enabledCollectors = {}
    /\ settings = NoSettings
    /\ once = "unset"
    /\ registry = NoRegistry
    /\ gor = Nothing
    /\ outcome = Nothing
    /\ seen = Nothing
    /\ rounds = 0
    /\ hardware = Nothing
    /\ device = Nothing
    /\ latest = {}

-----------------------------------------------------------------------------
(* main.                                                                   *)

(* Fault: the toggles are not recorded.                                    *)
MarkForcedCollectorsNot(args) == {}

MarkForcedCollectors(args) == {args[i].name : i \in DOMAIN args}

(* Each toggle is written to the collector's state as it is parsed.        *)
Toggled(args) ==
    LET state[i \in 0 .. Len(args)] ==
            IF i = 0 THEN [n \in Names |-> n \in Defaults]
            ELSE [state[i - 1] EXCEPT ![args[i].name] = args[i].on]
    IN  state[Len(args)]

(* The flag before the variable, the variable, unless it is empty, before  *)
(* the default.                                                            *)
Discovery(flag, env) ==
    CASE flag # "absent"           -> flag = "on"
      [] env \in {"unset", "empty"} -> TRUE
      [] OTHER                     -> env = "true"

Args == UNION {[1 .. n -> [name : Names \cup {"unknown"}, on : BOOLEAN]] : n \in 0 .. MaxArgs}
Registered(args) == \A i \in DOMAIN args : args[i].name \in Names

parseFlags ==
    /\ pc = "start"
    /\ \E args \in Args, disableDefaults \in BOOLEAN, s \in Settings,
          flag \in {"absent", "on", "off"}, env \in {"unset", "empty", "true", "false"} :
           /\ Registered(args)
           /\ cmd' = [args |-> args, disableDefaults |-> disableDefaults, flag |-> flag,
                      env |-> env]
           /\ collectorState' = Toggled(args)
           /\ forcedCollectors' = MarkForcedCollectors(args)
           /\ settings' = [address |-> s.address, concurrency |-> s.concurrency,
                           packets |-> s.packets, timeout |-> s.timeout,
                           discovery |-> Discovery(flag, env)]
    /\ pc' = "parsed"
    /\ UNCHANGED <<enabledCollectors, once, registry, scrapeVars, fleetVars>>

(* A flag that kong does not know, or a value it cannot parse.             *)
parseFails ==
    /\ pc = "start"
    /\ \E args \in Args : ~Registered(args)
    /\ pc' = "exited"
    /\ UNCHANGED <<startVars, configVars, scrapeVars, fleetVars>>

(* run, as far as newHandler, which fixes the enabled collectors.          *)
DisableDefaultCollectors ==
    /\ pc = "parsed"
    /\ pc' = "running"
    /\ collectorState' =
           IF cmd.disableDefaults
           THEN [n \in Names |-> collectorState[n] /\ n \in forcedCollectors]
           ELSE collectorState
    /\ UNCHANGED <<cmd, forcedCollectors, enabledCollectors, configVars, scrapeVars, fleetVars>>

newHandler ==
    /\ pc = "running"
    /\ pc' = "handler"
    /\ enabledCollectors' = {n \in Names : collectorState[n]}
    /\ UNCHANGED <<cmd, collectorState, forcedCollectors, configVars, scrapeVars, fleetVars>>

pprofPrefix == "/debug/pprof/"
pprofRoutes ==
    <<pprofPrefix, "/debug/pprof/cmdline", "/debug/pprof/profile", "/debug/pprof/symbol",
      "/debug/pprof/trace">>

(* The routes that are always the same are patterns http.ServeMux takes,   *)
(* the profiler's below its prefix.                                        *)
WellFormed(route) == HasPrefix(route, "/") /\ ~HasWord(route, " ") /\ ~HasWord(route, "{")

ASSUME RoutesAssumption ==
    /\ WellFormed("/")
    /\ \A i \in DOMAIN pprofRoutes :
           WellFormed(pprofRoutes[i]) /\ HasPrefix(pprofRoutes[i], pprofPrefix)

validateMetricsPath(path, pprof) ==
    /\ path # Blank
    /\ HasPrefix(path, "/")
    /\ ~HasWord(path, " ")
    /\ ~HasWord(path, "{") /\ ~HasWord(path, "}")
    /\ ~(pprof /\ HasPrefix(path, pprofPrefix))

(* The metrics, the profiler and the landing page.                         *)
Routes(path, pprof) ==
    <<path>> \o (IF pprof THEN pprofRoutes ELSE <<>>) \o (IF path # "/" THEN <<"/">> ELSE <<>>)

(* http.ServeMux panics on a malformed pattern and on one it has.          *)
MuxPanics(routes) ==
    \/ \E i \in DOMAIN routes : ~WellFormed(routes[i])
    \/ Cardinality({routes[i] : i \in DOMAIN routes}) < Len(routes)

(* The rest of run.  The command line has done its part and is forgotten.  *)
buildMux(path, pprof) ==
    /\ pc = "handler"
    /\ pc' = CASE ~validateMetricsPath(path, pprof) -> "exited"
               [] validateMetricsPath(path, pprof) /\ MuxPanics(Routes(path, pprof)) -> "panicked"
               [] OTHER -> "serving"
    /\ cmd' = NoCmd
    /\ forcedCollectors' = {}
    /\ UNCHANGED <<collectorState, enabledCollectors, configVars, scrapeVars, fleetVars>>

-----------------------------------------------------------------------------
(* A scrape: KasaCollector.Collect and execute.                            *)

Running == {c \in DOMAIN gor : gor[c] # "done"}

(* Fault: every registered collector is run.                               *)
CollectAll ==
    /\ pc = "serving"
    /\ Running = {}
    /\ gor' = [c \in Names |-> "ask"]
    /\ outcome' = [c \in Names |-> "none"]
    /\ seen' = [c \in Names |-> Nothing]
    /\ rounds' = 0
    /\ UNCHANGED <<pc, startVars, configVars, fleetVars>>

Collect ==
    /\ pc = "serving"
    /\ Running = {}
    /\ gor' = [c \in enabledCollectors |-> "ask"]
    /\ outcome' = [c \in enabledCollectors |-> "none"]
    /\ seen' = [c \in enabledCollectors |-> Nothing]
    /\ rounds' = 0
    /\ UNCHANGED <<pc, startVars, configVars, fleetVars>>

(* Fault: the registry is built by whoever does not find one.              *)
OnceFirstUnguarded(c) ==
    /\ c \in DOMAIN gor
    /\ gor[c] = "ask"
    /\ once # "done"
    /\ once' = "running"
    /\ gor' = [gor EXCEPT ![c] = "build"]
    /\ UNCHANGED <<pc, startVars, settings, registry, outcome, seen, rounds, fleetVars>>

(* config.Registry.  The first collector to call it builds the registry;   *)
(* the others wait for it to be done, and all take what was kept.          *)
OnceFirst(c) ==
    /\ c \in DOMAIN gor
    /\ gor[c] = "ask"
    /\ once = "unset"
    /\ once' = "running"
    /\ gor' = [gor EXCEPT ![c] = "build"]
    /\ UNCHANGED <<pc, startVars, settings, registry, outcome, seen, rounds, fleetVars>>

(* Blank fields and repeated addresses are dropped.                        *)
parseHosts(fields) == {fields[i] : i \in DOMAIN fields} \ {Blank}

buildOptions(s) ==
    /\ s.discovery \/ parseHosts(s.address) # {}
    /\ s.concurrency >= 1
    /\ s.packets >= 1
    /\ s.timeout > 0

(* NewRegistry makes a device of each configured address.                  *)
buildRegistry(c) ==
    /\ c \in DOMAIN gor
    /\ gor[c] = "build"
    /\ once' = "done"
    /\ \/ /\ buildOptions(settings)
          /\ registry' = [built |-> registry.built + 1, hosts |-> parseHosts(settings.address),
                          discovery |-> settings.discovery]
          /\ device' = [h \in parseHosts(settings.address) |-> NewDevice(Blank)]
          /\ hardware' \in [parseHosts(settings.address) -> Hardware]
       \/ /\ ~buildOptions(settings)
          /\ UNCHANGED <<registry, device, hardware>>
    /\ gor' = [gor EXCEPT ![c] = "read"]
    /\ UNCHANGED <<pc, startVars, settings, outcome, seen, rounds, latest>>

OnceDone(c) ==
    /\ c \in DOMAIN gor
    /\ gor[c] = "ask"
    /\ once = "done"
    /\ gor' = [gor EXCEPT ![c] = "read"]
    /\ UNCHANGED <<pc, startVars, configVars, outcome, seen, rounds, fleetVars>>

(* There is no registry: Update returns the error it is given.             *)
UpdateFails(c) ==
    /\ c \in DOMAIN gor
    /\ gor[c] = "read"
    /\ registry.built = 0
    /\ gor' = [gor EXCEPT ![c] = "done"]
    /\ outcome' = [outcome EXCEPT ![c] = "failed"]
    /\ UNCHANGED <<pc, startVars, configVars, seen, rounds, fleetVars>>

(* What Update returns for a snapshot.                                     *)
Report(c, results) ==
    /\ gor' = [gor EXCEPT ![c] = "done"]
    /\ outcome' = [outcome EXCEPT ![c] = IF DOMAIN results = {} THEN "nodata" ELSE "ok"]
    /\ seen' = [seen EXCEPT ![c] = results]

UpdateShared(c) ==
    /\ c \in DOMAIN gor
    /\ gor[c] = "read"
    /\ registry.built # 0
    /\ \E results \in latest : Report(c, results)
    /\ UNCHANGED <<pc, startVars, configVars, rounds, fleetVars>>

-----------------------------------------------------------------------------
(* A round of reads.                                                       *)

(* Fault: the category is forgotten with the reading.                      *)
RememberedByName(known, reading) ==
    [alias |-> IF reading.alias # Blank THEN reading.alias ELSE known.alias, type |-> Blank]

(* Device.Read, once it has a reading.                                     *)
Remembered(known, reading) ==
    [alias |-> IF reading.alias # Blank THEN reading.alias ELSE known.alias,
     type  |-> reading.type]

ByModel == [w \in Hardware |-> deviceTypeFor(w.model, w.family)]

(* The sockets or sensors in a reading.  A SMART device lists them when it *)
(* is asked to; those of an IOT strip are in its sysinfo, and those of any *)
(* other IOT device are not looked for.                                    *)
PartsIn(w, gives) ==
    IF \/ w.dialect = "smart" /\ "children" \in gives
       \/ w.dialect = "iot" /\ ByModel[w] = "strip"
    THEN w.parts
    ELSE {}

(* applyChildren: what lists children and is no hub is a strip.            *)
TypeOf(w, parts) ==
    IF w.dialect = "smart" /\ parts # {} /\ ByModel[w] # "hub" THEN "strip" ELSE ByModel[w]

(* What a device answers: its name, and which of the parts of an answer    *)
(* that may be missing it gives, if it is not down.  A device may leave    *)
(* one out in any round, and give it again once it is connected to anew.   *)
Answers == {{}} \cup {{a} : a \in [alias : Aliases, gives : SUBSET {"energy", "children"}]}

(* The reading of the device w at h.                                       *)
ReadingOf(h, w, a) ==
    [host    |-> h,
     alias   |-> a.alias,
     reports |-> IF "energy" \in a.gives THEN w.reports ELSE w.reports \ {"power_watts"},
     parts   |-> PartsIn(w, a.gives),
     type    |-> TypeOf(w, PartsIn(w, a.gives))]

(* readAll: a Result for each device.                                      *)
ResultOf(h, known, reading) ==
    [reading |-> reading,
     alias   |-> IF known.alias # Blank THEN known.alias ELSE h,
     type    |-> IF known.type # Blank THEN known.type ELSE "unknown"]

(* Discovery adds devices, by the name in their replies, and may drop the  *)
(* ones that were not configured.                                          *)
Fleets ==
    {f \in SUBSET Hosts : /\ registry.hosts \subseteq f
                          /\ registry.discovery \/ f = registry.hosts}

(* The devices found anew get the name in their reply, the addresses met   *)
(* for the first time their hardware; each device answers or is down.      *)
ReadAll(c, fleet, found, new, answer) ==
    LET known == [h \in fleet |-> IF h \in DOMAIN device THEN device[h] ELSE found[h]]
        is == [h \in fleet \cup DOMAIN hardware |->
                  IF h \in DOMAIN hardware THEN hardware[h] ELSE new[h]]
        reading == [h \in fleet |-> {ReadingOf(h, is[h], a) : a \in answer[h]}]
        after == [h \in fleet |-> IF reading[h] = {} THEN known[h]
                                  ELSE Remembered(known[h], TheReading(reading[h]))]
        results == [h \in fleet |-> ResultOf(h, after[h], reading[h])]
    IN  /\ hardware' = is
        /\ device' = after
        /\ latest' = {results}
        /\ Report(c, results)

UpdateRound(c) ==
    /\ c \in DOMAIN gor
    /\ gor[c] = "read"
    /\ registry.built # 0
    /\ rounds < MaxRounds
    /\ rounds' = rounds + 1
    /\ \E fleet \in Fleets :
       \E found \in [fleet \ DOMAIN device -> {NewDevice(a) : a \in Aliases}],
          new \in [fleet \ DOMAIN hardware -> Hardware],
          answer \in [fleet -> Answers] :
           ReadAll(c, fleet, found, new, answer)
    /\ UNCHANGED <<pc, startVars, configVars>>

-----------------------------------------------------------------------------
Next ==
    \/ parseFlags \/ parseFails
    \/ DisableDefaultCollectors \/ newHandler
    \/ \E path \in Paths, pprof \in BOOLEAN : buildMux(path, pprof)
    \/ Collect
    \/ \E c \in Names :
           \/ OnceFirst(c) \/ buildRegistry(c) \/ OnceDone(c)
           \/ UpdateFails(c) \/ UpdateShared(c) \/ UpdateRound(c)

Spec == Init /\ [][Next]_vars

-----------------------------------------------------------------------------
TypeOK ==
    /\ pc \in {"start", "parsed", "running", "handler", "serving", "exited", "panicked"}
    /\ collectorState \in [Names -> BOOLEAN]
    /\ forcedCollectors \subseteq Names
    /\ enabledCollectors \subseteq Names
    /\ once \in {"unset", "running", "done"}
    /\ registry.hosts \subseteq Hosts
    /\ DOMAIN gor \subseteq enabledCollectors
    /\ \A c \in DOMAIN gor : gor[c] \in {"ask", "build", "read", "done"}
    /\ \A c \in DOMAIN outcome : outcome[c] \in {"none", "ok", "nodata", "failed"}
    /\ rounds \in 0 .. MaxRounds
    /\ DOMAIN device \subseteq Hosts
    /\ \A h \in DOMAIN device :
           device[h] \in [alias : Aliases, type : DeviceTypes \cup {Blank}]

(* A collector is enabled if the last of its toggles says so, and without  *)
(* one if it is on by default and the defaults are not disabled; discovery *)
(* is off only if it was turned off, which an empty variable does not; and *)
(* no path makes the process panic (MarkForcedCollectors, parseFlags,      *)
(* validateMetricsPath, "rejects ... values that http.ServeMux would       *)
(* panic on").                                                             *)
StartsAsAsked ==
    /\ pc # "panicked"
    /\ pc = "handler" =>
           /\ \A n \in Names :
                  LET given == {i \in DOMAIN cmd.args : cmd.args[i].name = n}
                  IN  n \in enabledCollectors <=>
                          IF given = {} THEN n \in Defaults /\ ~cmd.disableDefaults
                          ELSE \A i \in given : cmd.args[i].on \/ \E j \in given : j > i
           /\ settings.discovery \/ cmd.flag = "off" \/ (cmd.flag = "absent" /\ cmd.env = "false")

(* However the collectors of the first scrape race for it, one registry is *)
(* built, so that no device has two connections; and if none could be, all *)
(* of them fail, in that scrape and in every other (registryOnce, "they    *)
(* must all get the same one").                                            *)
OneRegistry ==
    /\ registry.built <= 1
    /\ \A c \in DOMAIN outcome :
           outcome[c] # "none" => (outcome[c] = "failed" <=> registry.built = 0)

SeriesOf(c, h) == {s \in Series(c, seen[c]) : s[3][1] = h}

(* A SMART device with children that deviceTypeFor does not know to have   *)
(* any: it is a strip in a round in which it lists them, and whatever its  *)
(* model or family says in a round in which it does not.                   *)
Unlisted(w) ==
    /\ w.dialect = "smart" /\ w.parts # {}
    /\ ByModel[w] \notin {"strip", "hub"}

(* A device that was read is reported by the collector of what it is and   *)
(* by no other but the device collector, which puts it in the same         *)
(* category, unless it is an unlisted parent that did not list its         *)
(* children.  Two collectors of one scrape that were given the same round  *)
(* never send one series, and if they were given different rounds they     *)
(* send one only for such a parent (energyMetrics, "Each device is         *)
(* reported by exactly one collector, so there is no risk of two of them   *)
(* emitting the same series"; applyChildren).                              *)
OneCollectorPerDevice ==
    LET reported == {c \in DOMAIN outcome : outcome[c] = "ok"} IN
    /\ \A c \in reported : \A h \in DOMAIN seen[c] :
           \A r \in seen[c][h].reading :
               LET w == hardware[h]
                   kind == IF Unlisted(w) /\ r.parts = {} THEN ByModel[w] ELSE w.kind
               IN  /\ SeriesOf(c, h) # {} => c \in {"device", kind}
                   /\ c = w.kind /\ kind = w.kind => SeriesOf(c, h) # {}
                   /\ c = "device" =>
                          <<"device", "info", labelsFor(r) \o <<kind>> >> \in SeriesOf(c, h)
    /\ \A c, d \in reported : c # d =>
           \A s \in Series(c, seen[c]) \cap Series(d, seen[d]) :
               seen[c] # seen[d] /\ Unlisted(hardware[s[3][1]])

(* A device that goes down keeps the labels of its up series and the       *)
(* category it is counted under, unless it had stopped giving the name it  *)
(* is remembered by (deviceCollector.Update, "a device going down does not *)
(* move between buckets"; aliasOf).                                        *)
SeriesStable ==
    [][\A old \in latest, new \in latest' : \A h \in DOMAIN old \cap DOMAIN new :
           \A r \in old[h].reading :
               new[h].reading = {} /\ (r.alias # Blank \/ device[h].alias = Blank) =>
                   /\ <<h, new[h].alias>> = labelsFor(r)
                   /\ countedAs(new[h]) = r.type]_vars
=============================================================================
