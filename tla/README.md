# A TLA+ model of kasa_exporter

kasa_exporter is a Prometheus exporter for TP-Link Kasa and Tapo devices. It
finds devices on the local network, keeps a session with each, and on every
scrape reads all of them and turns the readings into metrics. This directory
holds TLA+ modules that model its core, the TLC configurations that check them
on small instances, and TLAPS proofs of the main results for every instance.
Paths below are relative to the repository.

Run a model with `tlc -config MCRegistry.cfg MCRegistry`, check the proofs with
`tlapm RegistryProofs.tla`. `PROJECT.json` holds the correspondence between
definitions and source lines, the hazards the properties are aimed at, and for
each checked property a fault (a definition whose comment begins with *Fault:*)
that breaks it.

## 1. Inventory

| Part | State | Operations | Concurrency and failure |
|---|---|---|---|
| Metrics handler, `kasa_exporter.go` | enabled collectors (set once), one unfiltered promhttp handler | `ServeHTTP`, `innerHandler` | requests run in parallel; a filtered one gets a handler of its own |
| Collector framework, `collector/collector.go` | registered collectors, their toggles and which were given, cached instances | `newToggles`, `MarkForcedCollectors`, `DisableDefaultCollectors`, `NewKasaCollector`, `Collect`, `execute` | one goroutine per collector and scrape |
| Collectors, `collector/*.go` | metric descriptors | `Update` | each takes the registry's snapshot, possibly of different rounds |
| Configuration, `config/kasa.go` | flags, the registry built once, or its error | `Registry`, `buildRegistry`, `buildOptions`, `parseHosts` | the collectors of the first scrape race for `sync.Once` |
| Device registry, `kasa/registry.go` | devices by address, time of the last sweep, sweep under way, snapshot and its time | `Snapshot`, `Close`, `refreshDevices`, `runDiscovery`, `reconcile`, `readAll` | two mutexes and one per device, background sweeps, a goroutine per device and round, a semaphore per round |
| Device, `kasa/device.go` | querier, remembered name and type, what discovery said | `Read`, `Alias`, `Type`, `Close` | a mutex; any read may fail |
| Negotiation, `kasa/connect.go` | none | `negotiate`, `connectAs` | one time budget for many attempts |
| Discovery, `kasa/discover.go` | a UDP socket | `discover`, `discoverHost`, `probe`, `collect`, parsing | lost, duplicated, reordered and stray datagrams; probes that cannot be sent |
| KLAP transport, `kasa/klap.go` | cookie, keys, sequence number, established | `Query`, `handshake`, `Close` | the device forgets sessions, posts are lost |
| AES transport, `kasa/aes.go` | key, token, cookie, established | `Query`, `connect`, `login`, `Close` | as KLAP, with two login shapes |
| XOR transport, `kasa/xor.go` | none | `Query` | one TCP exchange, which may end anywhere |
| IOT and SMART dialects, `kasa/iot.go`, `kasa/smart.go` | what a device turned out not to support | `Read` | several sub-queries, some of which may fail |
| Type classification, `kasa/device.go` | none | `deviceTypeFor` | pure |
| Command line, `kasa_exporter.go` | flags | `main`, `parseFlags`, `run`, `buildMux` | sequential start-up; toggles, variables and defaults in any combination |

A scrape calls `ServeHTTP`; `Collect` starts a goroutine per collector; each
calls `Registry.Snapshot`. The first to find the cached snapshot stale sweeps
for devices if a sweep is due (inline the first time, in the background later),
reads every device through its `Device`, and publishes the results; the others
wait for the lock and share them. A `Device` negotiates a transport on first use
and keeps it until a read fails.

What makes it correct: sweeps and rounds of reads do not overlap; no scrape
waits for a sweep or for a device it does not read; every snapshot is complete;
configured devices never disappear; sessions survive what a device does to them
and are renewed when they must be; a device that comes back is read again. A
sweep ends and does not depend on the order of the replies; one registry serves
all collectors; each device is reported by one collector, under labels that do
not change when it fails.

## 2. Modules

| Module | Models | Extends or instantiates |
|---|---|---|
| `Registry` | `kasa/registry.go` and the locking side of `kasa/device.go` | instantiates `FleetView` |
| `FleetView` | the abstract specification of the registry | |
| `RegistryProofs` | theorems about `Registry` | extends `Registry` |
| `Scrape` | `ServeHTTP`, `innerHandler`, `NewKasaCollector`, `Collect` on top of the registry | extends `Registry` |
| `ScrapeProofs` | theorems about `Scrape` | extends `Scrape`, `RegistryProofs` |
| `Device` | `Device.Read`, `negotiate` and what they call, over the life of one device | |
| `DeviceProofs` | theorems about `Device` | extends `Device` |
| `Klap` | `kasa/klap.go` and the device it talks to | |
| `KlapProofs` | theorems about `Klap` | extends `Klap` |
| `Aes` | `kasa/aes.go` and the device it talks to | |
| `AesProofs` | theorems about `Aes` | extends `Aes` |
| `Dialects` | `kasa/iot.go`, `kasa/smart.go` and the device they ask | |
| `DialectsProofs` | theorems about `Dialects` | extends `Dialects` |
| `Xor` | the cipher and the framing of `kasa/xor.go`, as operators | |
| `Discovery` | `kasa/discover.go`, the network and the devices' replies, and a legacy query | extends `Xor` |
| `DiscoveryProofs` | theorems about `Xor` and `Discovery` | extends `Discovery` |
| `Collectors` | `deviceTypeFor` and `Update` of the eight collectors, as operators | |
| `Exporter` | start-up, `config/kasa.go`, `collector/collector.go` and the scrapes of a process | extends `Collectors` |
| `ExporterProofs` | theorems about `Exporter` and `Collectors` | extends `Exporter` |
| `MC...` | instances for TLC | |

### Registry

Goroutines are `Callers` (a collector inside `Snapshot`), `Sweepers` (a
background sweep) and `Closers`. `pc` says where each is; one action is what a
goroutine does between two points at which another can act: taking a lock,
waiting for a device, starting a goroutine. `snapshotMtx`, `devicesMtx` and `mu`
record who holds a lock across steps; a critical section that does not wait is
one action whose guard is that the lock is free. During `readAll` the caller's
row of `reader` is the goroutine of each device: queued for the semaphore, in a
slot, reading, done.

`refreshDevices` decides and claims a sweep in one critical section
(`RefreshSkip`, `RefreshFirst`, `RefreshBackground`); a sweep is
`DiscoverAnswered` or `DiscoverFailed`, `Reconcile`, then `DropMissing` and
`LogDropped` for each missing device (both wait for that device's mutex, and
`devicesMtx` is held meanwhile), `ReconcileDone` and the deferred
`FinishDiscovery`. A `Device` object is an address and the time it was built,
because an address that is dropped and found again has two objects while an old
reader is still running.

The time is a clock that any step may let tick; `CacheTTL` and
`DiscoveryInterval` are in ticks. `keepMissing` is `Options.KeepMissing`, chosen
in `Init` from the constant set `KeepMissing` and never changed.

### FleetView

Three variables: the fleet, the devices of the round in progress, the last
view. The fleet grows at any time and shrinks one device at a time, never by a
configured one and not at all unless it may (`mayShrink`); a round begins with
the fleet of that moment and ends by replacing the whole view with one report per
device. `Registry!ImplementsFleetView` maps `round` to the devices that have a reader, `view` to the snapshot and
`mayShrink` to the absence of KeepMissing.

### Scrape

Adds requests to the registry: a caller is now the goroutine of one collector
for one request. `ServeRejected` is every 400, `ServeBusy` the 503 of promhttp's
in-flight limit, `ServeCollect` starts the goroutines, `Respond` is the end of
`wg.Wait`. promhttp is outside the repository; its limit is modelled from the
options `innerHandler` passes: one counter per handler. The numbers of rounds
(`round`, `begun`, `seen`) are history.

### Device

The device is an environment with a service (what it speaks), a description
(what it says in discovery, with or without a login version, or nothing), a
login that fits or not, ports that refuse or swallow packets, and a name; all
can change at any moment. `Read`, `Ask`, `Attempt`, `ReadOK`, `ReadFails` are
the exchanges of one `Device.Read`, each of which spends time from one budget.
A tick is a quarter of a second, so the floor of `unicastDiscoveryBudget` is two.
An exchange is a whole `querier.Read`; what happens inside one is the subject of
`Klap`, `Aes` and `Dialects`, and the device changes between two exchanges.
`refused` counts how often a login was presented in vain: an AES login is posted
in two shapes before it counts as rejected, so one attempt over AES counts twice
(`Presented`), also when a post of it was lost; a KLAP attempt is one handshake.

### Klap

The client's steps are its HTTP posts. The device keeps a set of sessions, may
forget them (`Forget`), may be bound to another account (`Reprovision`), and
posts or answers may be lost. Keys are the number of the handshake they were
derived from; hashes are equal when what they hash is equal; the sequence number
keeps its wrap-around with a configurable width.

### Aes

Built like `Klap`. `connect` is `Handshake` and two posts of `login`, which tries
the password in the clear and then hashed; the device understands one of the two
(`shape`). A session, its key, its token and its cookie are named by the
handshake that made them. A device that changes hands may keep its sessions; it
then answers a request with the code of a rejected login. An expired session is
an error code in an ordinary answer, which only `Query` acts on: `login` counts
it as a failed attempt, and reports the credentials as rejected after two
failures of any kind. `post` keeps a session cookie from any response; the model
has devices that set it during the handshake, as the comment of `post` says.

### Dialects

One querier and one device over any number of Reads. The steps are the queries
of a Read: `sysinfo` with the meter, a second try under the other module's name
for lights, one query per outlet of a strip; for SMART one batch, then
`get_device_info` alone if the batch did not answer it. A query is lost or
answered, and an answer may leave out a part it should have had (a *glitch*). A
Read that fails discards the querier, as `Device.Read` does, and with it what it
remembered. Readings are reduced to what is present: energy, total, outlets,
type. Two assumptions about devices: the outlets of one strip report the same
quantities (the code counts an outlet with power but no total as measured, so
with mixed outlets the strip's total would be a partial sum), and a meter's
count does not go down.

### Discovery and Xor

A sweep is `Begin`, one `SendProbe` or `SendFails` per datagram, `ProbeDone` or
`ProbeFailed`, then turns of `collect`'s loop (`ReadReply`, `ReadNoise`) until
`Expire` or `Break`. A probe has a number, odd on the legacy port; `net` has, for
each device, the probes whose replies are on their way. A probe that nobody
hears and a reply that nobody waits for are both in `lost`; a reply that is read
and stays in `net` is a duplicate. The SMART reply is its encryption scheme or
one of three ways to be unusable; the legacy reply is bytes under the cipher, so
the parsers are modelled by what they do to them: an echo of the legacy probe is
noise of the network, and `parseIOTDiscovery` accepts it, because the empty
sysinfo in it is one. `Begin` of a single address is
`discoverHost`, which sends once and fails when nothing is found. `Query` is a
legacy query of a device the sweep has found, over a stream that may end
anywhere; it ends the sweep's part in the behaviour, as `Forget` does.

In `Xor` a byte is the set of its bits and `^` the symmetric difference.

### Exporter and Collectors

The process goes from `parseFlags` through `DisableDefaultCollectors`,
`newHandler` and `buildMux` to serving; `Collect` then starts a goroutine per
enabled collector, scrape after scrape. Each asks `config.Registry` (`OnceFirst`
and `buildRegistry` for the first to come, `OnceDone` for the others) and then
updates from the last round (`UpdateShared`) or from a new one (`UpdateRound`),
which is what `FleetView` says of the registry: `Registry` shows that a round is
atomic to the collectors, so it is one step here. Which of the two happens is
left open, because it depends on the cache's age only. What a `Device` remembers
(name and category) survives from round to round; a device that a sweep finds
has the name of its reply; the hardware at an address does not change. What it
answers does: a round may go without the energy or the list of children, and a
SMART device is a strip in a round in which it lists children, whatever its model
says (`TypeOf`, as `applyChildren` does), unless it is a hub. A SMART device with
children that `deviceTypeFor` knows neither as a strip nor as a hub is therefore
of two categories in turn; `Unlisted` names such devices.

`Collectors` has the series of each collector as a set of names and labels. Of
several series that are sent under the same condition one stands for all, and
the values are left out. `deviceTypeFor` has the whole table of the code, for
names in capitals (the code converts them).

## 3. Runs

| Run | Instance | Checks |
|---|---|---|
| `registry` | 2 collectors, 2 sweep goroutines, 1 closer, 2 addresses (1 configured), concurrency 1, 3 ticks | the safety invariants and the refinement |
| `registry_live` | 2 collectors, 1 sweep goroutine, 2 ticks, with and without KeepMissing | `SnapshotReturns`, `SweepEnds`, `NeverVanishes`, `SessionKept` |
| `scrape` | 2 requests, 3 collectors (1 disabled), 1 device, limit 1, 2 ticks | `QueriesBounded`, `RanAsAsked` |
| `scrape_round` | the same | `OneRoundPerScrape`, violated |
| `scrape_limit` | the same | `ParallelScrapesLimited`, violated |
| `device` | timeout of 8 ticks, 2 faults, 2 names | `Recovers` and the invariants |
| `device_probe` | no faults | `ProbedUntilFound`, violated |
| `klap` | 3 queries, 3 accounts of which 2 are candidates, 2-bit sequence numbers | `KeysAgree`, `NonceFresh`, `FailureExplained` |
| `aes` | 3 queries, 3 faults | `SessionWhole`, `FailureExplained` |
| `dialects` | devices of every kind, strips of 2 outlets, 3 faults, meters up to 2, any number of Reads | `TotalNeverFalls`, `CompleteReading`, `NoDeadQuestions`, `SettledCost` |
| `discovery` | 2 devices, 2 packets per probe, 2 ticks, bytes of one bit, answers of up to 3 bytes | `MostSpecificWins`, `MissedOnlyIfLost`, `AnswerWhole`, `SweepOver` |
| `exporter` | 3 collectors, 2 toggles, 8 paths, 5 settings, 1 address, 6 devices, 3 names, 2 rounds per scrape | `StartsAsAsked`, `OneRegistry`, `OneCollectorPerDevice`, `SeriesStable` |

**Bounds.** Two collectors are enough for one to wait while the other holds a
lock, and to take turns; two addresses, one of them configured, for a device to
be dropped, found again and read beside another. Three ticks with intervals of
one tick let the cache and the sweep interval run out several times, in either
order. In `klap` three queries allow a session that is used again, one that is
lost, and a retry; with two bits the sequence number wraps. In `device` two
faults are one that spoils a connection and one during the recovery; the budget
of eight ticks is one in which every probe that is answered leaves time for the
next. In `aes` and `dialects` three faults suffice for one that leaves a trace
(a session without a token, a meter not found), one during the recovery and one
more; two outlets for a sum of which one part is missing. In `discovery` two
packets let one be lost and one arrive on each port, and two ticks let datagrams
arrive between two of them; the cipher's chain over three bytes has a first, a
middle and a last link. In `exporter` two toggles of one collector can
contradict each other, and two of different ones be apart from the defaults; two
new rounds per scrape beside the last one let two collectors of a scrape report
from different rounds and a third from either, and scrapes go on for ever. One
address is enough because no action and no property relates two devices; the
theorems are about any fleet. The six devices are a plug, three whose models begin
with a shorter prefix of another category, one that only its family places and a
SMART strip that neither its model nor its family gives away; three names let a
device lose one and be renamed. The settings are a good one and one for each check
of `buildOptions`, and the paths include every one that
`http.ServeMux` would refuse for a reason of its own. `MaxTime`, `MaxQueries`,
`MaxFaults`, `MaxCount`, `MaxArgs` and `MaxRounds` are the bounds; the theorems
hold for every value of those of their module. `exporter` may stop, since a
process that exits does.

**Fairness.** `registry_live` assumes that a goroutine that can run eventually
does (weak fairness of each collector, sweep and reader), which Go's preemptive
scheduler gives, that a device read ends, which its timeout gives, and strong
fairness for taking `snapshotMtx`, which collectors of endless scrapes contend
for: a Go mutex goes into starvation mode and is handed to the longest waiter.
Nothing makes a collector call `Snapshot` or the clock advance. `device` assumes
that reads are called again and again, as Prometheus does, and that each goes on.
`discovery` assumes that the sweep's goroutine runs and that time passes; nothing
need ever arrive, and datagrams may arrive for ever.

**Violations.** Three runs show that a sentence of the documentation is not what
the code does. `scrape_round`: a collector that reaches the lock after the TTL
has run out starts a second round in the same scrape; `QueriesBounded` is the
bound that does hold, one round per TTL. `scrape_limit`: a filtered request
never counts towards `--web.max-requests`. `device_probe`: probing a KLAP device
of login version 1 fails at the version 2 attempt, which reads as a rejected
login and ends the loop.

Four more differences with comments have no run of their own, because the modules
state what the code does. `collector/metrics.go:94` says that "Each device is
reported by exactly one collector, so there is no risk of two of them emitting the
same series." A SMART strip whose model is in no table is a strip when its child
list arrives and a plug when it does not (`kasa/smart.go:344`); a scrape whose
collectors straddle the end of the TTL, as in `scrape_round`, can have the strip
collector report the one round and the plug collector the other, and both then
send `kasa_power_watts` for the device. `exporter` reaches this, and
`OneCollectorPerDevice`, which excepts it by name, shows that it is the only way:
without the last line of that property TLC prints the scrape. `kasa/discover.go:178` says "Only
a failure to send *both* probes is fatal"; one datagram that cannot be sent fails
the sweep (`ProbeFailed`). `config/kasa.go:107` says that a configuration error
surfaces "as a failed scrape, with the reason in the response"; the response is
an ordinary one in which each collector reports failure (`UpdateFails`), and the
reason is in the log. `buildOptions` is there for "rejecting a configuration that
could not work", and accepts a device timeout that `unicastDiscoveryBudget` uses
up and a discovery timeout of zero.

Results of `exporter` with a condition: `SeriesStable` excludes a device that
stops giving its name and then fails, which moves from its address to the name it
is remembered by (`collector/metrics.go:83`). `OneCollectorPerDevice` says that a
device is reported by the collector of what it really is, which holds for models
in the table and for families that say what a device is. An unlisted SMART parent
is excepted in a round without its child list, and where two collectors were given
different rounds. The family of legacy plugs, `IOT.SMARTPLUGSWITCH`, says SWITCH
first, so a legacy plug of an unknown model is reported as a wall switch.

`FewRejectedLogins` counts attempts of one Read, two at most, with two posts each
over AES. It speaks of a device that changes between attempts: a strip whose login
changes in the middle of a `querier.Read` over KLAP would see one more handshake
for each outlet that is left, which `Device` does not resolve.

Two results of `dialects` say as much about their conditions. `CompleteReading`:
lost queries leave no trace, but one error code of a meter ends the questions for
it while the querier lives, and firmware that answers a batch with nothing never
reports energy or outlets, although its `get_device_info` is asked for alone.
`aes`' `FailureExplained` is about undisturbed queries: two lost logins are
reported as rejected credentials.

`Recovers` holds under a condition worth knowing: a device that was found by a
sweep is read as that sweep described it, so a firmware update that changes its
transport is noticed only when a sweep misses the device and drops it.

## 4. Proofs

Every invariant and action property of the passing runs is a theorem, and so is
the refinement; the runs show them on small instances, the theorems for every
value of the constants, the bounds among them. What the liveness properties say
stays with TLC.

| Module | Theorem | States |
|---|---|---|
| `RegistryProofs` | `TypeCorrect`, `SweepsExclusive`, `ReadsExclusive`, `ScrapeUnblocked`, `InlineSweepOnlyFirst`, `SweptBeforeSnapshot`, `ManualAlwaysReported`, `NothingVanishes`, `SessionsKept` | the safety properties of `registry` and `registry_live` |
| | `Refinement` | `ImplementsFleetView` |
| `ScrapeProofs` | `QueriesPaced`, `CollectorsAsAsked` | `QueriesBounded`, `RanAsAsked` |
| | `ScrapeTypeCorrect`, `RegistrySound` | the types, and that the registry's invariants hold under the HTTP server's requests |
| `DeviceProofs` | `TypeCorrect`, `LabelsKept`, `LoginsSpared` | `TypeOK`, `SeriesKept`, `FewRejectedLogins` |
| `KlapProofs` | `TypeCorrect`, `KeysAlwaysAgree`, `FailuresExplained`, `NoncesFresh` | all of `klap` |
| `AesProofs` | `TypeCorrect`, `SessionsWhole`, `FailuresExplained` | all of `aes` |
| `DialectsProofs` | `TypeCorrect`, `NothingAskedInVain`, `TotalsNeverFall`, `ReadingsComplete`, `CostsSettled` | all of `dialects` |
| `DiscoveryProofs` | `TypeCorrect`, `OrderForgotten`, `MissedForAReason`, `AnswersWhole` | `discovery` without `SweepOver` |
| | `Deciphers`, `Enciphers` | the cipher and its inverse, for texts of any length |
| `ExporterProofs` | `TypeCorrect`, `StartedAsAsked`, `BuiltOnce`, `SeriesStay`, `ReportedOnce` | all of `exporter` |

**Registry.** For any sets of goroutines, any finite set of addresses, any TTL,
concurrency and length of run. The assumptions are in `Registry`: the three kinds
of goroutines are disjoint, configured addresses are addresses, `Concurrency` is
at least one (`NewRegistry` sees to it), and `DiscoveryInterval` is at least one
tick. The last belongs to the model: a device object is named by its address and
the time its sweep was answered, and with an interval of at least one tick no two
sweeps are answered in the same tick, so two objects never share a name. The code
itself accepts an interval of zero, which is not covered. `HostsFinite` is used
for counting only.

None of the invariants is inductive alone. The argument has seven parts, each of
which uses the ones before it:

* `RoundInv`: between the cache test and the publication the caller holds
  `snapshotMtx`; readers exist only while their caller waits for them; a
  device's mutex is held only by such a reader. So rounds exclude each other.
* `SweepInv`: `discovering` is true exactly when one goroutine is in
  `runDiscovery`, `devicesMtx` is held across steps only by a goroutine that
  closes devices, and devices to be closed belong to one. With `RoundInv`, a
  caller that wants `devicesMtx` runs no readers and nobody else can, so no
  device's mutex is held.
* `ManualInv`: the first device object of a configured address stays in the map,
  and is in every round.
* `SlotInv`: the readers in a slot are within the semaphore, and the devices of
  a round have different addresses.
* `RefInv`: the results of a round are exactly the reports of its readers that
  have read; with it every step is a step of `FleetView` or changes none of its
  variables.
* `KeepInv`: with KeepMissing every reported address is in the map, and a round
  in progress has a reader for it.
* `OpenInv`: with KeepMissing, and while nobody closes the registry, a device
  that was reported up and that no reader has begun to read since is connected.

**Scrape.** The steps of a collector's goroutine are steps of the registry, so
the registry's invariant is carried over, and two parts are added: `AskInv` ties
what a goroutine has seen to what its request asked for, and `PaceInv` counts
rounds by the clock. Each round after the first of a scrape begins at least a TTL
after the one before it was published, so `begun - 1` rounds take `(begun - 1) *
CacheTTL` ticks. The assumptions are that the TTL is not zero,
without which nothing limits the rounds, and, for the model's sake, that there is
an address (`Hosts # {}`): it is what tells a snapshot from none.

**Device.** `RefusedSoFar` says in how many attempts a login can have been rejected at each
point of a Read: none before the first attempt, at most one while the probing can
go on, two at the end (`SoFar`, for a given number of posts per attempt: two in any
case, and those of the device's own transport in a Read that nothing disturbs).
`NameRemembered` ties the series that is shown to the remembered name.

**Klap and Aes.** The key is `SessionInv`: because no cookie is sent with a first
handshake, a session's number is always that of its keys, and whenever the client
believes it has a session its cookie, its keys and, for AES, its token belong to
one handshake. `CalmInv` adds what an undisturbed query has already achieved: in
the second pass its session is ready, so a second refusal means interference.
`NoncesFresh` adds `NonceInv`: the seeds of a handshake have encrypted nothing
yet, and every number sent under the keys in use lies behind the counter, going
round the modulus, by less than the number of calls. Its hypothesis is that Query
is called no more often than there are sequence numbers (2^32 in the code), and
it is needed: a session is never renewed for its age, so the code would reuse a
number after that.

**Dialects.** One part of the invariant for each thing a Read relies on: the kinds
of devices (`DeviceInv`), where a Read can be and how many queries it has made
(`PlaceInv`), the outlets read so far (`SocketInv`), what a querier has concluded
(`IotInv`, `SmartInv`). A strip's total is a sum that the code builds one outlet
at a time while the meters go on counting; `LastInv` and `TotalInv` keep the list
of its partial sums, none of which the meters have fallen behind, so that the next
total, which takes every outlet later, is no less. For any number of outlets and
any bound on the meters.

**Discovery.** `Progress` and `Accounted` follow each probe that a device listens
for: as long as every probe could be sent, it is on its way as a reply, lost, or
the device has been found. The two theorems about the cipher are about
recursive functions, for which the prover has no induction; they take the least
position at which the claim fails, which a set of numbers has because their order
is well-founded (`Least`), and show that it fails earlier.

**Exporter.** The same argument shows that the state a command line of any length
leaves is, for each collector, its last toggle or the default (`ToggledSays`).
`NoPanic` shows that the routes `buildMux` registers are different and well
formed for any path that `validateMetricsPath` accepts; it rests on
`RoutesAssumption`, facts about the fixed routes as strings, which TLC evaluates
and the prover cannot. `StartInv` carries the command line to the handler.
`OnceInv`: one goroutine at most builds, nobody reads before it is done, and no
outcome exists before. `FleetInv`: a reading in the last snapshot carries what the
`Device` remembers. `SeenInv`: a snapshot a collector was given, of this round or
an older one, holds at most one reading of each device, one its hardware can give
(`IsReading`): with its children or without, and of the category that follows from
that. So two collectors that both send the power of one address were given different
readings of it, and only an unlisted SMART parent has readings of two categories
(`TypesDiffer`, `Shared`). `ReportedOnce` has the hypothesis `Classified`, that
`deviceTypeFor` puts every device into the category it is of, or the device is a
SMART strip it does not know; that the tables do so is a fact about strings, which
the run checks for its six devices and which fails for the legacy plugs of section
3. The part about two collectors sending one series does not depend on it. The
assumptions of `Exporter` say that the collectors are the ones the code registers,
that `Defaults` are some of them, and that configured addresses are addresses or
blank.

Only model-checked: `SnapshotReturns`, `SweepEnds`, `Recovers` and `SweepOver`,
because the prover has no fairness; and what `deviceTypeFor` makes of real model
names.

## 5. Not modelled, and the plan

Left out for good, because they are input and output or carry no state: logging
and its options, the version, the landing page's content, the profiler, the end
of the listener, the spelling of durations, the values and descriptors of
metrics, URLs and JSON envelopes, the cryptographic primitives, the broadcast
option of the socket. `SnapshotCollectorStates` serves the tests, and the cached
instances of collectors hold descriptors only. Nothing is persisted, so a restart
of the process is a new behaviour. A device timeout of half a second or less and
a discovery interval of zero are outside the instances and the assumptions.

What is left is small: to shorten the proofs where they repeat each other
(`DiscoveryProofs` and `ExporterProofs` both derive the least member of a set of
numbers), to weaken the hypothesis of `NoncesFresh` from the calls of a process
to the requests of one session, and to state for the whole process what `Registry`
and `Exporter` prove apart, that the rounds of `Exporter` are those of `FleetView`.
