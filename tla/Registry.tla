------------------------------ MODULE Registry ------------------------------
(***************************************************************************)
(* The device registry, kasa/registry.go, with the parts of kasa/device.go *)
(* it drives: which devices exist, the sweeps that change that set, the    *)
(* rounds of concurrent reads, and the snapshot the collectors share.      *)
(*                                                                         *)
(* Threads are the goroutines of the program.  A Caller is a collector     *)
(* inside Snapshot; during readAll it stands for itself and, through       *)
(* `reader', for the goroutine it started for every device.  A Sweeper is  *)
(* a background discovery goroutine, a Closer one that calls Close.        *)
(*                                                                         *)
(* A Device object is a pair <<host, born>>: a host that is dropped and    *)
(* found again gets a new object while a reader may still hold the old     *)
(* one, so the two must be told apart.  `born' is the time of the sweep    *)
(* that built the object, 0 for a configured host.                         *)
(***************************************************************************)
EXTENDS Integers, FiniteSets

CONSTANTS
    Callers,            \* goroutines that call Registry.Snapshot
    Sweepers,           \* background discovery goroutines
    Closers,            \* goroutines that call Registry.Close
    Hosts,              \* addresses on the network
    Manual,             \* Options.Hosts, the configured ones
    Discovery,          \* Options.Discovery
    KeepMissing,        \* the values Options.KeepMissing may have
    CacheTTL,           \* Options.CacheTTL, in clock ticks
    DiscoveryInterval,  \* Options.DiscoveryInterval, in clock ticks
    Concurrency,        \* Options.Concurrency
    MaxTime,            \* bound: the clock stops here
    Nobody              \* a mutex nobody holds, a map entry that is absent

Threads == Callers \cup Sweepers \cup Closers
Devs    == Hosts \X (0 .. MaxTime)
Never   == -1           \* the zero time.Time

ASSUME RegistryAssumption ==
    /\ Manual \subseteq Hosts
    /\ Callers \cap Sweepers = {}
    /\ Callers \cap Closers = {}
    /\ Sweepers \cap Closers = {}
    /\ Nobody \notin Threads
    /\ Nobody \notin Devs
    /\ Discovery \in BOOLEAN
    /\ KeepMissing \subseteq BOOLEAN
    /\ CacheTTL \in Nat
    /\ DiscoveryInterval \in Nat \ {0}
    /\ Concurrency \in Nat \ {0}
    /\ MaxTime \in Nat

ASSUME HostsFinite == IsFiniteSet(Hosts)

VARIABLES
    keepMissing,    \* Options.KeepMissing, set once
    now,            \* the clock
    pc,             \* where each thread is
    snapshotMtx,    \* who holds Registry.snapshotMtx
    devicesMtx,     \* who holds Registry.devicesMtx across steps
    mu,             \* who holds each Device.mu across steps
    devices,        \* Registry.devices, host to Device
    lastDiscovery, discovering,
    snapshot, snapshotTime,
    open,           \* the Devices whose querier is not nil
    found,          \* the sweep's local result: the Devices it built
    gone,           \* reconcile and Close: the Devices still to be closed
    reader,         \* readAll: where the goroutine of each Device is
    results         \* readAll: the slice the goroutines fill in

registryVars == <<devices, lastDiscovery, discovering, devicesMtx>>
snapshotVars == <<snapshot, snapshotTime, snapshotMtx>>
roundVars    == <<reader, results>>
sweepVars    == <<found, gone>>
deviceVars   == <<mu, open>>
vars == <<keepMissing, now, pc, registryVars, snapshotVars, roundVars, sweepVars,
          deviceVars>>

-----------------------------------------------------------------------------
(* The pcs of a thread: in Snapshot before the lock; past the cache test;  *)
(* in runDiscovery (Discover, reconcile and its loop, the deferred reset); *)
(* at the copy of readAll; at wg.Wait; in Close.                           *)
SweepPCs == {"discover", "reconcile", "drop", "log", "finish"}
RoundPCs == {"refresh", "copy", "wait"} \cup SweepPCs
PCs      == {"idle", "want", "close"} \cup RoundPCs

(* A reader goroutine waits for a slot, has one, reads (and holds the      *)
(* Device's mu), has read, is done.                                        *)
ReaderPhases == {"none", "queued", "slot", "reading", "read", "done"}
SlotPhases   == {"slot", "reading", "read"}

(* What a snapshot says of a Device: "nil" stands for the nil slice.       *)
Outcomes == {"nil", "absent", "up", "down"}
NilSnapshot == [d \in Devs |-> "nil"]

HostOf(d)  == d[1]
InFleet(d) == devices[HostOf(d)] = d
Fleet      == {d \in Devs : InFleet(d)}

(* time.Since: a zero time is longer ago than any interval.                *)
SinceAtLeast(t, interval) == t = Never \/ now - t >= interval

TypeOK ==
    /\ keepMissing \in KeepMissing
    /\ now \in 0 .. MaxTime
    /\ pc \in [Threads -> PCs]
    /\ snapshotMtx \in Callers \cup {Nobody}
    /\ devicesMtx \in Threads \cup {Nobody}
    /\ mu \in [Devs -> Callers \cup {Nobody}]
    /\ devices \in [Hosts -> Devs \cup {Nobody}]
    /\ lastDiscovery \in {Never} \cup (0 .. MaxTime)
    /\ discovering \in BOOLEAN
    /\ snapshot \in [Devs -> Outcomes]
    /\ snapshotTime \in {Never} \cup (0 .. MaxTime)
    /\ open \in SUBSET Devs
    /\ found \in [Threads -> SUBSET Devs]
    /\ gone \in [Threads -> SUBSET Devs]
    /\ reader \in [Callers -> [Devs -> ReaderPhases]]
    /\ results \in [Callers -> [Devs -> Outcomes]]

(* NewRegistry: a Device for every configured host, connected lazily.      *)
Init ==
    /\ keepMissing \in KeepMissing
    /\ now = 0
    /\ pc = [t \in Threads |-> "idle"]
    /\ snapshotMtx = Nobody
    /\ devicesMtx = Nobody
    /\ mu = [d \in Devs |-> Nobody]
    /\ devices = [h \in Hosts |-> IF h \in Manual THEN <<h, 0>> ELSE Nobody]
    /\ lastDiscovery = Never
    /\ discovering = FALSE
    /\ snapshot = NilSnapshot
    /\ snapshotTime = Never
    /\ open = {}
    /\ found = [t \in Threads |-> {}]
    /\ gone = [t \in Threads |-> {}]
    /\ reader = [c \in Callers |-> [d \in Devs |-> "none"]]
    /\ results = [c \in Callers |-> [d \in Devs |-> "absent"]]

Goto(t, where) == pc' = [pc EXCEPT ![t] = where]

-----------------------------------------------------------------------------
(* Snapshot.                                                               *)

Fresh == ~SinceAtLeast(snapshotTime, CacheTTL) /\ snapshot # NilSnapshot

(* A collector calls Snapshot and queues for snapshotMtx.                  *)
Call(c) ==
    /\ pc[c] = "idle"
    /\ Goto(c, "want")
    /\ UNCHANGED <<keepMissing, now, registryVars, snapshotVars, roundVars, sweepVars,
                   deviceVars>>

(* The cached set is fresh: lock, return it, unlock.                       *)
SnapshotHit(c) ==
    /\ pc[c] = "want"
    /\ snapshotMtx = Nobody
    /\ Fresh
    /\ Goto(c, "idle")
    /\ UNCHANGED <<keepMissing, now, registryVars, snapshotVars, roundVars, sweepVars,
                   deviceVars>>

(* Fault: the lock covers the cache test only.                             *)
SnapshotMissUnlocked(c) ==
    /\ pc[c] = "want"
    /\ snapshotMtx = Nobody
    /\ ~Fresh
    /\ Goto(c, "refresh")
    /\ UNCHANGED <<keepMissing, now, registryVars, snapshotVars, roundVars, sweepVars,
                   deviceVars>>

(* It is not: keep the lock for refreshDevices and readAll.                *)
SnapshotMiss(c) ==
    /\ pc[c] = "want"
    /\ snapshotMtx = Nobody
    /\ ~Fresh
    /\ snapshotMtx' = c
    /\ Goto(c, "refresh")
    /\ UNCHANGED <<keepMissing, now, registryVars, snapshot, snapshotTime, roundVars,
                   sweepVars, deviceVars>>

(* Fault: no wg.Wait.                                                      *)
SnapshotStoreEarly(c) ==
    /\ pc[c] = "wait"
    /\ snapshot' = results[c]
    /\ snapshotTime' = now
    /\ snapshotMtx' = Nobody
    /\ Goto(c, "idle")
    /\ UNCHANGED <<keepMissing, now, registryVars, roundVars, sweepVars, deviceVars>>

(* wg.Wait has returned: publish the results, stamp them, unlock.          *)
SnapshotStore(c) ==
    /\ pc[c] = "wait"
    /\ \A d \in Devs : reader[c][d] \in {"none", "done"}
    /\ snapshot' = results[c]
    /\ snapshotTime' = now
    /\ snapshotMtx' = Nobody
    /\ reader' = [reader EXCEPT ![c] = [d \in Devs |-> "none"]]
    /\ results' = [results EXCEPT ![c] = [d \in Devs |-> "absent"]]
    /\ Goto(c, "idle")
    /\ UNCHANGED <<keepMissing, now, registryVars, sweepVars, deviceVars>>

-----------------------------------------------------------------------------
(* refreshDevices: one critical section decides whether a sweep is due and *)
(* claims it; the first runs in the caller, later ones in the background.  *)

Due == Discovery /\ SinceAtLeast(lastDiscovery, DiscoveryInterval)

RefreshSkip(c) ==
    /\ pc[c] = "refresh"
    /\ Discovery => devicesMtx = Nobody
    /\ ~Due \/ discovering
    /\ Goto(c, "copy")
    /\ UNCHANGED <<keepMissing, now, registryVars, snapshotVars, roundVars, sweepVars,
                   deviceVars>>

(* Fault: the first sweep is detached like the later ones.                 *)
RefreshFirstDetached(c) ==
    /\ pc[c] = "refresh"
    /\ devicesMtx = Nobody
    /\ Due /\ ~discovering
    /\ lastDiscovery = Never
    /\ discovering' = TRUE
    /\ \E s \in Sweepers : pc' = [pc EXCEPT ![c] = "copy", ![s] = "discover"]
    /\ UNCHANGED <<keepMissing, now, devices, lastDiscovery, devicesMtx, snapshotVars,
                   roundVars, sweepVars, deviceVars>>

RefreshFirst(c) ==
    /\ pc[c] = "refresh"
    /\ devicesMtx = Nobody
    /\ Due /\ ~discovering
    /\ lastDiscovery = Never
    /\ discovering' = TRUE
    /\ Goto(c, "discover")
    /\ UNCHANGED <<keepMissing, now, devices, lastDiscovery, devicesMtx, snapshotVars,
                   roundVars, sweepVars, deviceVars>>

(* Fault: a sweep is started although one is under way.                    *)
RefreshBackgroundOverlap(c, s) ==
    /\ pc[c] = "refresh"
    /\ devicesMtx = Nobody
    /\ Due
    /\ lastDiscovery # Never
    /\ pc[s] = "idle"
    /\ discovering' = TRUE
    /\ pc' = [pc EXCEPT ![c] = "copy", ![s] = "discover"]
    /\ UNCHANGED <<keepMissing, now, devices, lastDiscovery, devicesMtx, snapshotVars,
                   roundVars, sweepVars, deviceVars>>

RefreshBackground(c, s) ==
    /\ pc[c] = "refresh"
    /\ devicesMtx = Nobody
    /\ Due /\ ~discovering
    /\ lastDiscovery # Never
    /\ pc[s] = "idle"
    /\ discovering' = TRUE
    /\ pc' = [pc EXCEPT ![c] = "copy", ![s] = "discover"]
    /\ UNCHANGED <<keepMissing, now, devices, lastDiscovery, devicesMtx, snapshotVars,
                   roundVars, sweepVars, deviceVars>>

-----------------------------------------------------------------------------
(* runDiscovery, in a caller or in a background goroutine.                 *)

(* Discover returns a Device for every host that answered.                 *)
DiscoverAnswered(t) ==
    /\ pc[t] = "discover"
    /\ \E answered \in SUBSET Hosts :
           found' = [found EXCEPT ![t] = answered \X {now}]
    /\ Goto(t, "reconcile")
    /\ UNCHANGED <<keepMissing, now, registryVars, snapshotVars, roundVars, gone,
                   deviceVars>>

(* Fault: the error return of runDiscovery skips the reset.                *)
DiscoverFailedBusy(t) ==
    /\ pc[t] = "discover"
    /\ Goto(t, IF t \in Callers THEN "copy" ELSE "idle")
    /\ UNCHANGED <<keepMissing, now, registryVars, snapshotVars, roundVars, sweepVars,
                   deviceVars>>

(* Fault: a failed sweep does not record the time.                         *)
DiscoverFailedUntimed(t) ==
    /\ pc[t] = "discover"
    /\ discovering' = FALSE
    /\ Goto(t, IF t \in Callers THEN "copy" ELSE "idle")
    /\ UNCHANGED <<keepMissing, now, devices, lastDiscovery, devicesMtx, snapshotVars,
                   roundVars, sweepVars, deviceVars>>

(* Discover fails: nothing is reconciled, the deferred reset still runs.   *)
DiscoverFailed(t) ==
    /\ pc[t] = "discover"
    /\ Goto(t, "finish")
    /\ UNCHANGED <<keepMissing, now, registryVars, snapshotVars, roundVars, sweepVars,
                   deviceVars>>

(* Fault: every sweep replaces the Devices it finds.                       *)
MergedReplaced(built) ==
    [h \in Hosts |-> IF \E d \in built : HostOf(d) = h
                     THEN CHOOSE d \in built : HostOf(d) = h
                     ELSE devices[h]]

(* A known host keeps the Device it has.                                   *)
Merged(built) ==
    [h \in Hosts |-> IF devices[h] = Nobody /\ \E d \in built : HostOf(d) = h
                     THEN CHOOSE d \in built : HostOf(d) = h
                     ELSE devices[h]]

(* Fault: a configured host is dropped like any other.                     *)
MissingManual(built, fleet) ==
    {d \in Devs : /\ fleet[HostOf(d)] = d
                  /\ ~keepMissing
                  /\ \A b \in built : HostOf(b) # HostOf(d)}

(* Fault: KeepMissing is ignored.                                          *)
MissingAlways(built, fleet) ==
    {d \in Devs : /\ fleet[HostOf(d)] = d
                  /\ HostOf(d) \notin Manual
                  /\ \A b \in built : HostOf(b) # HostOf(d)}

(* What the second loop of reconcile drops.                                *)
Missing(built, fleet) ==
    {d \in Devs : /\ fleet[HostOf(d)] = d
                  /\ ~keepMissing
                  /\ HostOf(d) \notin Manual
                  /\ \A b \in built : HostOf(b) # HostOf(d)}

(* reconcile takes devicesMtx and adds what is new.                        *)
Reconcile(t) ==
    /\ pc[t] = "reconcile"
    /\ devicesMtx = Nobody
    /\ devicesMtx' = t
    /\ devices' = Merged(found[t])
    /\ gone' = [gone EXCEPT ![t] = Missing(found[t], Merged(found[t]))]
    /\ found' = [found EXCEPT ![t] = {}]
    /\ Goto(t, "drop")
    /\ UNCHANGED <<keepMissing, now, lastDiscovery, discovering, snapshotVars,
                   roundVars, deviceVars>>

(* It closes each missing Device, which waits for a Read of it that is in  *)
(* flight, and deletes it ...                                              *)
DropMissing(t, d) ==
    /\ pc[t] = "drop"
    /\ d \in gone[t]
    /\ mu[d] = Nobody
    /\ open' = open \ {d}
    /\ devices' = [devices EXCEPT ![HostOf(d)] = Nobody]
    /\ Goto(t, "log")
    /\ UNCHANGED <<keepMissing, now, lastDiscovery, discovering, devicesMtx,
                   snapshotVars, roundVars, sweepVars, mu>>

(* ... and asks for its Alias, for the log, which takes mu once more.      *)
LogDropped(t, d) ==
    /\ pc[t] = "log"
    /\ d \in gone[t] /\ ~InFleet(d)
    /\ mu[d] = Nobody
    /\ gone' = [gone EXCEPT ![t] = @ \ {d}]
    /\ Goto(t, "drop")
    /\ UNCHANGED <<keepMissing, now, registryVars, snapshotVars, roundVars, found,
                   deviceVars>>

(* Fault: reconcile returns without unlocking.                             *)
ReconcileDoneLocked(t) ==
    /\ pc[t] = "drop"
    /\ gone[t] = {}
    /\ Goto(t, "finish")
    /\ UNCHANGED <<keepMissing, now, registryVars, snapshotVars, roundVars, sweepVars,
                   deviceVars>>

ReconcileDone(t) ==
    /\ pc[t] = "drop"
    /\ gone[t] = {}
    /\ devicesMtx' = Nobody
    /\ Goto(t, "finish")
    /\ UNCHANGED <<keepMissing, now, devices, lastDiscovery, discovering, snapshotVars,
                   roundVars, sweepVars, deviceVars>>

(* Fault: the time of the next sweep is kept where the last one's belongs. *)
FinishDiscoveryAhead(t) ==
    /\ pc[t] = "finish"
    /\ devicesMtx = Nobody
    /\ discovering' = FALSE
    /\ lastDiscovery' = now + DiscoveryInterval
    /\ Goto(t, IF t \in Callers THEN "copy" ELSE "idle")
    /\ UNCHANGED <<keepMissing, now, devices, devicesMtx, snapshotVars, roundVars,
                   sweepVars, deviceVars>>

(* The deferred function: a failed sweep records the time as well.  The    *)
(* caller of a first sweep goes on to readAll, a background one ends.      *)
FinishDiscovery(t) ==
    /\ pc[t] = "finish"
    /\ devicesMtx = Nobody
    /\ discovering' = FALSE
    /\ lastDiscovery' = now
    /\ Goto(t, IF t \in Callers THEN "copy" ELSE "idle")
    /\ UNCHANGED <<keepMissing, now, devices, devicesMtx, snapshotVars, roundVars,
                   sweepVars, deviceVars>>

-----------------------------------------------------------------------------
(* readAll.                                                                *)

(* Copy the Devices under devicesMtx, then one goroutine for each.         *)
ReadAll(c) ==
    /\ pc[c] = "copy"
    /\ devicesMtx = Nobody
    /\ reader' = [reader EXCEPT ![c] =
                      [d \in Devs |-> IF InFleet(d) THEN "queued" ELSE "none"]]
    /\ Goto(c, "wait")
    /\ UNCHANGED <<keepMissing, now, registryVars, snapshotVars, results, sweepVars,
                   deviceVars>>

InSlot(c) == {d \in Devs : reader[c][d] \in SlotPhases}

(* limit <- struct{}{}                                                     *)
AcquireSlot(c, d) ==
    /\ reader[c][d] = "queued"
    /\ Cardinality(InSlot(c)) < Concurrency
    /\ reader' = [reader EXCEPT ![c][d] = "slot"]
    /\ UNCHANGED <<keepMissing, now, pc, registryVars, snapshotVars, results, sweepVars,
                   deviceVars>>

(* Device.Read takes mu and talks to the device.                           *)
BeginRead(c, d) ==
    /\ reader[c][d] = "slot"
    /\ mu[d] = Nobody
    /\ mu' = [mu EXCEPT ![d] = c]
    /\ reader' = [reader EXCEPT ![c][d] = "reading"]
    /\ UNCHANGED <<keepMissing, now, pc, registryVars, snapshotVars, results, sweepVars,
                   open>>

(* Device.Read returns: a reading leaves the connection open for the next  *)
(* scrape, an error (of negotiate or of the querier) leaves none.          *)
EndRead(c, d, up) ==
    /\ reader[c][d] = "reading"
    /\ mu' = [mu EXCEPT ![d] = Nobody]
    /\ open' = IF up THEN open \cup {d} ELSE open \ {d}
    /\ results' = [results EXCEPT ![c][d] = IF up THEN "up" ELSE "down"]
    /\ reader' = [reader EXCEPT ![c][d] = "read"]
    /\ UNCHANGED <<keepMissing, now, pc, registryVars, snapshotVars, sweepVars>>

(* Alias and Type take mu for the Result; then the slot is given back.     *)
EndReader(c, d) ==
    /\ reader[c][d] = "read"
    /\ mu[d] = Nobody
    /\ reader' = [reader EXCEPT ![c][d] = "done"]
    /\ UNCHANGED <<keepMissing, now, pc, registryVars, snapshotVars, results, sweepVars,
                   deviceVars>>

-----------------------------------------------------------------------------
(* Close: under devicesMtx, close every Device of the fleet.               *)

Close(t) ==
    /\ pc[t] = "idle"
    /\ devicesMtx = Nobody
    /\ devicesMtx' = t
    /\ gone' = [gone EXCEPT ![t] = Fleet]
    /\ Goto(t, "close")
    /\ UNCHANGED <<keepMissing, now, devices, lastDiscovery, discovering, snapshotVars,
                   roundVars, found, deviceVars>>

CloseDevice(t, d) ==
    /\ pc[t] = "close"
    /\ d \in gone[t]
    /\ mu[d] = Nobody
    /\ open' = open \ {d}
    /\ gone' = [gone EXCEPT ![t] = @ \ {d}]
    /\ UNCHANGED <<keepMissing, now, pc, registryVars, snapshotVars, roundVars, found,
                   mu>>

CloseDone(t) ==
    /\ pc[t] = "close"
    /\ gone[t] = {}
    /\ devicesMtx' = Nobody
    /\ Goto(t, "idle")
    /\ UNCHANGED <<keepMissing, now, devices, lastDiscovery, discovering, snapshotVars,
                   roundVars, sweepVars, deviceVars>>

-----------------------------------------------------------------------------
Tick ==
    /\ now < MaxTime
    /\ now' = now + 1
    /\ UNCHANGED <<keepMissing, pc, registryVars, snapshotVars, roundVars, sweepVars,
                   deviceVars>>

Snapshot(c) ==
    \/ SnapshotHit(c) \/ SnapshotMiss(c) \/ SnapshotStore(c)
    \/ RefreshSkip(c) \/ RefreshFirst(c)
    \/ \E s \in Sweepers : RefreshBackground(c, s)
    \/ ReadAll(c)

Sweep(t) ==
    \/ DiscoverAnswered(t) \/ DiscoverFailed(t)
    \/ Reconcile(t) \/ ReconcileDone(t) \/ FinishDiscovery(t)
    \/ \E d \in Devs : DropMissing(t, d) \/ LogDropped(t, d)

Reader(c, d) ==
    \/ AcquireSlot(c, d) \/ BeginRead(c, d) \/ EndReader(c, d)
    \/ \E up \in BOOLEAN : EndRead(c, d, up)

Closing(t) == CloseDone(t) \/ \E d \in Devs : CloseDevice(t, d)

Next ==
    \/ Tick
    \/ \E c \in Callers : Call(c) \/ Snapshot(c)
    \/ \E t \in Callers \cup Sweepers : Sweep(t)
    \/ \E c \in Callers, d \in Devs : Reader(c, d)
    \/ \E t \in Closers : Close(t) \/ Closing(t)

(* A goroutine that can run does: weak fairness.  snapshotMtx is contended *)
(* by every collector of every scrape, and a Go mutex hands itself to a    *)
(* waiter it has starved: strong fairness.  Nothing makes a collector call *)
(* Snapshot, or the clock advance.                                         *)
Fairness ==
    /\ \A c \in Callers : SF_vars(SnapshotHit(c) \/ SnapshotMiss(c))
    /\ \A c \in Callers : WF_vars(Snapshot(c))
    /\ \A t \in Callers \cup Sweepers : WF_vars(Sweep(t))
    /\ \A c \in Callers, d \in Devs : WF_vars(Reader(c, d))
    /\ \A t \in Closers : WF_vars(Closing(t))

Spec     == Init /\ [][Next]_vars
LiveSpec == Spec /\ Fairness

-----------------------------------------------------------------------------
(* Safety.                                                                 *)

Sweeping(t) == pc[t] \in SweepPCs

(* Sweeps never overlap, and Registry.discovering says exactly whether one *)
(* is under way: refreshDevices claims the sweep under devicesMtx, long    *)
(* before the goroutine it starts runs (registry.go, refreshDevices).      *)
OneSweep ==
    /\ \A t, u \in Threads : Sweeping(t) /\ Sweeping(u) => t = u
    /\ discovering <=> \E t \in Threads : Sweeping(t)

BeingRead == {d \in Devs : \E c \in Callers : d \in InSlot(c)}

(* However many collectors and scrapes call Snapshot, no more than         *)
(* Concurrency devices are talked to at once and no address is read twice  *)
(* at once, though the semaphore of readAll belongs to one round and       *)
(* Device.mu to one Device object.                                         *)
ReadsBounded ==
    /\ Cardinality(BeingRead) <= Concurrency
    /\ \A b, c \in Callers : \A d \in InSlot(b), e \in InSlot(c) :
           HostOf(d) = HostOf(e) => b = c /\ d = e

(* A sweep that holds devicesMtx may wait in Device.Close for a slow read. *)
(* It never does so while a scrape waits for devicesMtx: README, Finding   *)
(* devices, "a scrape never waits on it after the first one".              *)
ScrapeNeverWaitsOnRead ==
    \A c \in Callers, t \in Threads :
        pc[c] \in {"refresh", "copy"} /\ devicesMtx = t
            => \A d \in gone[t] : mu[d] = Nobody

(* Only the very first round sweeps inline; a sweep that failed is not     *)
(* tried again by the next scrape (registry.go, runDiscovery).             *)
OnlyFirstRoundSweepsInline ==
    \A c \in Callers : Sweeping(c) => snapshot = NilSnapshot

(* With discovery on, no snapshot is published before a sweep has ended:   *)
(* the exporter's first output is not an empty fleet (refreshDevices).     *)
FirstSnapshotSwept ==
    Discovery /\ snapshot # NilSnapshot => lastDiscovery # Never

(* Every snapshot reports every configured address, up or down, whether or *)
(* not it answers discovery (Options.Hosts; Result).                       *)
ManualReported ==
    snapshot # NilSnapshot =>
        \A h \in Manual : snapshot[<<h, 0>>] \in {"up", "down"}

ReportedHosts(s) == {h \in Hosts : \E d \in Devs : HostOf(d) = h /\ s[d] \in {"up", "down"}}

(* With KeepMissing a device that was ever reported is reported by every   *)
(* later snapshot (Options.KeepMissing).                                   *)
NeverVanishes ==
    [][keepMissing => ReportedHosts(snapshot) \subseteq ReportedHosts(snapshot')]_vars

Unread(d) == \A c \in Callers : reader[c][d] \notin {"reading", "read", "done"}

(* A device that answered keeps the session it answered on until it is     *)
(* read again: a sweep that finds it anew does not throw the handshake     *)
(* away (reconcile; Device).                                               *)
SessionKept ==
    keepMissing /\ Closers = {} =>
        \A h \in ReportedHosts(snapshot) :
            /\ devices[h] # Nobody
            /\ snapshot[devices[h]] = "up" /\ Unread(devices[h]) => devices[h] \in open
            /\ snapshot[devices[h]] # "absent"

-----------------------------------------------------------------------------
(* Liveness, under LiveSpec.                                               *)

(* Every call of Snapshot returns: neither a slow device nor a sweep that  *)
(* drops it can hold the three mutexes against each other for ever.        *)
SnapshotReturns == \A c \in Callers : pc[c] = "want" ~> pc[c] = "idle"

(* Every sweep ends, on every path, so a later one can run.                *)
SweepEnds == discovering ~> ~discovering

-----------------------------------------------------------------------------
(* The registry implements FleetView: to the collectors a round is atomic. *)

InRound(c) == pc[c] = "wait"

RoundDevices ==
    IF \E c \in Callers : InRound(c)
    THEN {d \in Devs : \E c \in Callers : InRound(c) /\ reader[c][d] # "none"}
    ELSE {Nobody}

View == INSTANCE FleetView WITH
    Devices <- Devs,
    Pinned <- Manual \X {0},
    NoView <- NilSnapshot,
    NoRound <- {Nobody},
    mayShrink <- ~keepMissing,
    fleet <- Fleet,
    round <- RoundDevices,
    view <- snapshot

(* Rounds never overlap, a round reads the fleet of the moment it began,   *)
(* and a snapshot is replaced as a whole by one report for each device of  *)
(* that fleet, failed or not (Snapshot, readAll, reconcile).               *)
ImplementsFleetView == View!Spec
=============================================================================
