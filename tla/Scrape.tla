------------------------------- MODULE Scrape -------------------------------
(***************************************************************************)
(* A scrape from end to end: handler.ServeHTTP (kasa_exporter.go) chooses  *)
(* the collectors, KasaCollector.Collect (collector/collector.go) runs     *)
(* them concurrently, and each takes a snapshot from the registry.         *)
(*                                                                         *)
(* A Caller of the registry is now the goroutine <<r, n>> that runs the    *)
(* collector n for the request r.  A request slot serves one scrape after  *)
(* another, so Requests bounds how many are in flight, not how many there  *)
(* are.  Sequence numbers of rounds are history: they say which round a    *)
(* collector's snapshot came from.                                         *)
(***************************************************************************)
EXTENDS Registry

CONSTANTS
    Requests,       \* the scrapes that can be in flight at once
    Names,          \* the registered collectors
    Enabled,        \* the enabled ones
    MaxRequests     \* --web.max-requests, 0 for no limit

ASSUME ScrapeAssumption ==
    /\ Callers = Requests \X Names
    /\ Enabled \subseteq Names
    /\ Enabled # {}
    /\ MaxRequests \in Nat
    /\ CacheTTL # 0
    /\ Hosts # {}

VARIABLES
    phase,          \* what became of each request
    collects,       \* its collect[] parameters
    excludes,       \* its exclude[] parameters
    began,          \* when it began to collect
    round,          \* how many rounds of reads were published
    begun,          \* for each request, the rounds begun since it began
    seen            \* the round each collector's snapshot came from, 0 for none

requestVars == <<phase, collects, excludes, began>>
scrapeVars  == <<requestVars, round, begun, seen>>
allVars     == <<vars, scrapeVars>>

ScrapeTypeOK ==
    /\ phase \in [Requests -> {"free", "collecting", "served", "rejected", "busy"}]
    /\ collects \in [Requests -> SUBSET Names]
    /\ excludes \in [Requests -> SUBSET Names]
    /\ began \in [Requests -> 0 .. MaxTime]
    /\ round \in 0 .. MaxTime + 1
    /\ begun \in [Requests -> 0 .. MaxTime + 1]
    /\ seen \in [Callers -> 0 .. MaxTime + 1]

ScrapeInit ==
    /\ Init
    /\ phase = [r \in Requests |-> "free"]
    /\ collects = [r \in Requests |-> {}]
    /\ excludes = [r \in Requests |-> {}]
    /\ began = [r \in Requests |-> 0]
    /\ round = 0
    /\ begun = [r \in Requests |-> 0]
    /\ seen = [c \in Callers |-> 0]

RequestOf(c) == c[1]
Goroutines(r) == {c \in Callers : RequestOf(c) = r}

-----------------------------------------------------------------------------
(* ServeHTTP.                                                              *)

(* exclude[] is turned into a list of the collectors to keep.              *)
Filters(wanted, unwanted) == IF unwanted = {} THEN wanted ELSE Enabled \ unwanted

(* NewKasaCollector: no filter at all means every enabled collector.       *)
Selected(filters) == IF filters = {} THEN Enabled ELSE filters

(* Fault: the case in which nothing is left to collect falls through.      *)
BadRequestFallsThrough(wanted, unwanted) ==
    \/ wanted # {} /\ unwanted # {}
    \/ ~(Filters(wanted, unwanted) \subseteq Enabled)

(* Both parameters; everything excluded; a name that is missing or         *)
(* disabled: 400.                                                          *)
BadRequest(wanted, unwanted) ==
    \/ wanted # {} /\ unwanted # {}
    \/ unwanted # {} /\ Filters(wanted, unwanted) = {}
    \/ ~(Filters(wanted, unwanted) \subseteq Enabled)

Unfiltered(r) == collects[r] = {} /\ excludes[r] = {}

(* promhttp counts the requests of one handler.  The unfiltered handler is *)
(* built once; a filtered one is built for its request alone, so the limit *)
(* it counts towards is its own.                                           *)
HandlerFull(wanted, unwanted) ==
    /\ MaxRequests > 0
    /\ wanted = {} /\ unwanted = {}
    /\ Cardinality({r \in Requests : phase[r] = "collecting" /\ Unfiltered(r)})
           >= MaxRequests

(* 400 or 503: nothing is collected.                                       *)
Refuse(r, status) ==
    /\ phase' = [phase EXCEPT ![r] = status]
    /\ UNCHANGED <<vars, collects, excludes, began, round, begun, seen>>

ServeRejected(r, wanted, unwanted) ==
    /\ phase[r] = "free"
    /\ BadRequest(wanted, unwanted)
    /\ Refuse(r, "rejected")

ServeBusy(r, wanted, unwanted) ==
    /\ phase[r] = "free"
    /\ ~BadRequest(wanted, unwanted)
    /\ HandlerFull(wanted, unwanted)
    /\ Refuse(r, "busy")

(* Collect starts one goroutine for each selected collector, and each      *)
(* calls Snapshot first thing.                                             *)
ServeCollect(r, wanted, unwanted) ==
    /\ phase[r] = "free"
    /\ ~BadRequest(wanted, unwanted)
    /\ ~HandlerFull(wanted, unwanted)
    /\ phase' = [phase EXCEPT ![r] = "collecting"]
    /\ collects' = [collects EXCEPT ![r] = wanted]
    /\ excludes' = [excludes EXCEPT ![r] = unwanted]
    /\ pc' = [t \in Threads |->
                  IF t \in {r} \X Selected(Filters(wanted, unwanted)) THEN "want" ELSE pc[t]]
    /\ began' = [began EXCEPT ![r] = now]
    /\ begun' = [begun EXCEPT ![r] = 0]
    /\ seen' = [c \in Callers |-> IF RequestOf(c) = r THEN 0 ELSE seen[c]]
    /\ UNCHANGED <<keepMissing, now, registryVars, snapshotVars, roundVars, sweepVars,
                   deviceVars, round>>

(* wg.Wait has returned: the response is written.                          *)
Respond(r) ==
    /\ phase[r] = "collecting"
    /\ \A c \in Goroutines(r) : pc[c] = "idle"
    /\ phase' = [phase EXCEPT ![r] = "served"]
    /\ UNCHANGED <<vars, collects, excludes, began, round, begun, seen>>

(* The client is gone; the next scrape may come.                           *)
Release(r) ==
    /\ phase[r] \in {"served", "rejected", "busy"}
    /\ phase' = [phase EXCEPT ![r] = "free"]
    /\ collects' = [collects EXCEPT ![r] = {}]
    /\ excludes' = [excludes EXCEPT ![r] = {}]
    /\ began' = [began EXCEPT ![r] = 0]
    /\ begun' = [begun EXCEPT ![r] = 0]
    /\ seen' = [c \in Callers |-> IF RequestOf(c) = r THEN 0 ELSE seen[c]]
    /\ UNCHANGED <<vars, round>>

-----------------------------------------------------------------------------
(* Snapshot, with the history of rounds.                                   *)

Hit(c) ==
    /\ SnapshotHit(c)
    /\ seen' = [seen EXCEPT ![c] = round]
    /\ UNCHANGED <<requestVars, round, begun>>

Miss(c) ==
    /\ SnapshotMiss(c)
    /\ begun' = [r \in Requests |->
                     IF phase[r] = "collecting" THEN begun[r] + 1 ELSE begun[r]]
    /\ UNCHANGED <<requestVars, round, seen>>

(* Fault: the snapshot keeps the time stamp of the one it replaces.        *)
StoreUnstamped(c) ==
    /\ pc[c] = "wait"
    /\ \A d \in Devs : reader[c][d] \in {"none", "done"}
    /\ snapshot' = results[c]
    /\ snapshotTime' = IF snapshotTime = Never THEN now ELSE snapshotTime
    /\ snapshotMtx' = Nobody
    /\ reader' = [reader EXCEPT ![c] = [d \in Devs |-> "none"]]
    /\ results' = [results EXCEPT ![c] = [d \in Devs |-> "absent"]]
    /\ Goto(c, "idle")
    /\ round' = round + 1
    /\ seen' = [seen EXCEPT ![c] = round + 1]
    /\ UNCHANGED <<keepMissing, now, registryVars, sweepVars, deviceVars, requestVars,
                   begun>>

Store(c) ==
    /\ SnapshotStore(c)
    /\ round' = round + 1
    /\ seen' = [seen EXCEPT ![c] = round + 1]
    /\ UNCHANGED <<requestVars, begun>>

(* The registry's other steps, and the clock.                              *)
Background ==
    /\ \/ Tick
       \/ \E c \in Callers : RefreshSkip(c) \/ RefreshFirst(c) \/ ReadAll(c)
       \/ \E c \in Callers, s \in Sweepers : RefreshBackground(c, s)
       \/ \E t \in Callers \cup Sweepers : Sweep(t)
       \/ \E c \in Callers, d \in Devs : Reader(c, d)
    /\ UNCHANGED scrapeVars

ScrapeNext ==
    \/ \E r \in Requests, wanted, unwanted \in SUBSET Names :
           \/ ServeRejected(r, wanted, unwanted)
           \/ ServeBusy(r, wanted, unwanted)
           \/ ServeCollect(r, wanted, unwanted)
    \/ \E r \in Requests : Respond(r) \/ Release(r)
    \/ \E c \in Callers : Hit(c) \/ Miss(c) \/ Store(c)
    \/ Background

ScrapeSpec == ScrapeInit /\ [][ScrapeNext]_allVars

-----------------------------------------------------------------------------
(* However many collectors a scrape runs and however many scrapes overlap  *)
(* it, the fleet is queried once, and once more for every CacheTTL the     *)
(* scrape lasts (Snapshot; collector.Collect, "the scrape's single round   *)
(* of queries").                                                           *)
QueriesBounded ==
    \A r \in Requests : phase[r] = "collecting" =>
        begun[r] <= 1 + (now - began[r]) \div CacheTTL

(* Every collector of a scrape that is answered was given a snapshot, and  *)
(* only collectors that are enabled and were asked for ran (ServeHTTP,     *)
(* "the exact inverse of what was asked").                                 *)
RanAsAsked ==
    \A r \in Requests : phase[r] = "served" =>
        LET ran == {n \in Names : seen[<<r, n>>] # 0} IN
        /\ ran # {}
        /\ ran \subseteq Enabled \ excludes[r]
        /\ IF collects[r] = {} THEN Enabled \ excludes[r] \subseteq ran
                               ELSE ran = collects[r]

(* docs/architecture.md, Key properties: "One query per device per scrape: *)
(* the collectors share the registry's snapshot, and the cache TTL keeps a *)
(* scrape that runs every collector from querying the fleet more than      *)
(* once".  All the collectors of one scrape report from the same round.    *)
OneRoundPerScrape ==
    \A b, c \in Callers :
        RequestOf(b) = RequestOf(c) /\ seen[b] # 0 /\ seen[c] # 0 => seen[b] = seen[c]

(* docs/architecture.md, Metrics handler: "--web.max-requests limits       *)
(* parallel scrapes".                                                      *)
ParallelScrapesLimited ==
    MaxRequests > 0 =>
        Cardinality({r \in Requests : phase[r] = "collecting"}) <= MaxRequests
=============================================================================
