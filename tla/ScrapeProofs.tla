---------------------------- MODULE ScrapeProofs ----------------------------
(***************************************************************************)
(* What TLAPS proves of a scrape for any number of overlapping requests,   *)
(* collectors, addresses and any cache TTL: see README.md.                 *)
(***************************************************************************)
EXTENDS Scrape, RegistryProofs

-----------------------------------------------------------------------------
(* The registry below the collectors.  A request wakes several of them at  *)
(* once, which is no step of the registry alone; every other step of a     *)
(* scrape is one, or leaves the registry be.                               *)

RegistryInv == IndInv /\ RefInv

Idle(r) == \A n \in Names : pc[<<r, n>>] = "idle"

(* The goroutine of a collector belongs to one request.                    *)
LEMMA CallerFacts ==
    /\ \A r \in Requests, n \in Names : <<r, n>> \in Callers /\ RequestOf(<<r, n>>) = r
    /\ \A c \in Callers : RequestOf(c) \in Requests /\ c[2] \in Names
    /\ \A c \in Callers : c = <<RequestOf(c), c[2]>>
  BY ScrapeAssumption DEF RequestOf

(* A request that is let in starts only registered collectors.             *)
LEMMA SelectedNames ==
    ASSUME NEW wanted \in SUBSET Names, NEW unwanted \in SUBSET Names
    PROVE  Selected(Filters(wanted, unwanted)) \in SUBSET Names
  BY ScrapeAssumption DEF Selected, Filters

(* Waking the collectors of a request: none of them was in the registry,   *)
(* and now each of them is about to take snapshotMtx.                      *)
LEMMA WokenPCs ==
    ASSUME TypeOK, NEW r \in Requests, Idle(r),
           NEW wanted \in SUBSET Names, NEW unwanted \in SUBSET Names,
           ServeCollect(r, wanted, unwanted)
    PROVE  /\ pc' \in [Threads -> PCs]
           /\ \A t \in Threads : \/ pc'[t] = pc[t]
                                 \/ t \in Callers /\ pc[t] = "idle" /\ pc'[t] = "want"
           /\ UNCHANGED <<keepMissing, now, registryVars, snapshotVars, roundVars,
                          sweepVars, deviceVars>>
<1>1. {r} \X Selected(Filters(wanted, unwanted)) \subseteq {r} \X Names
  BY SelectedNames
<1>2. \A t \in {r} \X Names : t \in Callers /\ t \in Threads /\ pc[t] = "idle"
  BY CallerFacts DEF Idle, Threads
<1>3. \A t \in Threads : pc'[t] = IF t \in {r} \X Selected(Filters(wanted, unwanted))
                                  THEN "want" ELSE pc[t]
  BY DEF ServeCollect
<1>4. pc' \in [Threads -> PCs]
  BY DEF ServeCollect, TypeOK, PCs
<1>5. QED
  BY <1>1, <1>2, <1>3, <1>4 DEF ServeCollect

(* It disturbs nothing the registry relies on.                             *)
LEMMA Woken ==
    ASSUME RegistryInv, NEW r \in Requests, Idle(r),
           NEW wanted \in SUBSET Names, NEW unwanted \in SUBSET Names,
           ServeCollect(r, wanted, unwanted)
    PROVE  RegistryInv'
<1> USE DEF registryVars, snapshotVars, roundVars, sweepVars, deviceVars
<1>1. TypeOK
  BY DEF RegistryInv, IndInv
<1>2. /\ pc' \in [Threads -> PCs]
      /\ \A t \in Threads : \/ pc'[t] = pc[t]
                            \/ t \in Callers /\ pc[t] = "idle" /\ pc'[t] = "want"
      /\ UNCHANGED <<keepMissing, now, registryVars, snapshotVars, roundVars,
                     sweepVars, deviceVars>>
  BY <1>1, WokenPCs
<1>3. TypeOK'
  BY <1>1, <1>2 DEF TypeOK
<1>4. PCInv'
  BY <1>2, RegistryAssumption DEF RegistryInv, IndInv, PCInv, Threads, SweepPCs
<1>5. RoundInv'
  BY <1>2 DEF RegistryInv, IndInv, RoundInv, Threads, RoundPCs, SweepPCs
<1>6. SweepInv'
  <2>1. \A t \in Threads : Sweeping(t)' <=> Sweeping(t)
    BY <1>2 DEF Sweeping, SweepPCs
  <2>2. OneSweep'
    BY <1>2, <2>1 DEF RegistryInv, IndInv, SweepInv, OneSweep
  <2>3. FirstSnapshotSwept'
    BY <1>2 DEF RegistryInv, IndInv, SweepInv, FirstSnapshotSwept
  <2>4. QED
    BY <1>2, <2>1, <2>2, <2>3 DEF RegistryInv, IndInv, SweepInv, Threads
<1>7. ManualInv'
  BY <1>2 DEF RegistryInv, IndInv, ManualInv, ManualReported, Threads
<1>8. SlotInv'
  BY <1>2 DEF RegistryInv, IndInv, SlotInv, InSlot
<1>9. RefInv'
  BY <1>2 DEF RegistryInv, RefInv, InFleet, Threads
<1>10. QED
  BY <1>3, <1>4, <1>5, <1>6, <1>7, <1>8, <1>9 DEF RegistryInv, IndInv

(* Every other step of a scrape is a step of the registry or none.         *)
LEMMA RegistryStep ==
    ASSUME \/ \E c \in Callers : Hit(c) \/ Miss(c) \/ Store(c)
           \/ Background
           \/ UNCHANGED vars
    PROVE  [Next]_vars
  BY DEF Hit, Miss, Store, Background, Next, Snapshot

(* ... and keeps what the registry relies on.                              *)
LEMMA RegistryKept ==
    ASSUME RegistryInv, [Next]_vars
    PROVE  RegistryInv'
<1>1. IndInv'
  BY TypeStep, PCStep, RoundStep, SweepStep, ManualStep, SlotStep DEF RegistryInv, IndInv
<1>2. RefInv'
  BY RefStep DEF RegistryInv
<1>3. QED
  BY <1>1, <1>2 DEF RegistryInv

-----------------------------------------------------------------------------
(* What a request has of its collectors: the goroutines it started are in  *)
(* the registry until they have a snapshot, and there are no others.       *)

Wanted(r) == Selected(Filters(collects[r], excludes[r]))

Asked(r) ==
    /\ ~BadRequest(collects[r], excludes[r])
    /\ \A n \in Names :
           IF n \in Wanted(r) THEN pc[<<r, n>>] # "idle" \/ seen[<<r, n>>] # 0
                              ELSE pc[<<r, n>>] = "idle" /\ seen[<<r, n>>] = 0

AskInv ==
    /\ \A r \in Requests : phase[r] # "collecting" => Idle(r)
    /\ \A r \in Requests : phase[r] \in {"collecting", "served"} => Asked(r)
    /\ snapshot # NilSnapshot => round # 0

(* The pace of the rounds: a snapshot is at most as old as the clock, and  *)
(* a scrape has begun a round more than a cache TTL after every other one  *)
(* it has begun.                                                           *)

LastRead == IF snapshotMtx = Nobody THEN snapshotTime ELSE now

Paced(r) == began[r] + (begun[r] - 1) * CacheTTL <= LastRead

PaceInv ==
    /\ snapshot = NilSnapshot => snapshotTime = Never /\ round = 0
    /\ snapshotTime <= now
    /\ \A c \in Callers : seen[c] <= round
    /\ round # 0 => round - (IF snapshotMtx = Nobody THEN 1 ELSE 0) <= LastRead
    /\ \A r \in Requests : phase[r] = "collecting" =>
           began[r] <= now /\ (begun[r] # 0 => Paced(r))

ScrapeInv == RegistryInv /\ ScrapeTypeOK /\ AskInv /\ PaceInv

(* No request, no round and no snapshot at first.                          *)
LEMMA ScrapeInvInit == ScrapeInit => ScrapeInv
<1> SUFFICES ASSUME ScrapeInit PROVE ScrapeInv
  OBVIOUS
<1>1. Init
  BY DEF ScrapeInit
<1>2. RegistryInv
  BY <1>1, TypeInit, PCInit, RoundInit, SweepInit, ManualInit, SlotInit, RefInit
     DEF RegistryInv, IndInv
<1>3. ScrapeTypeOK
  BY RegistryAssumption DEF ScrapeInit, ScrapeTypeOK
<1>4. AskInv
  BY <1>1, CallerFacts DEF ScrapeInit, Init, AskInv, Idle, Threads
<1>5. PaceInv
  BY <1>1, RegistryAssumption DEF ScrapeInit, Init, PaceInv, Never
<1>6. QED
  BY <1>2, <1>3, <1>4, <1>5 DEF ScrapeInv

(* A request that is refused, answered or released touches no collector.   *)
LEMMA PassiveKept ==
    ASSUME ScrapeInv, NEW r \in Requests, NEW status,
           status \in {"free", "served", "rejected", "busy"},
           phase' = [phase EXCEPT ![r] = status],
           UNCHANGED <<vars, round>>, ScrapeTypeOK',
           \A c \in Callers : seen'[c] \in {0, seen[c]},
           \A q \in Requests \ {r} :
               /\ UNCHANGED <<collects[q], excludes[q], began[q], begun[q]>>
               /\ \A n \in Names : UNCHANGED seen[<<q, n>>],
           Idle(r),
           status = "served" => Asked(r) /\ UNCHANGED <<collects, excludes, seen>>
    PROVE  ScrapeInv'
<1>1. UNCHANGED <<pc, now, snapshot, snapshotTime, snapshotMtx>>
  BY DEF vars, snapshotVars
<1>2. RegistryInv'
  BY RegistryKept DEF ScrapeInv
<1>3. \A q \in Requests : phase'[q] = IF q = r THEN status ELSE phase[q]
  BY DEF ScrapeInv, ScrapeTypeOK
<1>4. AskInv'
  <2>1. \A q \in Requests : Idle(q)' <=> Idle(q)
    BY <1>1 DEF Idle
  <2>2. ASSUME NEW q \in Requests, q # r, Asked(q) PROVE Asked(q)'
    BY <1>1, <2>2 DEF Asked, Wanted
  <2>3. status = "served" => Asked(r)'
    BY <1>1 DEF Asked, Wanted
  <2>4. QED
    BY <1>1, <1>3, <2>1, <2>2, <2>3 DEF AskInv, ScrapeInv
<1>5. PaceInv'
  <2>1. \A q \in Requests : q # r => (Paced(q)' <=> Paced(q))
    BY <1>1 DEF Paced, LastRead
  <2>2. LastRead' = LastRead
    BY <1>1 DEF LastRead
  <2>3. \A c \in Callers : seen'[c] <= round
    BY DEF PaceInv, ScrapeInv, ScrapeTypeOK
  <2>4. QED
    BY <1>1, <1>3, <2>1, <2>2, <2>3 DEF PaceInv, ScrapeInv
<1>6. QED
  BY <1>2, <1>4, <1>5 DEF ScrapeInv

(* A request that is let in owes every collector it asked for a snapshot,  *)
(* and has begun no round.                                                 *)
LEMMA ServeCollectKept ==
    ASSUME ScrapeInv, NEW r \in Requests,
           NEW wanted \in SUBSET Names, NEW unwanted \in SUBSET Names,
           ServeCollect(r, wanted, unwanted)
    PROVE  ScrapeInv'
<1>1. Idle(r)
  BY DEF ServeCollect, ScrapeInv, AskInv
<1>2. RegistryInv'
  BY <1>1, Woken DEF ScrapeInv
<1>3. /\ UNCHANGED <<now, snapshot, snapshotTime, snapshotMtx, round>>
      /\ \A q \in Requests :
             /\ phase'[q] = IF q = r THEN "collecting" ELSE phase[q]
             /\ collects'[q] = IF q = r THEN wanted ELSE collects[q]
             /\ excludes'[q] = IF q = r THEN unwanted ELSE excludes[q]
             /\ began'[q] = IF q = r THEN now ELSE began[q]
             /\ begun'[q] = IF q = r THEN 0 ELSE begun[q]
  BY DEF ServeCollect, ScrapeInv, ScrapeTypeOK, snapshotVars
<1>4. \A q \in Requests, n \in Names :
          seen'[<<q, n>>] = IF q = r THEN 0 ELSE seen[<<q, n>>]
  BY CallerFacts DEF ServeCollect
<1>5. \A q \in Requests, n \in Names :
          pc'[<<q, n>>] = IF q = r /\ n \in Selected(Filters(wanted, unwanted))
                          THEN "want" ELSE pc[<<q, n>>]
  <2>1. SUFFICES ASSUME NEW q \in Requests, NEW n \in Names
                 PROVE  pc'[<<q, n>>] = IF q = r /\ n \in Selected(Filters(wanted, unwanted))
                                        THEN "want" ELSE pc[<<q, n>>]
    OBVIOUS
  <2>2. <<q, n>> \in Threads
    BY CallerFacts DEF Threads
  <2>3. <<q, n>> \in {r} \X Selected(Filters(wanted, unwanted))
            <=> q = r /\ n \in Selected(Filters(wanted, unwanted))
    OBVIOUS
  <2>4. QED
    BY <2>2, <2>3 DEF ServeCollect
<1>6. ScrapeTypeOK'
  <2>1. now \in 0 .. MaxTime
    BY DEF ScrapeInv, RegistryInv, IndInv, TypeOK
  <2>2. QED
    BY <2>1, RegistryAssumption DEF ServeCollect, ScrapeInv, ScrapeTypeOK
<1>7. AskInv'
  <2>1. ASSUME NEW q \in Requests, q # r
        PROVE  (Idle(q)' <=> Idle(q)) /\ (Asked(q)' <=> Asked(q))
    BY <1>3, <1>4, <1>5, <2>1 DEF Idle, Asked, Wanted
  <2>2. Asked(r)'
    <3>1. ~BadRequest(collects'[r], excludes'[r])
      BY <1>3 DEF ServeCollect
    <3>2. Wanted(r)' = Selected(Filters(wanted, unwanted))
      BY <1>3 DEF Wanted
    <3>3. QED
      BY <1>1, <1>4, <1>5, <3>1, <3>2 DEF Asked, Idle
  <2>3. QED
    BY <1>3, <2>1, <2>2 DEF AskInv, ScrapeInv
<1>8. PaceInv'
  <2>1. LastRead' = LastRead
    BY <1>3 DEF LastRead
  <2>2. \A q \in Requests : q # r => (Paced(q)' <=> Paced(q))
    BY <1>3, <2>1 DEF Paced
  <2>3. now \in Nat
    BY RegistryAssumption DEF ScrapeInv, RegistryInv, IndInv, TypeOK
  <2>4. \A c \in Callers : seen'[c] <= round
    BY DEF ServeCollect, PaceInv, ScrapeInv, ScrapeTypeOK
  <2>5. QED
    BY <1>3, <2>1, <2>2, <2>3, <2>4 DEF PaceInv, ScrapeInv
<1>9. QED
  BY <1>2, <1>6, <1>7, <1>8 DEF ScrapeInv

(* A collector that has its snapshot leaves the registry.                  *)
LEMMA ReturnKept ==
    ASSUME AskInv, ScrapeTypeOK, TypeOK, NEW c \in Callers, pc[c] # "idle",
           NEW got \in Nat \ {0}, seen' = [seen EXCEPT ![c] = got], Goto(c, "idle"),
           UNCHANGED <<phase, collects, excludes>>,
           snapshot' # NilSnapshot => round' # 0
    PROVE  AskInv'
<1>1. \A q \in Requests, n \in Names :
          /\ seen'[<<q, n>>] = IF <<q, n>> = c THEN got ELSE seen[<<q, n>>]
          /\ pc'[<<q, n>>] = IF <<q, n>> = c THEN "idle" ELSE pc[<<q, n>>]
  BY CallerFacts DEF ScrapeTypeOK, TypeOK, Goto, Threads
<1>2. \A q \in Requests : Idle(q) => Idle(q)'
  BY <1>1 DEF Idle
<1>3. ASSUME NEW q \in Requests, Asked(q) PROVE Asked(q)'
  <2>1. Wanted(q)' = Wanted(q)
    BY DEF Wanted
  <2>2. \A n \in Names : <<q, n>> = c => n \in Wanted(q)
    BY <1>3 DEF Asked
  <2>3. QED
    BY <1>1, <1>3, <2>1, <2>2 DEF Asked
<1>4. QED
  BY <1>2, <1>3 DEF AskInv

(* A hit gives a snapshot that some round published.                       *)
LEMMA HitKept == ASSUME ScrapeInv, NEW c \in Callers, Hit(c) PROVE ScrapeInv'
<1>1. RegistryInv'
  BY RegistryStep, RegistryKept DEF ScrapeInv
<1>2. /\ UNCHANGED <<now, snapshot, snapshotTime, snapshotMtx, round>>
      /\ UNCHANGED <<phase, collects, excludes, began, begun>>
      /\ seen' = [seen EXCEPT ![c] = round]
      /\ Goto(c, "idle") /\ pc[c] = "want"
      /\ snapshot # NilSnapshot
  BY DEF Hit, SnapshotHit, Fresh, snapshotVars, requestVars
<1>3. round \in Nat \ {0}
  BY <1>2 DEF ScrapeInv, AskInv, ScrapeTypeOK
<1>4. AskInv'
  BY <1>2, <1>3, ReturnKept DEF ScrapeInv, AskInv, RegistryInv, IndInv
<1>5. ScrapeTypeOK'
  BY <1>2, <1>3 DEF ScrapeInv, ScrapeTypeOK
<1>6. PaceInv'
  <2>1. \A b \in Callers : seen'[b] <= round
    BY <1>2, <1>3 DEF ScrapeInv, ScrapeTypeOK, PaceInv
  <2>2. QED
    BY <1>2, <2>1 DEF ScrapeInv, PaceInv, Paced, LastRead
<1>7. QED
  BY <1>1, <1>4, <1>5, <1>6 DEF ScrapeInv

(* The time stamps are times, and the TTL is positive.                     *)
LEMMA TimeTypes ==
    ASSUME ScrapeInv
    PROVE  /\ now \in Nat
           /\ snapshotTime \in Int /\ (snapshotTime # Never => snapshotTime \in Nat)
           /\ CacheTTL \in Nat /\ CacheTTL >= 1
           /\ round \in Nat
           /\ \A r \in Requests : began[r] \in Nat /\ begun[r] \in Nat
  BY RegistryAssumption, ScrapeAssumption
     DEF ScrapeInv, ScrapeTypeOK, RegistryInv, IndInv, TypeOK, Never

(* Positive factors do not make a number smaller.                          *)
LEMMA Scales ==
    ASSUME NEW n \in Nat, NEW k \in Nat, k >= 1
    PROVE  n <= n * k
<1>1. PICK m \in Nat : k = m + 1
  OBVIOUS
<1>2. n * k = n * m + n /\ n * m \in Nat
  BY <1>1
<1>3. QED
  BY <1>2

(* A miss begins a round a TTL after the last one was published.           *)
LEMMA MissKept == ASSUME ScrapeInv, NEW c \in Callers, Miss(c) PROVE ScrapeInv'
<1>1. RegistryInv'
  BY RegistryStep, RegistryKept DEF ScrapeInv
<1>2. /\ UNCHANGED <<now, snapshot, snapshotTime, round, seen>>
      /\ UNCHANGED <<phase, collects, excludes, began>>
      /\ Goto(c, "refresh") /\ pc[c] = "want"
      /\ snapshotMtx = Nobody /\ snapshotMtx' = c
      /\ SinceAtLeast(snapshotTime, CacheTTL) \/ snapshot = NilSnapshot
  BY DEF Miss, SnapshotMiss, Fresh, requestVars
<1>3. \A r \in Requests :
          begun'[r] = IF phase[r] = "collecting" THEN begun[r] + 1 ELSE begun[r]
  BY DEF Miss
<1>4. AskInv'
  <2>1. \A q \in Requests, n \in Names :
            pc'[<<q, n>>] = IF <<q, n>> = c THEN "refresh" ELSE pc[<<q, n>>]
    BY <1>2, CallerFacts DEF ScrapeInv, RegistryInv, IndInv, TypeOK, Goto, Threads
  <2>2. \A q \in Requests, n \in Names : pc'[<<q, n>>] = "idle" <=> pc[<<q, n>>] = "idle"
    BY <1>2, <2>1
  <2>3. \A q \in Requests : (Idle(q)' <=> Idle(q)) /\ (Asked(q)' <=> Asked(q))
    BY <1>2, <2>2 DEF Idle, Asked, Wanted
  <2>4. QED
    BY <1>2, <2>3 DEF ScrapeInv, AskInv
<1>5. PaceInv'
  <2>1. LastRead = snapshotTime /\ LastRead' = now
    BY <1>2, RegistryAssumption DEF LastRead, Threads
  <2>2. snapshotTime # Never => now >= snapshotTime + CacheTTL
    BY <1>2, TimeTypes DEF SinceAtLeast, ScrapeInv, PaceInv
  <2>3. round # 0 => round <= now
    BY <1>2, <2>1, <2>2, TimeTypes DEF ScrapeInv, PaceInv, Never
  <2>4. ASSUME NEW r \in Requests, phase[r] = "collecting" PROVE Paced(r)'
    <3>1. began[r] <= now /\ begun'[r] = begun[r] + 1
      BY <1>3, <2>4 DEF ScrapeInv, PaceInv
    <3>2. CASE begun[r] = 0
      <4>1. (begun'[r] - 1) * CacheTTL = 0
        BY <3>1, <3>2, TimeTypes
      <4>2. QED
        BY <1>2, <2>1, <3>1, <4>1, TimeTypes DEF Paced
    <3>3. CASE begun[r] # 0
      <4> DEFINE n == begun[r] - 1
      <4>1. n \in Nat /\ begun'[r] - 1 = n + 1
        BY <3>1, <3>3, TimeTypes
      <4>2. (n + 1) * CacheTTL = n * CacheTTL + CacheTTL /\ n * CacheTTL \in Nat
        BY <4>1, TimeTypes
      <4>3. began[r] + n * CacheTTL <= snapshotTime
        BY <2>1, <2>4, <3>3 DEF ScrapeInv, PaceInv, Paced
      <4>4. snapshotTime # Never
        BY <4>2, <4>3, TimeTypes DEF Never
      <4>5. began[r] + (n + 1) * CacheTTL <= now
        BY <2>2, <4>2, <4>3, <4>4, TimeTypes
      <4>6. QED
        BY <1>2, <2>1, <4>1, <4>5 DEF Paced
    <3>4. QED
      BY <3>2, <3>3
  <2>5. snapshotMtx' # Nobody
    BY <1>2, RegistryAssumption DEF Threads
  <2>6. QED
    BY <1>2, <2>1, <2>3, <2>4, <2>5, TimeTypes DEF ScrapeInv, PaceInv
<1>6. ScrapeTypeOK'
  <2>1. ASSUME NEW r \in Requests, phase[r] = "collecting"
        PROVE  begun[r] + 1 \in 0 .. MaxTime + 1
    <3>1. /\ begun'[r] = begun[r] + 1
          /\ began[r] + (begun'[r] - 1) * CacheTTL <= now
      BY <1>2, <1>3, <1>5, <2>1, TimeTypes, RegistryAssumption
         DEF PaceInv, Paced, LastRead, Threads
    <3>2. begun[r] <= begun[r] * CacheTTL
      BY TimeTypes, Scales
    <3>3. begun[r] <= now
      BY <3>1, <3>2, TimeTypes
    <3>4. QED
      BY <3>3, TimeTypes, RegistryAssumption DEF ScrapeInv, RegistryInv, IndInv, TypeOK
  <2>2. begun' \in [Requests -> 0 .. MaxTime + 1]
    BY <2>1 DEF Miss, ScrapeInv, ScrapeTypeOK
  <2>3. QED
    BY <1>2, <2>2 DEF ScrapeInv, ScrapeTypeOK
<1>7. QED
  BY <1>1, <1>4, <1>5, <1>6 DEF ScrapeInv

(* A round that ends stamps its snapshot with the time.                    *)
LEMMA StoreKept == ASSUME ScrapeInv, NEW c \in Callers, Store(c) PROVE ScrapeInv'
<1>1. RegistryInv'
  BY RegistryStep, RegistryKept DEF ScrapeInv
<1>2. /\ UNCHANGED <<now, phase, collects, excludes, began, begun>>
      /\ Goto(c, "idle") /\ pc[c] = "wait"
      /\ snapshot' = results[c] /\ snapshotTime' = now /\ snapshotMtx' = Nobody
      /\ round' = round + 1
      /\ seen' = [seen EXCEPT ![c] = round + 1]
  BY DEF Store, SnapshotStore, requestVars
<1>3. round + 1 \in Nat \ {0}
  BY TimeTypes
<1>4. AskInv'
  BY <1>2, <1>3, ReturnKept DEF ScrapeInv, RegistryInv, IndInv
<1>5. ScrapeTypeOK'
  <2>1. snapshotMtx # Nobody
    BY <1>2, RegistryAssumption
       DEF ScrapeInv, RegistryInv, IndInv, RoundInv, RoundPCs, Threads
  <2>2. round <= now
    BY <2>1, TimeTypes DEF ScrapeInv, PaceInv, LastRead
  <2>3. round + 1 \in 0 .. MaxTime + 1
    BY <2>2, TimeTypes, RegistryAssumption DEF ScrapeInv, RegistryInv, IndInv, TypeOK
  <2>4. QED
    BY <1>2, <2>3 DEF ScrapeInv, ScrapeTypeOK
<1>6. snapshot' # NilSnapshot
  <2>1. PICK d \in Devs : TRUE
    BY ScrapeAssumption, DevFacts
  <2>2. results[c][d] # "nil"
    BY <2>1 DEF ScrapeInv, RegistryInv, RefInv
  <2>3. QED
    BY <1>2, <2>1, <2>2 DEF NilSnapshot
<1>7. PaceInv'
  <2>1. snapshotMtx # Nobody
    BY <1>2, RegistryAssumption
       DEF ScrapeInv, RegistryInv, IndInv, RoundInv, RoundPCs, Threads
  <2>2. LastRead = now /\ LastRead' = now
    BY <1>2, <2>1 DEF LastRead
  <2>3. round <= now
    BY <2>1, <2>2, TimeTypes DEF ScrapeInv, PaceInv
  <2>4. \A r \in Requests : Paced(r)' <=> Paced(r)
    BY <1>2, <2>2 DEF Paced
  <2>5. \A b \in Callers : seen'[b] <= round + 1
    BY <1>2, <1>3 DEF ScrapeInv, ScrapeTypeOK, PaceInv
  <2>6. QED
    BY <1>2, <1>6, <2>1, <2>2, <2>3, <2>4, <2>5, TimeTypes DEF ScrapeInv, PaceInv
<1>8. QED
  BY <1>1, <1>4, <1>5, <1>7 DEF ScrapeInv

(* Nothing else in the registry begins, ends or stamps a round, or sends a *)
(* collector home.                                                         *)
LEMMA BackgroundFacts ==
    ASSUME ScrapeInv, Background
    PROVE  /\ UNCHANGED <<snapshot, snapshotTime, snapshotMtx>>
           /\ now' = now \/ now' = now + 1
           /\ \A c \in Callers : pc'[c] = "idle" <=> pc[c] = "idle"
<1> USE DEF registryVars, snapshotVars, roundVars, sweepVars, deviceVars, Threads
<1>1. pc \in [Threads -> PCs] /\ now \in Nat
  BY TimeTypes DEF ScrapeInv, RegistryInv, IndInv, TypeOK
<1>2. CASE Tick
  BY <1>2 DEF Tick
<1>3. ASSUME NEW c \in Callers, RefreshSkip(c) \/ RefreshFirst(c) \/ ReadAll(c)
      PROVE  /\ UNCHANGED <<snapshot, snapshotTime, snapshotMtx, now>>
             /\ \A b \in Callers : pc'[b] = "idle" <=> pc[b] = "idle"
  BY <1>1, <1>3 DEF RefreshSkip, RefreshFirst, ReadAll, Goto
<1>4. ASSUME NEW c \in Callers, NEW s \in Sweepers, RefreshBackground(c, s)
      PROVE  /\ UNCHANGED <<snapshot, snapshotTime, snapshotMtx, now>>
             /\ \A b \in Callers : pc'[b] = "idle" <=> pc[b] = "idle"
  BY <1>1, <1>4, RegistryAssumption DEF RefreshBackground
<1>5. ASSUME NEW t \in Callers \cup Sweepers, Sweep(t)
      PROVE  /\ UNCHANGED <<snapshot, snapshotTime, snapshotMtx, now>>
             /\ \A b \in Callers : pc'[b] = "idle" <=> pc[b] = "idle"
  <2>1. UNCHANGED <<snapshot, snapshotTime, snapshotMtx, now>>
    BY <1>5 DEF Sweep, DiscoverAnswered, DiscoverFailed, Reconcile, ReconcileDone,
                FinishDiscovery, DropMissing, LogDropped
  <2>2. PICK where : /\ Goto(t, where) /\ pc[t] # "idle"
                     /\ where = "idle" => t \notin Callers
    BY <1>5 DEF Sweep, DiscoverAnswered, DiscoverFailed, Reconcile, ReconcileDone,
                FinishDiscovery, DropMissing, LogDropped
  <2>3. QED
    BY <1>1, <2>1, <2>2 DEF Goto
<1>6. ASSUME NEW c \in Callers, NEW d \in Devs, Reader(c, d)
      PROVE  UNCHANGED <<snapshot, snapshotTime, snapshotMtx, now, pc>>
  BY <1>6 DEF Reader, AcquireSlot, BeginRead, EndRead, EndReader
<1>7. QED
  BY <1>2, <1>3, <1>4, <1>5, <1>6 DEF Background

(* So it changes neither what a request is owed nor the pace.              *)
LEMMA BackgroundKept == ASSUME ScrapeInv, Background PROVE ScrapeInv'
<1>1. RegistryInv'
  BY RegistryStep, RegistryKept DEF ScrapeInv
<1>2. /\ UNCHANGED <<snapshot, snapshotTime, snapshotMtx>>
      /\ now' = now \/ now' = now + 1
      /\ \A c \in Callers : pc'[c] = "idle" <=> pc[c] = "idle"
  BY BackgroundFacts
<1>3. UNCHANGED <<phase, collects, excludes, began, round, begun, seen>>
  BY DEF Background, scrapeVars, requestVars
<1>4. ScrapeTypeOK'
  BY <1>3 DEF ScrapeInv, ScrapeTypeOK
<1>5. AskInv'
  <2>1. \A q \in Requests : (Idle(q)' <=> Idle(q)) /\ (Asked(q)' <=> Asked(q))
    BY <1>2, <1>3, CallerFacts DEF Idle, Asked, Wanted
  <2>2. QED
    BY <1>2, <1>3, <2>1 DEF ScrapeInv, AskInv
<1>6. PaceInv'
  <2>1. LastRead \in Int /\ LastRead' \in Int /\ LastRead <= LastRead'
    BY <1>2, TimeTypes DEF LastRead
  <2>2. ASSUME NEW r \in Requests, Paced(r) PROVE Paced(r)'
    <3>1. began[r] + (begun[r] - 1) * CacheTTL \in Int
      BY TimeTypes
    <3>2. QED
      BY <1>3, <2>1, <2>2, <3>1 DEF Paced
  <2>3. QED
    BY <1>2, <1>3, <2>1, <2>2, TimeTypes DEF ScrapeInv, PaceInv
<1>7. QED
  BY <1>1, <1>4, <1>5, <1>6 DEF ScrapeInv

(* A request is refused, or answered once its collectors are done.         *)
LEMMA RequestKept ==
    ASSUME ScrapeInv, NEW r \in Requests,
           \/ \E wanted, unwanted \in SUBSET Names :
                  ServeRejected(r, wanted, unwanted) \/ ServeBusy(r, wanted, unwanted)
           \/ Respond(r)
           \/ Release(r)
    PROVE  ScrapeInv'
<1>1. ASSUME NEW status \in {"rejected", "busy"}, phase[r] = "free", Refuse(r, status)
      PROVE  ScrapeInv'
  <2>1. ScrapeTypeOK'
    BY <1>1 DEF Refuse, ScrapeInv, ScrapeTypeOK
  <2>2. Idle(r)
    BY <1>1 DEF ScrapeInv, AskInv
  <2>3. QED
    BY <1>1, <2>1, <2>2, PassiveKept DEF Refuse
<1>2. CASE Respond(r)
  <2>1. ScrapeTypeOK'
    BY <1>2 DEF Respond, ScrapeInv, ScrapeTypeOK
  <2>2. Idle(r)
    BY <1>2, CallerFacts DEF Respond, Goroutines, Idle
  <2>3. Asked(r)
    BY <1>2 DEF Respond, ScrapeInv, AskInv
  <2>4. QED
    BY <1>2, <2>1, <2>2, <2>3, PassiveKept DEF Respond
<1>3. CASE Release(r)
  <2>1. ScrapeTypeOK'
    BY <1>3, RegistryAssumption DEF Release, ScrapeInv, ScrapeTypeOK
  <2>2. Idle(r)
    BY <1>3 DEF Release, ScrapeInv, AskInv
  <2>3. \A q \in Requests \ {r} :
            /\ UNCHANGED <<collects[q], excludes[q], began[q], begun[q]>>
            /\ \A n \in Names : UNCHANGED seen[<<q, n>>]
    BY <1>3, CallerFacts DEF Release, ScrapeInv, ScrapeTypeOK
  <2>4. QED
    BY <1>3, <2>1, <2>2, <2>3, PassiveKept DEF Release
<1>4. QED
  BY <1>1, <1>2, <1>3 DEF ServeRejected, ServeBusy

(* The parts together are an invariant of every behaviour of a scrape.     *)
LEMMA ScrapeInductive == ScrapeSpec => []ScrapeInv
<1>1. ScrapeInv /\ [ScrapeNext]_allVars => ScrapeInv'
  <2> SUFFICES ASSUME ScrapeInv, [ScrapeNext]_allVars PROVE ScrapeInv'
    OBVIOUS
  <2>1. CASE UNCHANGED allVars
    <3>1. UNCHANGED vars /\ UNCHANGED <<phase, collects, excludes, began, round, begun, seen>>
      BY <2>1 DEF allVars, scrapeVars, requestVars
    <3>2. RegistryInv'
      BY <3>1, RegistryKept DEF ScrapeInv
    <3>3. UNCHANGED <<now, pc, snapshot, snapshotTime, snapshotMtx>>
      BY <3>1 DEF vars, snapshotVars
    <3>4. ScrapeTypeOK' /\ AskInv' /\ PaceInv'
      BY <3>1, <3>3 DEF ScrapeInv, ScrapeTypeOK, AskInv, Idle, Asked, Wanted, PaceInv, Paced,
                        LastRead
    <3>5. QED
      BY <3>2, <3>4 DEF ScrapeInv
  <2>2. QED
    BY <2>1, ServeCollectKept, RequestKept, HitKept, MissKept, StoreKept, BackgroundKept
       DEF ScrapeNext
<1>2. QED
  BY <1>1, ScrapeInvInit, PTL DEF ScrapeSpec

-----------------------------------------------------------------------------
(* What it gives.                                                          *)

(* ScrapeTypeOK: the rounds of a run are counted by its clock, since two   *)
(* of them never begin within one TTL (registry.go, Snapshot).             *)
THEOREM ScrapeTypeCorrect == ScrapeSpec => []ScrapeTypeOK
<1>1. ScrapeInv => ScrapeTypeOK
  BY DEF ScrapeInv
<1>2. QED
  BY <1>1, ScrapeInductive, PTL

(* The registry keeps its promises under the scrapes that are served:      *)
(* sweeps never overlap, reads are bounded, a scrape that waits for        *)
(* devicesMtx never waits for a device, and every configured address is    *)
(* reported (registry.go; collector.go, Collect).                          *)
THEOREM RegistrySound ==
    ScrapeSpec => [](OneSweep /\ ReadsBounded /\ ScrapeNeverWaitsOnRead /\ ManualReported)
<1>1. ScrapeInv => OneSweep /\ ReadsBounded /\ ScrapeNeverWaitsOnRead /\ ManualReported
  BY SlotsBounded, NeverWaits DEF ScrapeInv, RegistryInv, IndInv, SweepInv, ManualInv
<1>2. QED
  BY <1>1, ScrapeInductive, PTL

(* A multiple that fits into a time fits into it that many times.          *)
LEMMA FitsInto ==
    ASSUME NEW n \in Nat, NEW t \in Nat, NEW ttl \in Nat, ttl >= 1, n * ttl <= t
    PROVE  n <= t \div ttl
<1> DEFINE q == t \div ttl
<1>1. q \in Nat /\ t < q * ttl + ttl
  OBVIOUS
<1>2. (q + 1) * ttl = q * ttl + ttl
  BY <1>1
<1>3. ASSUME n >= q + 1 PROVE n * ttl >= (q + 1) * ttl
  <2>1. PICK k \in Nat : n = (q + 1) + k
    BY <1>1, <1>3
  <2>2. n * ttl = (q + 1) * ttl + k * ttl /\ k * ttl >= 0
    BY <1>1, <2>1
  <2>3. QED
    BY <1>1, <2>2
<1>4. QED
  BY <1>1, <1>2, <1>3

(* A scrape in flight has begun one round, and one more for each TTL.      *)
LEMMA BegunBounded ==
    ASSUME ScrapeInv, NEW r \in Requests, phase[r] = "collecting"
    PROVE  begun[r] <= 1 + (now - began[r]) \div CacheTTL
<1>1. began[r] <= now /\ now - began[r] \in Nat
  BY TimeTypes DEF ScrapeInv, PaceInv
<1>2. (now - began[r]) \div CacheTTL \in Nat
  BY <1>1, TimeTypes
<1>3. CASE begun[r] = 0
  BY <1>2, <1>3
<1>4. CASE begun[r] # 0
  <2>1. begun[r] - 1 \in Nat /\ (begun[r] - 1) * CacheTTL \in Nat
    BY <1>4, TimeTypes
  <2>2. LastRead \in Int /\ LastRead <= now
    BY TimeTypes DEF LastRead, ScrapeInv, PaceInv
  <2>3. (begun[r] - 1) * CacheTTL <= now - began[r]
    BY <1>4, <2>1, <2>2, TimeTypes DEF ScrapeInv, PaceInv, Paced
  <2>4. begun[r] - 1 <= (now - began[r]) \div CacheTTL
    BY <1>1, <2>1, <2>3, TimeTypes, FitsInto
  <2>5. QED
    BY <1>2, <2>4, TimeTypes
<1>5. QED
  BY <1>3, <1>4

(* QueriesBounded: whatever overlaps it, a scrape begins one round of      *)
(* reads, and one more for each TTL it lasts (registry.go, Snapshot;       *)
(* collector.go, Collect).                                                 *)
THEOREM QueriesPaced == ScrapeSpec => []QueriesBounded
<1>1. ScrapeInv => QueriesBounded
  BY BegunBounded DEF QueriesBounded
<1>2. QED
  BY <1>1, ScrapeInductive, PTL

(* RanAsAsked: the collectors of an answered scrape that have a snapshot   *)
(* are exactly the ones the request asked for (kasa_exporter.go,           *)
(* ServeHTTP; collector.go, NewKasaCollector and Collect).                 *)
THEOREM CollectorsAsAsked == ScrapeSpec => []RanAsAsked
<1>1. ASSUME ScrapeInv, NEW r \in Requests, phase[r] = "served"
      PROVE  LET ran == {n \in Names : seen[<<r, n>>] # 0} IN
             /\ ran # {}
             /\ ran \subseteq Enabled \ excludes[r]
             /\ IF collects[r] = {} THEN Enabled \ excludes[r] \subseteq ran
                                    ELSE ran = collects[r]
  <2> DEFINE ran == {n \in Names : seen[<<r, n>>] # 0}
  <2>1. Asked(r) /\ Idle(r)
    BY <1>1 DEF ScrapeInv, AskInv
  <2>2. Wanted(r) \in SUBSET Names
    BY <1>1, SelectedNames DEF ScrapeInv, ScrapeTypeOK, Wanted
  <2>3. ran = Wanted(r)
    BY <2>1, <2>2 DEF Asked, Idle
  <2>4. ~BadRequest(collects[r], excludes[r])
    BY <2>1 DEF Asked
  <2>5. QED
    BY <2>3, <2>4, ScrapeAssumption DEF Wanted, Selected, Filters, BadRequest
<1>2. ScrapeInv => RanAsAsked
  BY <1>1 DEF RanAsAsked
<1>3. QED
  BY <1>2, ScrapeInductive, PTL
=============================================================================
