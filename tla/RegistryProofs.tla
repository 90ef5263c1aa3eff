--------------------------- MODULE RegistryProofs ---------------------------
(***************************************************************************)
(* What TLAPS proves of the registry for any number of collectors, sweeps, *)
(* addresses and any length of run: see README.md for the argument.        *)
(***************************************************************************)
EXTENDS Registry, TLAPS, FiniteSetTheorems

-----------------------------------------------------------------------------
(* Device objects.                                                         *)

(* The host of a Device is an address, and every address can have one.     *)
LEMMA DevFacts ==
    /\ \A d \in Devs : HostOf(d) \in Hosts
    /\ \A h \in Hosts : <<h, 0>> \in Devs
    /\ \A h \in Hosts : HostOf(<<h, 0>>) = h
    /\ \A H \in SUBSET Hosts, t \in 0 .. MaxTime : H \X {t} \in SUBSET Devs
  BY RegistryAssumption DEF Devs, HostOf

(* Merging a sweep into the device map keeps it a map to Devices.          *)
LEMMA MergedType ==
    ASSUME TypeOK, NEW built \in SUBSET Devs
    PROVE  Merged(built) \in [Hosts -> Devs \cup {Nobody}]
<1>1. ASSUME NEW h \in Hosts, \E d \in built : HostOf(d) = h
      PROVE  (CHOOSE d \in built : HostOf(d) = h) \in Devs
  BY <1>1
<1>2. QED
  BY <1>1 DEF Merged, TypeOK

-----------------------------------------------------------------------------
(* Types.                                                                  *)

(* NewRegistry leaves every variable with its type.                        *)
LEMMA TypeInit == Init => TypeOK
<1> SUFFICES ASSUME Init PROVE TypeOK
  OBVIOUS
<1>1. devices \in [Hosts -> Devs \cup {Nobody}]
  BY DevFacts DEF Init
<1>2. /\ snapshot \in [Devs -> Outcomes]
      /\ reader \in [Callers -> [Devs -> ReaderPhases]]
      /\ results \in [Callers -> [Devs -> Outcomes]]
  BY DEF Init, NilSnapshot, Outcomes, ReaderPhases
<1>3. /\ found \in [Threads -> SUBSET Devs]
      /\ gone \in [Threads -> SUBSET Devs]
      /\ mu \in [Devs -> Callers \cup {Nobody}]
      /\ pc \in [Threads -> PCs]
  BY DEF Init, PCs
<1>4. /\ now \in 0 .. MaxTime
      /\ lastDiscovery \in {Never} \cup (0 .. MaxTime)
      /\ snapshotTime \in {Never} \cup (0 .. MaxTime)
  BY RegistryAssumption DEF Init
<1>5. /\ snapshotMtx \in Callers \cup {Nobody}
      /\ devicesMtx \in Threads \cup {Nobody}
      /\ open \in SUBSET Devs
      /\ discovering \in BOOLEAN
      /\ keepMissing \in KeepMissing
  BY DEF Init
<1>6. QED
  BY <1>1, <1>2, <1>3, <1>4, <1>5 DEF TypeOK

(* No step of a goroutine takes a variable out of its type.                *)
LEMMA TypeStep == ASSUME TypeOK, [Next]_vars PROVE TypeOK'
<1> USE DEF registryVars, snapshotVars, roundVars, sweepVars, deviceVars
<1> USE DEF PCs, RoundPCs, SweepPCs, ReaderPhases, Outcomes, Threads
<1>1. ASSUME Tick PROVE TypeOK'
  BY <1>1, RegistryAssumption DEF Tick, Goto, TypeOK
<1>2. ASSUME NEW c \in Callers, Call(c) PROVE TypeOK'
  BY <1>2, RegistryAssumption DEF Call, Goto, TypeOK
<1>3. ASSUME NEW c \in Callers, SnapshotHit(c) PROVE TypeOK'
  BY <1>3, RegistryAssumption DEF SnapshotHit, Goto, TypeOK
<1>4. ASSUME NEW c \in Callers, SnapshotMiss(c) PROVE TypeOK'
  BY <1>4, RegistryAssumption DEF SnapshotMiss, Goto, TypeOK
<1>5. ASSUME NEW c \in Callers, SnapshotStore(c) PROVE TypeOK'
  BY <1>5, RegistryAssumption DEF SnapshotStore, Goto, TypeOK
<1>6. ASSUME NEW c \in Callers, RefreshSkip(c) PROVE TypeOK'
  BY <1>6, RegistryAssumption DEF RefreshSkip, Goto, TypeOK
<1>7. ASSUME NEW c \in Callers, RefreshFirst(c) PROVE TypeOK'
  BY <1>7, RegistryAssumption DEF RefreshFirst, Goto, TypeOK
<1>8. ASSUME NEW c \in Callers, NEW s \in Sweepers, RefreshBackground(c, s) PROVE TypeOK'
  BY <1>8, RegistryAssumption DEF RefreshBackground, Goto, TypeOK
<1>9. ASSUME NEW c \in Callers, ReadAll(c) PROVE TypeOK'
  BY <1>9, RegistryAssumption DEF ReadAll, Goto, TypeOK
<1>10. ASSUME NEW t \in Callers \cup Sweepers, DiscoverAnswered(t) PROVE TypeOK'
  BY <1>10, RegistryAssumption, DevFacts DEF DiscoverAnswered, Goto, TypeOK
<1>11. ASSUME NEW t \in Callers \cup Sweepers, DiscoverFailed(t) PROVE TypeOK'
  BY <1>11, RegistryAssumption DEF DiscoverFailed, Goto, TypeOK
<1>12. ASSUME NEW t \in Callers \cup Sweepers, Reconcile(t) PROVE TypeOK'
  <2>1. Merged(found[t]) \in [Hosts -> Devs \cup {Nobody}]
    BY MergedType DEF TypeOK
  <2>2. Missing(found[t], Merged(found[t])) \in SUBSET Devs
    BY DEF Missing
  <2>3. QED
    BY <1>12, <2>1, <2>2, RegistryAssumption DEF Reconcile, Goto, TypeOK
<1>13. ASSUME NEW t \in Callers \cup Sweepers, NEW d \in Devs, DropMissing(t, d) PROVE TypeOK'
  BY <1>13, RegistryAssumption, DevFacts DEF DropMissing, Goto, TypeOK
<1>14. ASSUME NEW t \in Callers \cup Sweepers, NEW d \in Devs, LogDropped(t, d) PROVE TypeOK'
  BY <1>14, RegistryAssumption DEF LogDropped, Goto, TypeOK
<1>15. ASSUME NEW t \in Callers \cup Sweepers, ReconcileDone(t) PROVE TypeOK'
  BY <1>15, RegistryAssumption DEF ReconcileDone, Goto, TypeOK
<1>16. ASSUME NEW t \in Callers \cup Sweepers, FinishDiscovery(t) PROVE TypeOK'
  BY <1>16, RegistryAssumption DEF FinishDiscovery, Goto, TypeOK
<1>17. ASSUME NEW c \in Callers, NEW d \in Devs, AcquireSlot(c, d) PROVE TypeOK'
  BY <1>17, RegistryAssumption DEF AcquireSlot, Goto, TypeOK
<1>18. ASSUME NEW c \in Callers, NEW d \in Devs, BeginRead(c, d) PROVE TypeOK'
  BY <1>18, RegistryAssumption DEF BeginRead, Goto, TypeOK
<1>19. ASSUME NEW c \in Callers, NEW d \in Devs, NEW up \in BOOLEAN, EndRead(c, d, up)
      PROVE TypeOK'
  BY <1>19, RegistryAssumption DEF EndRead, Goto, TypeOK
<1>20. ASSUME NEW c \in Callers, NEW d \in Devs, EndReader(c, d) PROVE TypeOK'
  BY <1>20, RegistryAssumption DEF EndReader, Goto, TypeOK
<1>21. ASSUME NEW t \in Closers, Close(t) PROVE TypeOK'
  BY <1>21, RegistryAssumption DEF Close, Goto, TypeOK, Fleet
<1>22. ASSUME NEW t \in Closers, NEW d \in Devs, CloseDevice(t, d) PROVE TypeOK'
  BY <1>22, RegistryAssumption DEF CloseDevice, Goto, TypeOK
<1>23. ASSUME NEW t \in Closers, CloseDone(t) PROVE TypeOK'
  BY <1>23, RegistryAssumption DEF CloseDone, Goto, TypeOK
<1>24. ASSUME UNCHANGED vars PROVE TypeOK'
  BY <1>24, RegistryAssumption DEF vars, TypeOK
<1>25. QED
  BY <1>1, <1>2, <1>3, <1>4, <1>5, <1>6, <1>7, <1>8, <1>9, <1>10, <1>11, <1>12, <1>13, <1>14,
     <1>15, <1>16, <1>17, <1>18, <1>19, <1>20, <1>21, <1>22, <1>23, <1>24 DEF Next,
     Snapshot, Sweep, Reader, Closing

(* TypeOK: every variable of the registry keeps its type, whatever the     *)
(* goroutines do (registry.go, Registry).                                  *)
THEOREM TypeCorrect == Spec => []TypeOK
  BY TypeInit, TypeStep, PTL DEF Spec

-----------------------------------------------------------------------------
(* Which thread can be where.                                              *)

PCInv ==
    /\ \A c \in Callers : pc[c] # "close"
    /\ \A s \in Sweepers : pc[s] \in {"idle"} \cup SweepPCs
    /\ \A k \in Closers : pc[k] \in {"idle", "close"}

(* Every goroutine starts outside the registry.                            *)
LEMMA PCInit == Init => PCInv
  BY DEF Init, PCInv, Threads

(* Collectors never close, background goroutines only sweep, closers only  *)
(* close.                                                                  *)
LEMMA PCStep == ASSUME TypeOK, PCInv, [Next]_vars PROVE PCInv'
<1> USE DEF registryVars, snapshotVars, roundVars, sweepVars, deviceVars
<1> USE DEF SweepPCs, RoundPCs, Threads
<1>1. ASSUME Tick PROVE PCInv'
  BY <1>1, RegistryAssumption DEF Tick, Goto, TypeOK, PCInv
<1>2. ASSUME NEW c \in Callers, Call(c) PROVE PCInv'
  BY <1>2, RegistryAssumption DEF Call, Goto, TypeOK, PCInv
<1>3. ASSUME NEW c \in Callers, SnapshotHit(c) PROVE PCInv'
  BY <1>3, RegistryAssumption DEF SnapshotHit, Goto, TypeOK, PCInv
<1>4. ASSUME NEW c \in Callers, SnapshotMiss(c) PROVE PCInv'
  BY <1>4, RegistryAssumption DEF SnapshotMiss, Goto, TypeOK, PCInv
<1>5. ASSUME NEW c \in Callers, SnapshotStore(c) PROVE PCInv'
  BY <1>5, RegistryAssumption DEF SnapshotStore, Goto, TypeOK, PCInv
<1>6. ASSUME NEW c \in Callers, RefreshSkip(c) PROVE PCInv'
  BY <1>6, RegistryAssumption DEF RefreshSkip, Goto, TypeOK, PCInv
<1>7. ASSUME NEW c \in Callers, RefreshFirst(c) PROVE PCInv'
  BY <1>7, RegistryAssumption DEF RefreshFirst, Goto, TypeOK, PCInv
<1>8. ASSUME NEW c \in Callers, NEW s \in Sweepers, RefreshBackground(c, s) PROVE PCInv'
  BY <1>8, RegistryAssumption DEF RefreshBackground, Goto, TypeOK, PCInv
<1>9. ASSUME NEW c \in Callers, ReadAll(c) PROVE PCInv'
  BY <1>9, RegistryAssumption DEF ReadAll, Goto, TypeOK, PCInv
<1>10. ASSUME NEW t \in Callers \cup Sweepers, DiscoverAnswered(t) PROVE PCInv'
  BY <1>10, RegistryAssumption DEF DiscoverAnswered, Goto, TypeOK, PCInv
<1>11. ASSUME NEW t \in Callers \cup Sweepers, DiscoverFailed(t) PROVE PCInv'
  BY <1>11, RegistryAssumption DEF DiscoverFailed, Goto, TypeOK, PCInv
<1>12. ASSUME NEW t \in Callers \cup Sweepers, Reconcile(t) PROVE PCInv'
  BY <1>12, RegistryAssumption DEF Reconcile, Goto, TypeOK, PCInv
<1>13. ASSUME NEW t \in Callers \cup Sweepers, NEW d \in Devs, DropMissing(t, d) PROVE PCInv'
  BY <1>13, RegistryAssumption DEF DropMissing, Goto, TypeOK, PCInv
<1>14. ASSUME NEW t \in Callers \cup Sweepers, NEW d \in Devs, LogDropped(t, d) PROVE PCInv'
  BY <1>14, RegistryAssumption DEF LogDropped, Goto, TypeOK, PCInv
<1>15. ASSUME NEW t \in Callers \cup Sweepers, ReconcileDone(t) PROVE PCInv'
  BY <1>15, RegistryAssumption DEF ReconcileDone, Goto, TypeOK, PCInv
<1>16. ASSUME NEW t \in Callers \cup Sweepers, FinishDiscovery(t) PROVE PCInv'
  BY <1>16, RegistryAssumption DEF FinishDiscovery, Goto, TypeOK, PCInv
<1>17. ASSUME NEW c \in Callers, NEW d \in Devs, AcquireSlot(c, d) PROVE PCInv'
  BY <1>17, RegistryAssumption DEF AcquireSlot, Goto, TypeOK, PCInv
<1>18. ASSUME NEW c \in Callers, NEW d \in Devs, BeginRead(c, d) PROVE PCInv'
  BY <1>18, RegistryAssumption DEF BeginRead, Goto, TypeOK, PCInv
<1>19. ASSUME NEW c \in Callers, NEW d \in Devs, NEW up \in BOOLEAN, EndRead(c, d, up)
      PROVE PCInv'
  BY <1>19, RegistryAssumption DEF EndRead, Goto, TypeOK, PCInv
<1>20. ASSUME NEW c \in Callers, NEW d \in Devs, EndReader(c, d) PROVE PCInv'
  BY <1>20, RegistryAssumption DEF EndReader, Goto, TypeOK, PCInv
<1>21. ASSUME NEW t \in Closers, Close(t) PROVE PCInv'
  BY <1>21, RegistryAssumption DEF Close, Goto, TypeOK, PCInv
<1>22. ASSUME NEW t \in Closers, NEW d \in Devs, CloseDevice(t, d) PROVE PCInv'
  BY <1>22, RegistryAssumption DEF CloseDevice, Goto, TypeOK, PCInv
<1>23. ASSUME NEW t \in Closers, CloseDone(t) PROVE PCInv'
  BY <1>23, RegistryAssumption DEF CloseDone, Goto, TypeOK, PCInv
<1>24. ASSUME UNCHANGED vars PROVE PCInv'
  BY <1>24, RegistryAssumption DEF vars, TypeOK, PCInv
<1>25. QED
  BY <1>1, <1>2, <1>3, <1>4, <1>5, <1>6, <1>7, <1>8, <1>9, <1>10, <1>11, <1>12, <1>13, <1>14,
     <1>15, <1>16, <1>17, <1>18, <1>19, <1>20, <1>21, <1>22, <1>23, <1>24 DEF Next,
     Snapshot, Sweep, Reader, Closing

-----------------------------------------------------------------------------
(* One round at a time: snapshotMtx is held from the cache test to the     *)
(* publication, readers exist only while their caller waits for them, and  *)
(* Device.mu is held only by such a reader.                                *)

RoundInv ==
    /\ \A c \in Callers : pc[c] \in RoundPCs <=> snapshotMtx = c
    /\ \A c \in Callers, d \in Devs : reader[c][d] # "none" => pc[c] = "wait"
    /\ \A c \in Callers, d \in Devs : mu[d] = c => reader[c][d] = "reading"

(* No round is in progress at first.                                       *)
LEMMA RoundInit == Init => RoundInv
  BY RegistryAssumption DEF Init, RoundInv, RoundPCs, SweepPCs, Threads

(* snapshotMtx keeps the rounds apart, and Device.mu is held only by the   *)
(* reader that took it.                                                    *)
LEMMA RoundStep ==
    ASSUME TypeOK, PCInv, RoundInv, [Next]_vars
    PROVE  RoundInv'
<1> USE DEF registryVars, snapshotVars, roundVars, sweepVars, deviceVars
<1> USE DEF SweepPCs, RoundPCs, Threads
<1>1. ASSUME Tick PROVE RoundInv'
  BY <1>1, RegistryAssumption DEF Tick, Goto, TypeOK, RoundInv
<1>2. ASSUME NEW c \in Callers, Call(c) PROVE RoundInv'
  BY <1>2, RegistryAssumption DEF Call, Goto, TypeOK, RoundInv
<1>3. ASSUME NEW c \in Callers, SnapshotHit(c) PROVE RoundInv'
  BY <1>3, RegistryAssumption DEF SnapshotHit, Goto, TypeOK, RoundInv
<1>4. ASSUME NEW c \in Callers, SnapshotMiss(c) PROVE RoundInv'
  BY <1>4, RegistryAssumption DEF SnapshotMiss, Goto, TypeOK, RoundInv
<1>5. ASSUME NEW c \in Callers, SnapshotStore(c) PROVE RoundInv'
  <2>1. snapshotMtx = c /\ snapshotMtx' = Nobody /\ mu' = mu
    BY <1>5 DEF SnapshotStore, RoundInv, RoundPCs
  <2>2. \A b \in Callers : pc'[b] = IF b = c THEN "idle" ELSE pc[b]
    BY <1>5 DEF SnapshotStore, Goto, TypeOK
  <2>3. \A b \in Callers, d \in Devs :
            reader'[b][d] = IF b = c THEN "none" ELSE reader[b][d]
    BY <1>5 DEF SnapshotStore, TypeOK
  <2>4. \A d \in Devs : reader[c][d] # "reading"
    BY <1>5 DEF SnapshotStore
  <2>5. QED
    BY <2>1, <2>2, <2>3, <2>4, RegistryAssumption DEF RoundInv, RoundPCs, SweepPCs
<1>6. ASSUME NEW c \in Callers, RefreshSkip(c) PROVE RoundInv'
  BY <1>6, RegistryAssumption DEF RefreshSkip, Goto, TypeOK, RoundInv
<1>7. ASSUME NEW c \in Callers, RefreshFirst(c) PROVE RoundInv'
  BY <1>7, RegistryAssumption DEF RefreshFirst, Goto, TypeOK, RoundInv
<1>8. ASSUME NEW c \in Callers, NEW s \in Sweepers, RefreshBackground(c, s) PROVE RoundInv'
  BY <1>8, RegistryAssumption DEF RefreshBackground, Goto, TypeOK, RoundInv
<1>9. ASSUME NEW c \in Callers, ReadAll(c) PROVE RoundInv'
  BY <1>9, RegistryAssumption DEF ReadAll, Goto, TypeOK, RoundInv
<1>10. ASSUME NEW t \in Callers \cup Sweepers, DiscoverAnswered(t) PROVE RoundInv'
  BY <1>10, RegistryAssumption DEF DiscoverAnswered, Goto, TypeOK, RoundInv
<1>11. ASSUME NEW t \in Callers \cup Sweepers, DiscoverFailed(t) PROVE RoundInv'
  BY <1>11, RegistryAssumption DEF DiscoverFailed, Goto, TypeOK, RoundInv
<1>12. ASSUME NEW t \in Callers \cup Sweepers, Reconcile(t) PROVE RoundInv'
  BY <1>12, RegistryAssumption DEF Reconcile, Goto, TypeOK, RoundInv
<1>13. ASSUME NEW t \in Callers \cup Sweepers, NEW d \in Devs, DropMissing(t, d) PROVE RoundInv'
  BY <1>13, RegistryAssumption DEF DropMissing, Goto, TypeOK, RoundInv
<1>14. ASSUME NEW t \in Callers \cup Sweepers, NEW d \in Devs, LogDropped(t, d) PROVE RoundInv'
  BY <1>14, RegistryAssumption DEF LogDropped, Goto, TypeOK, RoundInv
<1>15. ASSUME NEW t \in Callers \cup Sweepers, ReconcileDone(t) PROVE RoundInv'
  BY <1>15, RegistryAssumption DEF ReconcileDone, Goto, TypeOK, RoundInv
<1>16. ASSUME NEW t \in Callers \cup Sweepers, FinishDiscovery(t) PROVE RoundInv'
  BY <1>16, RegistryAssumption DEF FinishDiscovery, Goto, TypeOK, RoundInv
<1>17. ASSUME NEW c \in Callers, NEW d \in Devs, AcquireSlot(c, d) PROVE RoundInv'
  BY <1>17, RegistryAssumption DEF AcquireSlot, Goto, TypeOK, RoundInv
<1>18. ASSUME NEW c \in Callers, NEW d \in Devs, BeginRead(c, d) PROVE RoundInv'
  BY <1>18, RegistryAssumption DEF BeginRead, Goto, TypeOK, RoundInv
<1>19. ASSUME NEW c \in Callers, NEW d \in Devs, NEW up \in BOOLEAN, EndRead(c, d, up)
      PROVE RoundInv'
  BY <1>19, RegistryAssumption DEF EndRead, Goto, TypeOK, RoundInv
<1>20. ASSUME NEW c \in Callers, NEW d \in Devs, EndReader(c, d) PROVE RoundInv'
  BY <1>20, RegistryAssumption DEF EndReader, Goto, TypeOK, RoundInv
<1>21. ASSUME NEW t \in Closers, Close(t) PROVE RoundInv'
  BY <1>21, RegistryAssumption DEF Close, Goto, TypeOK, RoundInv
<1>22. ASSUME NEW t \in Closers, NEW d \in Devs, CloseDevice(t, d) PROVE RoundInv'
  BY <1>22, RegistryAssumption DEF CloseDevice, Goto, TypeOK, RoundInv
<1>23. ASSUME NEW t \in Closers, CloseDone(t) PROVE RoundInv'
  BY <1>23, RegistryAssumption DEF CloseDone, Goto, TypeOK, RoundInv
<1>24. ASSUME UNCHANGED vars PROVE RoundInv'
  BY <1>24, RegistryAssumption DEF vars, TypeOK, RoundInv
<1>25. QED
  BY <1>1, <1>2, <1>3, <1>4, <1>5, <1>6, <1>7, <1>8, <1>9, <1>10, <1>11, <1>12, <1>13, <1>14,
     <1>15, <1>16, <1>17, <1>18, <1>19, <1>20, <1>21, <1>22, <1>23, <1>24 DEF Next,
     Snapshot, Sweep, Reader, Closing

-----------------------------------------------------------------------------
(* Sweeps: one at a time, the first inline and before any snapshot, every  *)
(* later one in the background.                                            *)

SweepInv ==
    /\ OneSweep
    /\ \A t \in Threads : Sweeping(t) => Discovery
    /\ \A c \in Callers : Sweeping(c) => lastDiscovery = Never
    /\ \A s \in Sweepers : Sweeping(s) => lastDiscovery # Never
    /\ Discovery => \A c \in Callers : pc[c] \in {"copy", "wait"} => lastDiscovery # Never
    /\ FirstSnapshotSwept

(* No sweep is under way at first.                                         *)
LEMMA SweepInit == Init => SweepInv
<1> SUFFICES ASSUME Init PROVE SweepInv
  OBVIOUS
<1>1. \A t \in Threads : ~Sweeping(t)
  BY DEF Init, Sweeping, SweepPCs
<1>2. QED
  BY <1>1 DEF Init, SweepInv, OneSweep, FirstSnapshotSwept, Threads

(* The discovering flag, devicesMtx and the devices to be dropped stay     *)
(* with the one goroutine that sweeps.                                     *)
LEMMA SweepStep ==
    ASSUME TypeOK, PCInv, RoundInv, SweepInv, [Next]_vars
    PROVE  SweepInv'
<1> USE DEF registryVars, snapshotVars, roundVars, sweepVars, deviceVars
<1> USE DEF SweepPCs, RoundPCs, Threads, OneSweep, Sweeping, FirstSnapshotSwept
<1>1. ASSUME Tick PROVE SweepInv'
  BY <1>1, RegistryAssumption DEF Tick, Goto, TypeOK, PCInv, RoundInv, SweepInv
<1>2. ASSUME NEW c \in Callers, Call(c) PROVE SweepInv'
  BY <1>2, RegistryAssumption DEF Call, Goto, TypeOK, PCInv, RoundInv, SweepInv
<1>3. ASSUME NEW c \in Callers, SnapshotHit(c) PROVE SweepInv'
  BY <1>3, RegistryAssumption DEF SnapshotHit, Goto, TypeOK, PCInv, RoundInv, SweepInv
<1>4. ASSUME NEW c \in Callers, SnapshotMiss(c) PROVE SweepInv'
  BY <1>4, RegistryAssumption DEF SnapshotMiss, Goto, TypeOK, PCInv, RoundInv, SweepInv
<1>5. ASSUME NEW c \in Callers, SnapshotStore(c) PROVE SweepInv'
  BY <1>5, RegistryAssumption DEF SnapshotStore, Goto, TypeOK, PCInv, RoundInv, SweepInv
<1>6. ASSUME NEW c \in Callers, RefreshSkip(c) PROVE SweepInv'
  BY <1>6, RegistryAssumption DEF RefreshSkip, Goto, TypeOK, PCInv, RoundInv, SweepInv, Due,
     SinceAtLeast
<1>7. ASSUME NEW c \in Callers, RefreshFirst(c) PROVE SweepInv'
  BY <1>7, RegistryAssumption DEF RefreshFirst, Goto, TypeOK, PCInv, RoundInv, SweepInv, Due,
     SinceAtLeast
<1>8. ASSUME NEW c \in Callers, NEW s \in Sweepers, RefreshBackground(c, s) PROVE SweepInv'
  BY <1>8, RegistryAssumption DEF RefreshBackground, Goto, TypeOK, PCInv, RoundInv, SweepInv,
     Due, SinceAtLeast
<1>9. ASSUME NEW c \in Callers, ReadAll(c) PROVE SweepInv'
  BY <1>9, RegistryAssumption DEF ReadAll, Goto, TypeOK, PCInv, RoundInv, SweepInv
<1>10. ASSUME NEW t \in Callers \cup Sweepers, DiscoverAnswered(t) PROVE SweepInv'
  BY <1>10, RegistryAssumption DEF DiscoverAnswered, Goto, TypeOK, PCInv, RoundInv, SweepInv
<1>11. ASSUME NEW t \in Callers \cup Sweepers, DiscoverFailed(t) PROVE SweepInv'
  BY <1>11, RegistryAssumption DEF DiscoverFailed, Goto, TypeOK, PCInv, RoundInv, SweepInv
<1>12. ASSUME NEW t \in Callers \cup Sweepers, Reconcile(t) PROVE SweepInv'
  BY <1>12, RegistryAssumption DEF Reconcile, Goto, TypeOK, PCInv, RoundInv, SweepInv
<1>13. ASSUME NEW t \in Callers \cup Sweepers, NEW d \in Devs, DropMissing(t, d) PROVE SweepInv'
  BY <1>13, RegistryAssumption DEF DropMissing, Goto, TypeOK, PCInv, RoundInv, SweepInv
<1>14. ASSUME NEW t \in Callers \cup Sweepers, NEW d \in Devs, LogDropped(t, d) PROVE SweepInv'
  BY <1>14, RegistryAssumption DEF LogDropped, Goto, TypeOK, PCInv, RoundInv, SweepInv
<1>15. ASSUME NEW t \in Callers \cup Sweepers, ReconcileDone(t) PROVE SweepInv'
  BY <1>15, RegistryAssumption DEF ReconcileDone, Goto, TypeOK, PCInv, RoundInv, SweepInv
<1>16. ASSUME NEW t \in Callers \cup Sweepers, FinishDiscovery(t) PROVE SweepInv'
  BY <1>16, RegistryAssumption DEF FinishDiscovery, Goto, TypeOK, PCInv, RoundInv, SweepInv,
     Never
<1>17. ASSUME NEW c \in Callers, NEW d \in Devs, AcquireSlot(c, d) PROVE SweepInv'
  BY <1>17, RegistryAssumption DEF AcquireSlot, Goto, TypeOK, PCInv, RoundInv, SweepInv
<1>18. ASSUME NEW c \in Callers, NEW d \in Devs, BeginRead(c, d) PROVE SweepInv'
  BY <1>18, RegistryAssumption DEF BeginRead, Goto, TypeOK, PCInv, RoundInv, SweepInv
<1>19. ASSUME NEW c \in Callers, NEW d \in Devs, NEW up \in BOOLEAN, EndRead(c, d, up)
      PROVE SweepInv'
  BY <1>19, RegistryAssumption DEF EndRead, Goto, TypeOK, PCInv, RoundInv, SweepInv
<1>20. ASSUME NEW c \in Callers, NEW d \in Devs, EndReader(c, d) PROVE SweepInv'
  BY <1>20, RegistryAssumption DEF EndReader, Goto, TypeOK, PCInv, RoundInv, SweepInv
<1>21. ASSUME NEW t \in Closers, Close(t) PROVE SweepInv'
  BY <1>21, RegistryAssumption DEF Close, Goto, TypeOK, PCInv, RoundInv, SweepInv
<1>22. ASSUME NEW t \in Closers, NEW d \in Devs, CloseDevice(t, d) PROVE SweepInv'
  BY <1>22, RegistryAssumption DEF CloseDevice, Goto, TypeOK, PCInv, RoundInv, SweepInv
<1>23. ASSUME NEW t \in Closers, CloseDone(t) PROVE SweepInv'
  BY <1>23, RegistryAssumption DEF CloseDone, Goto, TypeOK, PCInv, RoundInv, SweepInv
<1>24. ASSUME UNCHANGED vars PROVE SweepInv'
  BY <1>24, RegistryAssumption DEF vars, TypeOK, PCInv, RoundInv, SweepInv
<1>25. QED
  BY <1>1, <1>2, <1>3, <1>4, <1>5, <1>6, <1>7, <1>8, <1>9, <1>10, <1>11, <1>12, <1>13, <1>14,
     <1>15, <1>16, <1>17, <1>18, <1>19, <1>20, <1>21, <1>22, <1>23, <1>24 DEF Next,
     Snapshot, Sweep, Reader, Closing

-----------------------------------------------------------------------------
(* Configured addresses: never dropped, read by every round, reported.     *)

ManualInv ==
    /\ \A h \in Manual : devices[h] = <<h, 0>>
    /\ \A t \in Callers \cup Sweepers : \A d \in gone[t] : HostOf(d) \notin Manual
    /\ \A c \in Callers : pc[c] = "wait" => \A h \in Manual : reader[c][<<h, 0>>] # "none"
    /\ \A c \in Callers, d \in Devs :
           reader[c][d] \in {"read", "done"} => results[c][d] \in {"up", "down"}
    /\ ManualReported

(* NewRegistry makes a Device for every configured address.                *)
LEMMA ManualInit == Init => ManualInv
  BY RegistryAssumption DEF Init, ManualInv, ManualReported, Threads

(* No sweep replaces or drops the Device of a configured address, and      *)
(* every round reads it.                                                   *)
LEMMA ManualStep ==
    ASSUME TypeOK, RoundInv, ManualInv, [Next]_vars
    PROVE  ManualInv'
<1> USE DEF registryVars, snapshotVars, roundVars, sweepVars, deviceVars
<1> USE DEF ManualReported, Threads
<1>1. ASSUME Tick PROVE ManualInv'
  BY <1>1, RegistryAssumption, DevFacts DEF Tick, Goto, TypeOK, ManualInv
<1>2. ASSUME NEW c \in Callers, Call(c) PROVE ManualInv'
  BY <1>2, RegistryAssumption, DevFacts DEF Call, Goto, TypeOK, ManualInv
<1>3. ASSUME NEW c \in Callers, SnapshotHit(c) PROVE ManualInv'
  BY <1>3, RegistryAssumption, DevFacts DEF SnapshotHit, Goto, TypeOK, ManualInv
<1>4. ASSUME NEW c \in Callers, SnapshotMiss(c) PROVE ManualInv'
  BY <1>4, RegistryAssumption, DevFacts DEF SnapshotMiss, Goto, TypeOK, ManualInv
<1>5. ASSUME NEW c \in Callers, SnapshotStore(c) PROVE ManualInv'
  <2>1. \A b \in Callers : pc'[b] = IF b = c THEN "idle" ELSE pc[b]
    BY <1>5 DEF SnapshotStore, Goto, TypeOK
  <2>2. \A b \in Callers, d \in Devs :
            /\ reader'[b][d] = IF b = c THEN "none" ELSE reader[b][d]
            /\ results'[b][d] = IF b = c THEN "absent" ELSE results[b][d]
    BY <1>5 DEF SnapshotStore, TypeOK
  <2>3. \A h \in Manual : reader[c][<<h, 0>>] = "done"
    BY <1>5, RegistryAssumption, DevFacts DEF SnapshotStore, ManualInv
  <2>4. ManualReported'
    BY <1>5, <2>3, RegistryAssumption, DevFacts DEF SnapshotStore, ManualInv, ManualReported
  <2>5. UNCHANGED <<devices, gone>>
    BY <1>5 DEF SnapshotStore
  <2>6. QED
    BY <2>1, <2>2, <2>4, <2>5, RegistryAssumption, DevFacts DEF ManualInv
<1>6. ASSUME NEW c \in Callers, RefreshSkip(c) PROVE ManualInv'
  BY <1>6, RegistryAssumption, DevFacts DEF RefreshSkip, Goto, TypeOK, ManualInv
<1>7. ASSUME NEW c \in Callers, RefreshFirst(c) PROVE ManualInv'
  BY <1>7, RegistryAssumption, DevFacts DEF RefreshFirst, Goto, TypeOK, ManualInv
<1>8. ASSUME NEW c \in Callers, NEW s \in Sweepers, RefreshBackground(c, s) PROVE ManualInv'
  <2>1. \A b \in Callers : pc'[b] = "wait" => pc[b] = "wait"
    BY <1>8, RegistryAssumption DEF RefreshBackground, TypeOK
  <2>2. UNCHANGED <<devices, gone, reader, results, snapshot>>
    BY <1>8 DEF RefreshBackground
  <2>3. QED
    BY <2>1, <2>2 DEF ManualInv, ManualReported
<1>9. ASSUME NEW c \in Callers, ReadAll(c) PROVE ManualInv'
  <2>1. \A h \in Manual : InFleet(<<h, 0>>)
    BY RegistryAssumption, DevFacts DEF InFleet, ManualInv
  <2>2. \A h \in Manual : reader'[c][<<h, 0>>] = "queued"
    BY <1>9, <2>1, RegistryAssumption, DevFacts DEF ReadAll, TypeOK
  <2>3. \A d \in Devs : reader'[c][d] \in {"queued", "none"}
    BY <1>9 DEF ReadAll, TypeOK
  <2>4. \A b \in Callers : b # c => reader'[b] = reader[b]
    BY <1>9 DEF ReadAll, TypeOK
  <2>5. \A b \in Callers : pc'[b] = IF b = c THEN "wait" ELSE pc[b]
    BY <1>9 DEF ReadAll, Goto, TypeOK
  <2>6. UNCHANGED <<devices, gone, results, snapshot>>
    BY <1>9 DEF ReadAll
  <2>7. QED
    BY <2>2, <2>3, <2>4, <2>5, <2>6 DEF ManualInv
<1>10. ASSUME NEW t \in Callers \cup Sweepers, DiscoverAnswered(t) PROVE ManualInv'
  BY <1>10, RegistryAssumption, DevFacts DEF DiscoverAnswered, Goto, TypeOK, ManualInv
<1>11. ASSUME NEW t \in Callers \cup Sweepers, DiscoverFailed(t) PROVE ManualInv'
  BY <1>11, RegistryAssumption, DevFacts DEF DiscoverFailed, Goto, TypeOK, ManualInv
<1>12. ASSUME NEW t \in Callers \cup Sweepers, Reconcile(t) PROVE ManualInv'
  <2>1. \A h \in Manual : Merged(found[t])[h] = devices[h]
    <3>1. ASSUME NEW h \in Manual PROVE h \in Hosts /\ devices[h] # Nobody
      <4>1. h \in Hosts /\ Nobody \notin Devs
        BY RegistryAssumption
      <4>2. devices[h] = <<h, 0>>
        BY DEF ManualInv
      <4>3. <<h, 0>> \in Devs
        BY <4>1, DevFacts
      <4>4. QED
        BY <4>1, <4>2, <4>3
    <3>2. QED
      BY <3>1 DEF Merged
  <2>2. \A d \in Missing(found[t], Merged(found[t])) : HostOf(d) \notin Manual
    BY DEF Missing
  <2>3. \A u \in Threads :
            /\ pc'[u] = IF u = t THEN "drop" ELSE pc[u]
            /\ gone'[u] = IF u = t THEN Missing(found[t], Merged(found[t])) ELSE gone[u]
    BY <1>12 DEF Reconcile, Goto, TypeOK
  <2>4. devices' = Merged(found[t]) /\ UNCHANGED <<reader, results, snapshot>>
    BY <1>12 DEF Reconcile
  <2>5. QED
    BY <2>1, <2>2, <2>3, <2>4 DEF ManualInv, ManualReported
<1>13. ASSUME NEW t \in Callers \cup Sweepers, NEW d \in Devs, DropMissing(t, d)
      PROVE ManualInv'
  BY <1>13, RegistryAssumption, DevFacts DEF DropMissing, Goto, TypeOK, ManualInv
<1>14. ASSUME NEW t \in Callers \cup Sweepers, NEW d \in Devs, LogDropped(t, d) PROVE ManualInv'
  BY <1>14, RegistryAssumption, DevFacts DEF LogDropped, Goto, TypeOK, ManualInv
<1>15. ASSUME NEW t \in Callers \cup Sweepers, ReconcileDone(t) PROVE ManualInv'
  BY <1>15, RegistryAssumption, DevFacts DEF ReconcileDone, Goto, TypeOK, ManualInv
<1>16. ASSUME NEW t \in Callers \cup Sweepers, FinishDiscovery(t) PROVE ManualInv'
  BY <1>16, RegistryAssumption, DevFacts DEF FinishDiscovery, Goto, TypeOK, ManualInv
<1>17. ASSUME NEW c \in Callers, NEW d \in Devs, AcquireSlot(c, d) PROVE ManualInv'
  BY <1>17, RegistryAssumption, DevFacts DEF AcquireSlot, Goto, TypeOK, ManualInv
<1>18. ASSUME NEW c \in Callers, NEW d \in Devs, BeginRead(c, d) PROVE ManualInv'
  BY <1>18, RegistryAssumption, DevFacts DEF BeginRead, Goto, TypeOK, ManualInv
<1>19. ASSUME NEW c \in Callers, NEW d \in Devs, NEW up \in BOOLEAN, EndRead(c, d, up)
      PROVE ManualInv'
  BY <1>19, RegistryAssumption, DevFacts DEF EndRead, Goto, TypeOK, ManualInv
<1>20. ASSUME NEW c \in Callers, NEW d \in Devs, EndReader(c, d) PROVE ManualInv'
  BY <1>20, RegistryAssumption, DevFacts DEF EndReader, Goto, TypeOK, ManualInv
<1>21. ASSUME NEW t \in Closers, Close(t) PROVE ManualInv'
  BY <1>21, RegistryAssumption, DevFacts DEF Close, Goto, TypeOK, ManualInv
<1>22. ASSUME NEW t \in Closers, NEW d \in Devs, CloseDevice(t, d) PROVE ManualInv'
  BY <1>22, RegistryAssumption, DevFacts DEF CloseDevice, Goto, TypeOK, ManualInv
<1>23. ASSUME NEW t \in Closers, CloseDone(t) PROVE ManualInv'
  BY <1>23, RegistryAssumption, DevFacts DEF CloseDone, Goto, TypeOK, ManualInv
<1>24. ASSUME UNCHANGED vars PROVE ManualInv'
  BY <1>24, RegistryAssumption, DevFacts DEF vars, TypeOK, ManualInv
<1>25. QED
  BY <1>1, <1>2, <1>3, <1>4, <1>5, <1>6, <1>7, <1>8, <1>9, <1>10, <1>11, <1>12, <1>13, <1>14,
     <1>15, <1>16, <1>17, <1>18, <1>19, <1>20, <1>21, <1>22, <1>23, <1>24 DEF Next,
     Snapshot, Sweep, Reader, Closing

-----------------------------------------------------------------------------
(* Readers of one round: one for each address, within the semaphore.       *)

SlotInv ==
    /\ \A c \in Callers : Cardinality(InSlot(c)) <= Concurrency
    /\ \A c \in Callers : \A d, e \in Devs :
           reader[c][d] # "none" /\ reader[c][e] # "none" /\ HostOf(d) = HostOf(e) => d = e

(* There are finitely many Device objects in a bounded run.                *)
LEMMA DevsFinite == IsFiniteSet(Devs)
<1>1. IsFiniteSet(0 .. MaxTime)
  BY RegistryAssumption, FS_Interval
<1>2. QED
  BY <1>1, HostsFinite, FS_Product DEF Devs

(* The readers in a slot of the semaphore can be counted.                  *)
LEMMA InSlotFinite ==
    \A c \in Callers : IsFiniteSet(InSlot(c)) /\ Cardinality(InSlot(c)) \in Nat
  BY DevsFinite, FS_Subset, FS_CardinalityType DEF InSlot

(* A step that takes no slot keeps the semaphore within its bound.         *)
LEMMA SlotsShrink ==
    ASSUME SlotInv, \A c \in Callers : InSlot(c)' \subseteq InSlot(c)
    PROVE  \A c \in Callers : Cardinality(InSlot(c)') <= Concurrency
<1> SUFFICES ASSUME NEW c \in Callers PROVE Cardinality(InSlot(c)') <= Concurrency
  OBVIOUS
<1>1. Cardinality(InSlot(c)') <= Cardinality(InSlot(c))
  BY InSlotFinite, FS_Subset
<1>2. Cardinality(InSlot(c)') \in Nat
  BY InSlotFinite, FS_Subset, FS_CardinalityType
<1>3. QED
  BY <1>1, <1>2, InSlotFinite, RegistryAssumption DEF SlotInv

(* No slot of the semaphore is taken at first.                             *)
LEMMA SlotInit == Init => SlotInv
<1> SUFFICES ASSUME Init PROVE SlotInv
  OBVIOUS
<1>1. \A c \in Callers : InSlot(c) = {}
  BY DEF Init, InSlot, SlotPhases
<1>2. \A c \in Callers : Cardinality(InSlot(c)) <= Concurrency
  BY <1>1, FS_EmptySet, RegistryAssumption
<1>3. \A c \in Callers, d \in Devs : reader[c][d] = "none"
  BY DEF Init
<1>4. QED
  BY <1>2, <1>3 DEF SlotInv

(* readAll never has more than Concurrency readers in a slot, nor two      *)
(* readers for one address.                                                *)
LEMMA SlotStep ==
    ASSUME TypeOK, RoundInv, SlotInv, [Next]_vars
    PROVE  SlotInv'
<1>1. CASE UNCHANGED reader
  BY <1>1 DEF SlotInv, InSlot
<1>2. ASSUME NEW c \in Callers, SnapshotStore(c) PROVE SlotInv'
  <2>1. \A b \in Callers : InSlot(b)' \subseteq InSlot(b)
    BY <1>2 DEF SnapshotStore, InSlot, SlotPhases, TypeOK
  <2>2. \A b \in Callers, d \in Devs : reader'[b][d] # "none" => reader[b][d] # "none"
    BY <1>2 DEF SnapshotStore, TypeOK
  <2>3. QED
    BY <2>1, <2>2, SlotsShrink DEF SlotInv
<1>3. ASSUME NEW c \in Callers, ReadAll(c) PROVE SlotInv'
  <2>1. \A b \in Callers : InSlot(b)' \subseteq InSlot(b)
    BY <1>3 DEF ReadAll, InSlot, SlotPhases, TypeOK
  <2>2. \A d, e \in Devs : InFleet(d) /\ InFleet(e) /\ HostOf(d) = HostOf(e) => d = e
    BY DEF InFleet
  <2>3. \A b \in Callers, d \in Devs :
            reader'[b][d] # "none" => IF b = c THEN InFleet(d) ELSE reader[b][d] # "none"
    BY <1>3 DEF ReadAll, TypeOK
  <2>4. QED
    BY <2>1, <2>2, <2>3, SlotsShrink DEF SlotInv
<1>4. ASSUME NEW c \in Callers, NEW d \in Devs, AcquireSlot(c, d) PROVE SlotInv'
  <2>1. InSlot(c)' = InSlot(c) \cup {d} /\ d \notin InSlot(c)
    BY <1>4 DEF AcquireSlot, InSlot, SlotPhases, TypeOK
  <2>2. Cardinality(InSlot(c)') = Cardinality(InSlot(c)) + 1
    BY <2>1, InSlotFinite, FS_AddElement
  <2>3. Cardinality(InSlot(c)) < Concurrency
    BY <1>4 DEF AcquireSlot
  <2>4. \A b \in Callers : b # c => InSlot(b)' = InSlot(b)
    BY <1>4 DEF AcquireSlot, InSlot, TypeOK
  <2>5. \A b \in Callers, e \in Devs : reader'[b][e] # "none" => reader[b][e] # "none"
    BY <1>4 DEF AcquireSlot, TypeOK
  <2>6. \A b \in Callers : Cardinality(InSlot(b)') <= Concurrency
    BY <2>2, <2>3, <2>4, InSlotFinite, RegistryAssumption DEF SlotInv
  <2>7. QED
    BY <2>5, <2>6 DEF SlotInv
<1>5. ASSUME NEW c \in Callers, NEW d \in Devs,
             BeginRead(c, d) \/ (\E up \in BOOLEAN : EndRead(c, d, up)) \/ EndReader(c, d)
      PROVE  SlotInv'
  <2>1. /\ \A b \in Callers : InSlot(b)' \subseteq InSlot(b)
        /\ \A b \in Callers, e \in Devs : reader'[b][e] # "none" => reader[b][e] # "none"
    <3>1. PICK phase \in {"reading", "read", "done"} :
              /\ reader' = [reader EXCEPT ![c][d] = phase]
              /\ reader[c][d] \in SlotPhases
      BY <1>5 DEF BeginRead, EndRead, EndReader, SlotPhases
    <3>2. \A b \in Callers, e \in Devs :
              reader'[b][e] = IF b = c /\ e = d THEN phase ELSE reader[b][e]
      BY <3>1 DEF TypeOK
    <3>3. QED
      BY <3>1, <3>2 DEF InSlot, SlotPhases
  <2>2. QED
    BY <2>1, SlotsShrink DEF SlotInv
<1>6. \/ UNCHANGED reader
      \/ \E c \in Callers : SnapshotStore(c) \/ ReadAll(c)
      \/ \E c \in Callers, d \in Devs :
             \/ AcquireSlot(c, d) \/ BeginRead(c, d) \/ EndReader(c, d)
             \/ \E up \in BOOLEAN : EndRead(c, d, up)
  BY DEF Next, vars, registryVars, snapshotVars, roundVars, sweepVars, deviceVars,
         Snapshot, Sweep, Reader, Closing, Tick, Call, SnapshotHit, SnapshotMiss,
         RefreshSkip, RefreshFirst, RefreshBackground, DiscoverAnswered, DiscoverFailed,
         Reconcile, DropMissing, LogDropped, ReconcileDone, FinishDiscovery, Close,
         CloseDevice, CloseDone
<1>7. QED
  BY <1>1, <1>2, <1>3, <1>4, <1>5, <1>6

(* The rounds exclude each other, so the bound of one is the bound of all. *)
LEMMA SlotsBounded == RoundInv /\ SlotInv => ReadsBounded
<1> SUFFICES ASSUME RoundInv, SlotInv PROVE ReadsBounded
  OBVIOUS
<1>1. \A c \in Callers : InSlot(c) # {} => snapshotMtx = c
  BY DEF RoundInv, InSlot, SlotPhases, RoundPCs
<1>2. Cardinality(BeingRead) <= Concurrency
  <2>1. CASE \E c \in Callers : InSlot(c) # {}
    <3>1. PICK c \in Callers : InSlot(c) # {}
      BY <2>1
    <3>2. BeingRead = InSlot(c)
      BY <3>1, <1>1 DEF BeingRead, InSlot
    <3>3. QED
      BY <3>2 DEF SlotInv
  <2>2. CASE \A c \in Callers : InSlot(c) = {}
    <3>1. BeingRead = {}
      BY <2>2 DEF BeingRead
    <3>2. QED
      BY <3>1, FS_EmptySet, RegistryAssumption
  <2>3. QED
    BY <2>1, <2>2
<1>3. \A b, c \in Callers : \A d \in InSlot(b), e \in InSlot(c) :
          HostOf(d) = HostOf(e) => b = c /\ d = e
  BY <1>1 DEF SlotInv, InSlot, SlotPhases
<1>4. QED
  BY <1>2, <1>3 DEF ReadsBounded

-----------------------------------------------------------------------------
(* The invariant as a whole, and what it gives.                            *)

IndInv == TypeOK /\ PCInv /\ RoundInv /\ SweepInv /\ ManualInv /\ SlotInv

(* The parts together are an invariant of every behaviour.                 *)
LEMMA Inductive == Spec => []IndInv
<1>1. Init => IndInv
  BY TypeInit, PCInit, RoundInit, SweepInit, ManualInit, SlotInit DEF IndInv
<1>2. IndInv /\ [Next]_vars => IndInv'
  BY TypeStep, PCStep, RoundStep, SweepStep, ManualStep, SlotStep DEF IndInv
<1>3. QED
  BY <1>1, <1>2, PTL DEF Spec

(* OneSweep: sweeps never overlap and the discovering flag is exact, for   *)
(* any number of collectors and scrapes (registry.go, refreshDevices and   *)
(* runDiscovery).                                                          *)
THEOREM SweepsExclusive == Spec => []OneSweep
<1>1. IndInv => OneSweep
  BY DEF IndInv, SweepInv
<1>2. QED
  BY <1>1, Inductive, PTL

(* ReadsBounded: the reads in flight are within Concurrency and never two  *)
(* of one address (registry.go, readAll).                                  *)
THEOREM ReadsExclusive == Spec => []ReadsBounded
<1>1. IndInv => ReadsBounded
  BY SlotsBounded DEF IndInv
<1>2. QED
  BY <1>1, Inductive, PTL

(* While a scrape is on its way to devicesMtx no Device is being read: the *)
(* reads belong to the one round there is.                                 *)
LEMMA NeverWaits == IndInv => ScrapeNeverWaitsOnRead
<1>1. ASSUME IndInv, NEW c \in Callers, pc[c] \in {"refresh", "copy"}, NEW d \in Devs
      PROVE  mu[d] = Nobody
  <2>1. \A b \in Callers : mu[d] = b => b = c /\ pc[b] = "wait"
    BY <1>1 DEF IndInv, RoundInv, RoundPCs
  <2>2. QED
    BY <1>1, <2>1 DEF IndInv, TypeOK
<1>2. QED
  BY <1>1 DEF ScrapeNeverWaitsOnRead, IndInv, TypeOK

(* ScrapeNeverWaitsOnRead: a scrape that waits for devicesMtx never waits  *)
(* for a device's answer (registry.go, reconcile and Close).               *)
THEOREM ScrapeUnblocked == Spec => []ScrapeNeverWaitsOnRead
  BY NeverWaits, Inductive, PTL

(* OnlyFirstRoundSweepsInline: no round after the first one sweeps inline  *)
(* (registry.go, refreshDevices).                                          *)
THEOREM InlineSweepOnlyFirst == Spec => []OnlyFirstRoundSweepsInline
<1>1. IndInv => OnlyFirstRoundSweepsInline
  BY DEF IndInv, SweepInv, OnlyFirstRoundSweepsInline, FirstSnapshotSwept, Threads
<1>2. QED
  BY <1>1, Inductive, PTL

(* FirstSnapshotSwept: there is no snapshot before the first sweep has     *)
(* ended (registry.go, refreshDevices).                                    *)
THEOREM SweptBeforeSnapshot == Spec => []FirstSnapshotSwept
<1>1. IndInv => FirstSnapshotSwept
  BY DEF IndInv, SweepInv
<1>2. QED
  BY <1>1, Inductive, PTL

(* ManualReported: every configured address is in every snapshot           *)
(* (registry.go, NewRegistry, reconcile and readAll).                      *)
THEOREM ManualAlwaysReported == Spec => []ManualReported
<1>1. IndInv => ManualReported
  BY DEF IndInv, ManualInv
<1>2. QED
  BY <1>1, Inductive, PTL

-----------------------------------------------------------------------------
(* The registry implements FleetView.  Beyond IndInv: devicesMtx belongs   *)
(* to the thread that reconciles or closes, what reconcile still has to    *)
(* drop is in the fleet, and a reader has reported iff it has read.        *)

RefInv ==
    /\ \A t \in Threads : pc[t] \in {"drop", "log", "close"} => devicesMtx = t
    /\ \A t \in Threads : pc[t] = "drop" => \A d \in gone[t] : InFleet(d)
    /\ \A t \in Threads : pc[t] = "log" =>
           \A d, e \in gone[t] : ~InFleet(d) /\ ~InFleet(e) => d = e
    /\ \A t \in Callers \cup Sweepers : gone[t] # {} => ~keepMissing
    /\ \A c \in Callers, d \in Devs :
           IF reader[c][d] \in {"read", "done"}
           THEN results[c][d] \in {"up", "down"}
           ELSE results[c][d] = "absent"

(* Before the first round there is nothing to publish.                     *)
LEMMA RefInit == Init => RefInv
  BY DEF Init, RefInv, Threads

(* The results of a round are always exactly the reports of its readers.   *)
LEMMA RefStep ==
    ASSUME IndInv, RefInv, [Next]_vars
    PROVE  RefInv'
<1> USE DEF registryVars, snapshotVars, roundVars, sweepVars, deviceVars
<1> USE DEF IndInv, Threads
<1>1. ASSUME Tick PROVE RefInv'
  BY <1>1, RegistryAssumption DEF Tick, Goto, TypeOK, PCInv, RoundInv, RefInv, InFleet
<1>2. ASSUME NEW c \in Callers, Call(c) PROVE RefInv'
  BY <1>2, RegistryAssumption DEF Call, Goto, TypeOK, PCInv, RoundInv, RefInv, InFleet
<1>3. ASSUME NEW c \in Callers, SnapshotHit(c) PROVE RefInv'
  BY <1>3, RegistryAssumption DEF SnapshotHit, Goto, TypeOK, PCInv, RoundInv, RefInv, InFleet
<1>4. ASSUME NEW c \in Callers, SnapshotMiss(c) PROVE RefInv'
  BY <1>4, RegistryAssumption DEF SnapshotMiss, Goto, TypeOK, PCInv, RoundInv, RefInv, InFleet
<1>5. ASSUME NEW c \in Callers, SnapshotStore(c) PROVE RefInv'
  BY <1>5, RegistryAssumption DEF SnapshotStore, Goto, TypeOK, PCInv, RoundInv, RefInv, InFleet
<1>6. ASSUME NEW c \in Callers, RefreshSkip(c) PROVE RefInv'
  BY <1>6, RegistryAssumption DEF RefreshSkip, Goto, TypeOK, PCInv, RoundInv, RefInv, InFleet
<1>7. ASSUME NEW c \in Callers, RefreshFirst(c) PROVE RefInv'
  BY <1>7, RegistryAssumption DEF RefreshFirst, Goto, TypeOK, PCInv, RoundInv, RefInv, InFleet
<1>8. ASSUME NEW c \in Callers, NEW s \in Sweepers, RefreshBackground(c, s) PROVE RefInv'
  <2>1. \A t \in Threads : pc'[t] \in {"drop", "log", "close"} => pc'[t] = pc[t]
    BY <1>8, RegistryAssumption DEF RefreshBackground, TypeOK
  <2>2. UNCHANGED <<keepMissing, devices, devicesMtx, gone, reader, results>>
    BY <1>8 DEF RefreshBackground
  <2>3. QED
    BY <2>1, <2>2 DEF RefInv, InFleet
<1>9. ASSUME NEW c \in Callers, ReadAll(c) PROVE RefInv'
  BY <1>9, RegistryAssumption DEF ReadAll, Goto, TypeOK, PCInv, RoundInv, RefInv, InFleet
<1>10. ASSUME NEW t \in Callers \cup Sweepers, DiscoverAnswered(t) PROVE RefInv'
  BY <1>10, RegistryAssumption DEF DiscoverAnswered, Goto, TypeOK, PCInv, RoundInv, RefInv,
     InFleet
<1>11. ASSUME NEW t \in Callers \cup Sweepers, DiscoverFailed(t) PROVE RefInv'
  BY <1>11, RegistryAssumption DEF DiscoverFailed, Goto, TypeOK, PCInv, RoundInv, RefInv,
     InFleet
<1>12. ASSUME NEW t \in Callers \cup Sweepers, Reconcile(t) PROVE RefInv'
  <2>1. \A u \in Threads : pc[u] \notin {"drop", "log", "close"}
    BY <1>12, RegistryAssumption DEF Reconcile, RefInv
  <2>2. \A u \in Threads : pc'[u] = IF u = t THEN "drop" ELSE pc[u]
    BY <1>12 DEF Reconcile, Goto, TypeOK
  <2>3. \A u \in Threads :
            gone'[u] = IF u = t THEN Missing(found[t], Merged(found[t])) ELSE gone[u]
    BY <1>12 DEF Reconcile, TypeOK
  <2>4. \A d \in Missing(found[t], Merged(found[t])) : InFleet(d)' /\ ~keepMissing
    BY <1>12 DEF Reconcile, Missing, InFleet
  <2>5. devicesMtx' = t /\ UNCHANGED <<keepMissing, reader, results>>
    BY <1>12 DEF Reconcile
  <2>6. QED
    BY <2>1, <2>2, <2>3, <2>4, <2>5 DEF RefInv
<1>13. ASSUME NEW t \in Callers \cup Sweepers, NEW d \in Devs, DropMissing(t, d) PROVE RefInv'
  BY <1>13, RegistryAssumption DEF DropMissing, Goto, TypeOK, PCInv, RoundInv, RefInv, InFleet
<1>14. ASSUME NEW t \in Callers \cup Sweepers, NEW d \in Devs, LogDropped(t, d) PROVE RefInv'
  BY <1>14, RegistryAssumption DEF LogDropped, Goto, TypeOK, PCInv, RoundInv, RefInv, InFleet
<1>15. ASSUME NEW t \in Callers \cup Sweepers, ReconcileDone(t) PROVE RefInv'
  BY <1>15, RegistryAssumption DEF ReconcileDone, Goto, TypeOK, PCInv, RoundInv, RefInv, InFleet
<1>16. ASSUME NEW t \in Callers \cup Sweepers, FinishDiscovery(t) PROVE RefInv'
  BY <1>16, RegistryAssumption DEF FinishDiscovery, Goto, TypeOK, PCInv, RoundInv, RefInv,
     InFleet
<1>17. ASSUME NEW c \in Callers, NEW d \in Devs, AcquireSlot(c, d) PROVE RefInv'
  BY <1>17, RegistryAssumption DEF AcquireSlot, Goto, TypeOK, PCInv, RoundInv, RefInv, InFleet
<1>18. ASSUME NEW c \in Callers, NEW d \in Devs, BeginRead(c, d) PROVE RefInv'
  BY <1>18, RegistryAssumption DEF BeginRead, Goto, TypeOK, PCInv, RoundInv, RefInv, InFleet
<1>19. ASSUME NEW c \in Callers, NEW d \in Devs, NEW up \in BOOLEAN, EndRead(c, d, up)
      PROVE RefInv'
  BY <1>19, RegistryAssumption DEF EndRead, Goto, TypeOK, PCInv, RoundInv, RefInv, InFleet
<1>20. ASSUME NEW c \in Callers, NEW d \in Devs, EndReader(c, d) PROVE RefInv'
  BY <1>20, RegistryAssumption DEF EndReader, Goto, TypeOK, PCInv, RoundInv, RefInv, InFleet
<1>21. ASSUME NEW t \in Closers, Close(t) PROVE RefInv'
  BY <1>21, RegistryAssumption DEF Close, Goto, TypeOK, PCInv, RoundInv, RefInv, InFleet
<1>22. ASSUME NEW t \in Closers, NEW d \in Devs, CloseDevice(t, d) PROVE RefInv'
  BY <1>22, RegistryAssumption DEF CloseDevice, Goto, TypeOK, PCInv, RoundInv, RefInv, InFleet
<1>23. ASSUME NEW t \in Closers, CloseDone(t) PROVE RefInv'
  BY <1>23, RegistryAssumption DEF CloseDone, Goto, TypeOK, PCInv, RoundInv, RefInv, InFleet
<1>24. ASSUME UNCHANGED vars PROVE RefInv'
  BY <1>24, RegistryAssumption DEF vars, TypeOK, PCInv, RoundInv, RefInv, InFleet
<1>25. QED
  BY <1>1, <1>2, <1>3, <1>4, <1>5, <1>6, <1>7, <1>8, <1>9, <1>10, <1>11, <1>12, <1>13, <1>14,
     <1>15, <1>16, <1>17, <1>18, <1>19, <1>20, <1>21, <1>22, <1>23, <1>24 DEF Next,
     Snapshot, Sweep, Reader, Closing

(* The steps of a reader, and of a sweep that changes no Device, are        *)
(* invisible to FleetView.                                                 *)
LEMMA RoundDevicesStutter ==
    ASSUME IndInv, NEW c \in Callers, NEW d \in Devs, Reader(c, d)
    PROVE  UNCHANGED <<keepMissing, Fleet, RoundDevices, snapshot>>
<1>1. /\ \A b \in Callers, e \in Devs : reader'[b][e] # "none" <=> reader[b][e] # "none"
      /\ UNCHANGED <<keepMissing, pc, devices, snapshot>>
  BY DEF Reader, AcquireSlot, BeginRead, EndRead, EndReader, IndInv, TypeOK,
         registryVars, snapshotVars
<1>2. UNCHANGED Fleet
  BY <1>1 DEF Fleet, InFleet
<1>3. UNCHANGED RoundDevices
  BY <1>1 DEF RoundDevices, InRound
<1>4. QED
  BY <1>1, <1>2, <1>3

(* A step that moves no caller into or out of the wait and touches neither *)
(* readers nor the fleet nor the snapshot is invisible too.                *)
LEMMA QuietStutter ==
    ASSUME UNCHANGED <<keepMissing, devices, reader, snapshot>>,
           \A c \in Callers : InRound(c)' <=> InRound(c)
    PROVE  UNCHANGED <<keepMissing, Fleet, RoundDevices, snapshot>>
  BY DEF Fleet, InFleet, RoundDevices

(* The initial states are initial states of FleetView.                     *)
LEMMA ViewInit == Init => View!Init
<1> SUFFICES ASSUME Init PROVE View!Init
  OBVIOUS
<1>1. Fleet = Manual \X {0}
  BY RegistryAssumption DEF Init, Fleet, InFleet, HostOf, Devs
<1>2. RoundDevices = {Nobody}
  BY DEF Init, RoundDevices, InRound, Threads
<1>3. QED
  BY <1>1, <1>2 DEF Init, View!Init

(* Every step of the registry is a step of FleetView or invisible to it.   *)
LEMMA ViewStep ==
    ASSUME IndInv, RefInv, [Next]_vars
    PROVE  View!Next \/ UNCHANGED <<keepMissing, Fleet, RoundDevices, snapshot>>
<1> DEFINE Goal == View!Next \/ UNCHANGED <<keepMissing, Fleet, RoundDevices, snapshot>>
<1> USE DEF IndInv
<1>1. ASSUME NEW c \in Callers, ReadAll(c) PROVE View!Begin
  <2>1. \A b \in Callers : ~InRound(b)
    BY <1>1 DEF ReadAll, InRound, RoundInv, RoundPCs
  <2>2. \A b \in Callers : InRound(b)' <=> b = c
    BY <1>1, <2>1 DEF ReadAll, Goto, InRound, TypeOK, Threads
  <2>3. \A d \in Devs : reader'[c][d] # "none" <=> InFleet(d)
    BY <1>1 DEF ReadAll, TypeOK
  <2>4. RoundDevices' = Fleet
    BY <2>2, <2>3 DEF RoundDevices, Fleet
  <2>5. RoundDevices = {Nobody}
    BY <2>1 DEF RoundDevices
  <2>6. UNCHANGED <<keepMissing, Fleet, snapshot>>
    BY <1>1 DEF ReadAll, Fleet, InFleet, registryVars, snapshotVars
  <2>7. QED
    BY <2>4, <2>5, <2>6 DEF View!Begin
<1>2. ASSUME NEW c \in Callers, SnapshotStore(c) PROVE View!Publish
  <2>1. \A b \in Callers : InRound(b) <=> b = c
    BY <1>2 DEF SnapshotStore, InRound, RoundInv, RoundPCs
  <2>2. \A b \in Callers : ~InRound(b)'
    BY <1>2, <2>1 DEF SnapshotStore, Goto, InRound, TypeOK, Threads
  <2>3. RoundDevices = {d \in Devs : reader[c][d] # "none"}
    BY <2>1 DEF RoundDevices
  <2>4. \A d \in Devs : /\ results[c][d] \in {"absent", "up", "down"}
                        /\ results[c][d] = "absent" <=> reader[c][d] = "none"
    BY <1>2 DEF SnapshotStore, RefInv, TypeOK
  <2>5. results[c] \in [Devs -> {"absent", "up", "down"}]
    BY <2>4 DEF TypeOK
  <2>6. snapshot' \in View!Reports(RoundDevices)
    BY <1>2, <2>3, <2>4, <2>5 DEF SnapshotStore, View!Reports
  <2>7. RoundDevices # {Nobody} /\ RoundDevices' = {Nobody}
    BY <2>2, <2>3, RegistryAssumption DEF RoundDevices
  <2>8. UNCHANGED <<keepMissing, Fleet>>
    BY <1>2 DEF SnapshotStore, Fleet, InFleet, registryVars
  <2>9. QED
    BY <2>6, <2>7, <2>8 DEF View!Publish
<1>3. ASSUME NEW t \in Callers \cup Sweepers, Reconcile(t) PROVE View!Grow
  <2>1. \A h \in Hosts : devices[h] # Nobody => devices'[h] = devices[h]
    BY <1>3 DEF Reconcile, Merged
  <2>2. Fleet \subseteq Fleet'
    BY <2>1, DevFacts, RegistryAssumption DEF Fleet, InFleet
  <2>3. \A c \in Callers : InRound(c)' <=> InRound(c)
    BY <1>3 DEF Reconcile, Goto, InRound, TypeOK, Threads
  <2>4. UNCHANGED <<keepMissing, RoundDevices, snapshot>>
    BY <1>3, <2>3 DEF Reconcile, RoundDevices, roundVars, snapshotVars
  <2>5. QED
    BY <2>2, <2>4 DEF View!Grow
<1>4. ASSUME NEW t \in Callers \cup Sweepers, NEW d \in Devs, DropMissing(t, d)
      PROVE  View!Shrink
  <2>1. InFleet(d) /\ ~keepMissing /\ HostOf(d) \notin Manual
    BY <1>4 DEF DropMissing, RefInv, ManualInv, Threads
  <2>2. Fleet' = Fleet \ {d}
    BY <1>4, <2>1, DevFacts, RegistryAssumption DEF DropMissing, Fleet, InFleet, TypeOK
  <2>3. d \in Fleet \ (Manual \X {0})
    BY <2>1 DEF Fleet, HostOf
  <2>4. \A c \in Callers : InRound(c)' <=> InRound(c)
    BY <1>4 DEF DropMissing, Goto, InRound, TypeOK, Threads
  <2>5. UNCHANGED <<keepMissing, RoundDevices, snapshot>>
    BY <1>4, <2>4 DEF DropMissing, RoundDevices, roundVars, snapshotVars
  <2>6. QED
    BY <2>1, <2>2, <2>3, <2>5 DEF View!Shrink
<1>5. ASSUME NEW c \in Callers, NEW d \in Devs, Reader(c, d) PROVE Goal
  BY <1>5, RoundDevicesStutter
<1>6. ASSUME \/ Tick
             \/ \E c \in Callers :
                    \/ Call(c) \/ SnapshotHit(c) \/ SnapshotMiss(c)
                    \/ RefreshSkip(c) \/ RefreshFirst(c)
                    \/ \E s \in Sweepers : RefreshBackground(c, s)
             \/ \E t \in Callers \cup Sweepers :
                    \/ DiscoverAnswered(t) \/ DiscoverFailed(t)
                    \/ ReconcileDone(t) \/ FinishDiscovery(t)
                    \/ \E d \in Devs : LogDropped(t, d)
             \/ \E t \in Closers : Close(t) \/ Closing(t)
             \/ UNCHANGED vars
      PROVE  Goal
  <2>1. UNCHANGED <<keepMissing, devices, reader, snapshot>>
    BY <1>6 DEF Tick, Call, SnapshotHit, SnapshotMiss, RefreshSkip, RefreshFirst,
         RefreshBackground, DiscoverAnswered, DiscoverFailed, ReconcileDone,
         FinishDiscovery, LogDropped, Close, Closing, CloseDevice, CloseDone,
         vars, registryVars, snapshotVars, roundVars
  <2>2. \A c \in Callers : InRound(c)' <=> InRound(c)
    BY <1>6, RegistryAssumption
       DEF Tick, Call, SnapshotHit, SnapshotMiss, RefreshSkip, RefreshFirst,
         RefreshBackground, DiscoverAnswered, DiscoverFailed, ReconcileDone,
         FinishDiscovery, LogDropped, Close, Closing, CloseDevice, CloseDone,
         vars, Goto, InRound, TypeOK, Threads
  <2>3. QED
    BY <2>1, <2>2, QuietStutter
<1>7. QED
  BY <1>1, <1>2, <1>3, <1>4, <1>5, <1>6 DEF Next, Snapshot, Sweep, View!Next

(* ImplementsFleetView: rounds are atomic to the collectors, for every     *)
(* fleet and every interleaving; the registry implements FleetView         *)
(* (registry.go, Snapshot, readAll and reconcile).                         *)
THEOREM Refinement == Spec => ImplementsFleetView
<1>1. IndInv /\ RefInv /\ [Next]_vars => RefInv'
  BY RefStep
<1>2. IndInv /\ RefInv /\ [Next]_vars => [View!Next]_(View!fleetVars)
  BY ViewStep DEF View!fleetVars
<1>3. QED
  BY <1>1, <1>2, RefInit, ViewInit, Inductive, PTL DEF Spec, ImplementsFleetView, View!Spec

-----------------------------------------------------------------------------
(* What keeping the missing means.  With KeepMissing the fleet never loses *)
(* a Device, so what a snapshot reports is in the fleet and is read again  *)
(* by the next round; and while nobody closes the registry a Device that   *)
(* answered is connected until its next reader begins.                     *)

Reports(s, d) == s[d] \in {"up", "down"}

KeepInv ==
    keepMissing =>
        /\ \A d \in Devs : Reports(snapshot, d) => InFleet(d)
        /\ \A c \in Callers, d \in Devs : reader[c][d] # "none" => InFleet(d)
        /\ \A c \in Callers, d \in Devs :
               InRound(c) /\ Reports(snapshot, d) => reader[c][d] # "none"

OpenInv ==
    keepMissing /\ Closers = {} =>
        /\ \A d \in Devs : snapshot[d] = "up" /\ Unread(d) => d \in open
        /\ \A c \in Callers, d \in Devs : results[c][d] = "up" => d \in open

(* Nothing is reported, read or connected at first.                        *)
LEMMA KeepInit == Init => KeepInv /\ OpenInv
  BY DEF Init, KeepInv, OpenInv, NilSnapshot, Reports

(* A round begins with the whole fleet, and forgets nothing it reported.   *)
LEMMA KeepReadAll ==
    ASSUME IndInv, RefInv, KeepInv, OpenInv, NEW c \in Callers, ReadAll(c)
    PROVE  KeepInv' /\ OpenInv'
<1>1. /\ UNCHANGED <<keepMissing, devices, snapshot, results, open>>
      /\ \A b \in Callers, d \in Devs :
             reader'[b][d] = IF b = c THEN IF InFleet(d) THEN "queued" ELSE "none"
                             ELSE reader[b][d]
      /\ \A b \in Callers : InRound(b)' <=> b = c
  <2>1. \A b \in Callers : ~InRound(b)
    BY DEF ReadAll, InRound, IndInv, RoundInv, RoundPCs
  <2>2. \A b \in Callers : InRound(b)' <=> b = c
    BY <2>1 DEF ReadAll, Goto, InRound, IndInv, TypeOK, Threads
  <2>3. QED
    BY <2>2 DEF ReadAll, IndInv, TypeOK, registryVars, snapshotVars, deviceVars
<1>2. \A d \in Devs : reader[c][d] = "none"
  BY DEF ReadAll, IndInv, RoundInv
<1>3. KeepInv'
  BY <1>1 DEF KeepInv, Reports, InFleet
<1>4. OpenInv'
  BY <1>1, <1>2 DEF OpenInv, Unread
<1>5. QED
  BY <1>3, <1>4

(* A round that ends publishes a report of every Device it read.           *)
LEMMA KeepStore ==
    ASSUME IndInv, RefInv, KeepInv, OpenInv, NEW c \in Callers, SnapshotStore(c)
    PROVE  /\ KeepInv' /\ OpenInv'
           /\ keepMissing =>
                  \A d \in Devs : Reports(snapshot, d) => Reports(snapshot', d)
<1>1. /\ UNCHANGED <<keepMissing, devices, open>>
      /\ snapshot' = results[c]
      /\ InRound(c)
      /\ \A d \in Devs : reader[c][d] \in {"none", "done"}
  BY DEF SnapshotStore, InRound, registryVars, deviceVars
<1>2. \A b \in Callers, d \in Devs :
          /\ reader'[b][d] = IF b = c THEN "none" ELSE reader[b][d]
          /\ results'[b][d] = IF b = c THEN "absent" ELSE results[b][d]
  BY DEF SnapshotStore, IndInv, TypeOK
<1>3. \A b \in Callers : ~InRound(b)'
  <2>1. \A b \in Callers : InRound(b) <=> b = c
    BY <1>1 DEF InRound, IndInv, RoundInv, RoundPCs
  <2>2. QED
    BY <2>1 DEF SnapshotStore, Goto, InRound, IndInv, TypeOK, Threads
<1>4. \A d \in Devs : Reports(results[c], d) <=> reader[c][d] # "none"
  BY <1>1 DEF RefInv, Reports
<1>5. KeepInv'
  BY <1>1, <1>2, <1>3, <1>4 DEF KeepInv, InFleet, Reports
<1>6. OpenInv'
  BY <1>1, <1>2 DEF OpenInv
<1>7. QED
  BY <1>1, <1>4, <1>5, <1>6 DEF KeepInv, Reports

(* A sweep adds Devices; with KeepMissing it has none to drop.             *)
LEMMA KeepSweep ==
    ASSUME IndInv, RefInv, KeepInv, OpenInv, NEW t \in Callers \cup Sweepers,
           Reconcile(t) \/ \E d \in Devs : DropMissing(t, d)
    PROVE  KeepInv' /\ OpenInv'
<1>1. CASE Reconcile(t)
  <2>1. \A d \in Devs : InFleet(d) => InFleet(d)'
    BY <1>1, DevFacts, RegistryAssumption DEF Reconcile, Merged, InFleet
  <2>2. UNCHANGED <<keepMissing, snapshot, reader, results, open>>
    BY <1>1 DEF Reconcile, roundVars, snapshotVars, deviceVars
  <2>3. \A c \in Callers : InRound(c)' <=> InRound(c)
    BY <1>1 DEF Reconcile, Goto, InRound, IndInv, TypeOK, Threads
  <2>4. QED
    BY <2>1, <2>2, <2>3 DEF KeepInv, OpenInv, Reports, Unread
<1>2. CASE \E d \in Devs : DropMissing(t, d)
  BY <1>2 DEF DropMissing, RefInv, KeepInv, OpenInv
<1>3. QED
  BY <1>1, <1>2

(* A reader connects its Device or reports it down.                        *)
LEMMA KeepReader ==
    ASSUME IndInv, RefInv, KeepInv, OpenInv, NEW c \in Callers, NEW d \in Devs,
           Reader(c, d)
    PROVE  KeepInv' /\ OpenInv'
<1>1. /\ \A b \in Callers, e \in Devs : reader'[b][e] # "none" <=> reader[b][e] # "none"
      /\ UNCHANGED <<keepMissing, pc, devices, snapshot>>
  BY DEF Reader, AcquireSlot, BeginRead, EndRead, EndReader, IndInv, TypeOK,
         registryVars, snapshotVars
<1>2. KeepInv'
  BY <1>1 DEF KeepInv, InFleet, InRound, Reports
<1>3. ASSUME NEW up \in BOOLEAN, EndRead(c, d, up) PROVE OpenInv'
  <2>1. /\ \A b \in Callers, e \in Devs :
               /\ reader'[b][e] = IF b = c /\ e = d THEN "read" ELSE reader[b][e]
               /\ results'[b][e] = IF b = c /\ e = d THEN IF up THEN "up" ELSE "down"
                                   ELSE results[b][e]
        /\ open' = IF up THEN open \cup {d} ELSE open \ {d}
    BY <1>3 DEF EndRead, IndInv, TypeOK
  <2>2. \A b \in Callers : b # c => results[b][d] = "absent"
    <3>1. pc[c] = "wait"
      BY <1>3 DEF EndRead, IndInv, RoundInv
    <3>2. \A b \in Callers : b # c => reader[b][d] = "none"
      BY <3>1 DEF IndInv, RoundInv, RoundPCs
    <3>3. QED
      BY <3>2 DEF RefInv
  <2>3. ~Unread(d)'
    BY <2>1 DEF Unread
  <2>4. \A e \in Devs : e # d => (Unread(e)' <=> Unread(e))
    BY <2>1 DEF Unread
  <2>5. QED
    BY <1>1, <2>1, <2>2, <2>3, <2>4 DEF OpenInv
<1>4. ASSUME AcquireSlot(c, d) \/ BeginRead(c, d) \/ EndReader(c, d) PROVE OpenInv'
  <2>1. UNCHANGED <<results, open>>
    BY <1>4 DEF AcquireSlot, BeginRead, EndReader, deviceVars
  <2>2. \A e \in Devs : Unread(e)' => Unread(e)
    <3>1. \A b \in Callers, e \in Devs :
              reader[b][e] \in {"reading", "read", "done"}
                  => reader'[b][e] \in {"reading", "read", "done"}
      <4>1. CASE AcquireSlot(c, d)
        BY <4>1 DEF AcquireSlot, IndInv, TypeOK
      <4>2. CASE BeginRead(c, d)
        BY <4>2 DEF BeginRead, IndInv, TypeOK
      <4>3. CASE EndReader(c, d)
        BY <4>3 DEF EndReader, IndInv, TypeOK
      <4>4. QED
        BY <1>4, <4>1, <4>2, <4>3
    <3>2. QED
      BY <3>1 DEF Unread
  <2>3. QED
    BY <1>1, <2>1, <2>2 DEF OpenInv
<1>5. QED
  BY <1>2, <1>3, <1>4 DEF Reader

(* No step breaks either, and none but a publication changes what is       *)
(* reported.                                                               *)
LEMMA KeepStep ==
    ASSUME IndInv, RefInv, KeepInv, OpenInv, [Next]_vars
    PROVE  /\ KeepInv' /\ OpenInv'
           /\ keepMissing =>
                  \A d \in Devs : Reports(snapshot, d) => Reports(snapshot', d)
<1> DEFINE Kept ==
        keepMissing => \A d \in Devs : Reports(snapshot, d) => Reports(snapshot', d)
<1>1. ASSUME NEW c \in Callers, SnapshotStore(c) PROVE KeepInv' /\ OpenInv' /\ Kept
  BY <1>1, KeepStore
<1>2. ASSUME NEW c \in Callers, ReadAll(c) PROVE KeepInv' /\ OpenInv' /\ Kept
  <2>1. UNCHANGED snapshot
    BY <1>2 DEF ReadAll, snapshotVars
  <2>2. QED
    BY <1>2, <2>1, KeepReadAll
<1>3. ASSUME NEW t \in Callers \cup Sweepers,
             Reconcile(t) \/ \E d \in Devs : DropMissing(t, d)
      PROVE  KeepInv' /\ OpenInv' /\ Kept
  <2>1. UNCHANGED snapshot
    BY <1>3 DEF Reconcile, DropMissing, snapshotVars
  <2>2. QED
    BY <1>3, <2>1, KeepSweep
<1>4. ASSUME NEW c \in Callers, NEW d \in Devs, Reader(c, d)
      PROVE  KeepInv' /\ OpenInv' /\ Kept
  <2>1. UNCHANGED snapshot
    BY <1>4 DEF Reader, AcquireSlot, BeginRead, EndRead, EndReader, snapshotVars
  <2>2. QED
    BY <1>4, <2>1, KeepReader
<1>5. ASSUME NEW t \in Closers, Close(t) \/ Closing(t)
      PROVE  KeepInv' /\ OpenInv' /\ Kept
  <2>1. UNCHANGED <<keepMissing, devices, reader, snapshot>>
    BY <1>5 DEF Close, Closing, CloseDevice, CloseDone, registryVars, snapshotVars,
                roundVars
  <2>2. \A c \in Callers : InRound(c)' <=> InRound(c)
    BY <1>5, RegistryAssumption DEF Close, Closing, CloseDevice, CloseDone, Goto, InRound,
       IndInv, TypeOK, Threads
  <2>3. KeepInv' /\ Kept
    BY <2>1, <2>2 DEF KeepInv, Reports, InFleet
  <2>4. QED
    BY <1>5, <2>3 DEF OpenInv
<1>6. ASSUME \/ Tick
             \/ \E c \in Callers :
                    \/ Call(c) \/ SnapshotHit(c) \/ SnapshotMiss(c)
                    \/ RefreshSkip(c) \/ RefreshFirst(c)
                    \/ \E s \in Sweepers : RefreshBackground(c, s)
             \/ \E t \in Callers \cup Sweepers :
                    \/ DiscoverAnswered(t) \/ DiscoverFailed(t)
                    \/ ReconcileDone(t) \/ FinishDiscovery(t)
                    \/ \E d \in Devs : LogDropped(t, d)
             \/ UNCHANGED vars
      PROVE  KeepInv' /\ OpenInv' /\ Kept
  <2>1. UNCHANGED <<keepMissing, devices, reader, results, open, snapshot>>
    BY <1>6 DEF Tick, Call, SnapshotHit, SnapshotMiss, RefreshSkip, RefreshFirst,
         RefreshBackground, DiscoverAnswered, DiscoverFailed, ReconcileDone,
         FinishDiscovery, LogDropped, vars, registryVars, snapshotVars, roundVars,
         deviceVars
  <2>2. \A c \in Callers : InRound(c)' <=> InRound(c)
    BY <1>6, RegistryAssumption
       DEF Tick, Call, SnapshotHit, SnapshotMiss, RefreshSkip, RefreshFirst,
         RefreshBackground, DiscoverAnswered, DiscoverFailed, ReconcileDone,
         FinishDiscovery, LogDropped, vars, Goto, InRound, IndInv, TypeOK, Threads
  <2>3. QED
    BY <2>1, <2>2 DEF KeepInv, OpenInv, Reports, InFleet, Unread
<1>7. QED
  BY <1>1, <1>2, <1>3, <1>4, <1>5, <1>6 DEF Next, Snapshot, Sweep

(* NeverVanishes: with KeepMissing every snapshot reports every address    *)
(* that any earlier one reported (registry.go, reconcile and readAll).     *)
THEOREM NothingVanishes == Spec => NeverVanishes
<1>1. IndInv /\ RefInv /\ [Next]_vars => RefInv'
  BY RefStep
<1>2. IndInv /\ RefInv /\ KeepInv /\ OpenInv /\ [Next]_vars => KeepInv' /\ OpenInv'
  BY KeepStep
<1>3. IndInv /\ RefInv /\ KeepInv /\ OpenInv /\ [Next]_vars =>
          [keepMissing => ReportedHosts(snapshot) \subseteq ReportedHosts(snapshot')]_vars
  BY KeepStep DEF ReportedHosts, Reports
<1>4. QED
  BY <1>1, <1>2, <1>3, RefInit, KeepInit, Inductive, PTL DEF Spec, NeverVanishes

(* SessionKept: a device that answered keeps its Device and its session    *)
(* until it is read again, whatever the sweeps find (registry.go,          *)
(* reconcile; device.go, Read).                                            *)
THEOREM SessionsKept == Spec => []SessionKept
<1>1. IndInv /\ RefInv /\ [Next]_vars => RefInv'
  BY RefStep
<1>2. IndInv /\ RefInv /\ KeepInv /\ OpenInv /\ [Next]_vars => KeepInv' /\ OpenInv'
  BY KeepStep
<1>3. KeepInv /\ OpenInv => SessionKept
  <2> SUFFICES ASSUME KeepInv, OpenInv, keepMissing, Closers = {},
                      NEW h \in ReportedHosts(snapshot)
               PROVE  /\ devices[h] # Nobody
                      /\ snapshot[devices[h]] = "up" /\ Unread(devices[h])
                             => devices[h] \in open
                      /\ snapshot[devices[h]] # "absent"
    BY DEF SessionKept
  <2>1. PICK d \in Devs : HostOf(d) = h /\ Reports(snapshot, d)
    BY DEF ReportedHosts, Reports
  <2>2. devices[h] = d
    BY <2>1 DEF KeepInv, InFleet
  <2>3. QED
    BY <2>1, <2>2, RegistryAssumption DEF OpenInv, Reports
<1>4. QED
  BY <1>1, <1>2, <1>3, RefInit, KeepInit, Inductive, PTL DEF Spec

=============================================================================
