------------------------------ MODULE FleetView ------------------------------
(***************************************************************************)
(* What the registry promises the collectors, without its mutexes,         *)
(* goroutines, clock and sessions: a fleet that only sweeps change, and a  *)
(* view of it that is replaced as a whole by one round of reads at a time. *)
(***************************************************************************)
CONSTANTS
    Devices,        \* the Device objects there can be
    Pinned,         \* the ones that belong to configured addresses
    NoView,         \* the view before the first round
    NoRound         \* no round in progress

VARIABLES
    mayShrink,      \* whether a device that stops answering is dropped, set once
    fleet,          \* the devices that exist
    round,          \* the devices the round in progress reads, or NoRound
    view            \* what the last complete round found

fleetVars == <<mayShrink, fleet, round, view>>

(* The reports a round over the devices ds can end in: one for each.       *)
Reports(ds) ==
    {v \in [Devices -> {"absent", "up", "down"}] :
        \A d \in Devices : v[d] = "absent" <=> d \notin ds}

Init ==
    /\ mayShrink \in BOOLEAN
    /\ fleet = Pinned
    /\ round = NoRound
    /\ view = NoView

Grow ==
    /\ fleet \subseteq fleet'
    /\ UNCHANGED <<mayShrink, round, view>>

Shrink ==
    /\ mayShrink
    /\ \E d \in fleet \ Pinned : fleet' = fleet \ {d}
    /\ UNCHANGED <<mayShrink, round, view>>

(* A round reads the fleet as it is when the round begins ...              *)
Begin ==
    /\ round = NoRound
    /\ round' = fleet
    /\ UNCHANGED <<mayShrink, fleet, view>>

(* ... and ends by publishing one report for each of those devices.        *)
Publish ==
    /\ round # NoRound
    /\ view' \in Reports(round)
    /\ round' = NoRound
    /\ UNCHANGED <<mayShrink, fleet>>

Next == Grow \/ Shrink \/ Begin \/ Publish

Spec == Init /\ [][Next]_fleetVars
=============================================================================
