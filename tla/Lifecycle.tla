------------------------------ MODULE Lifecycle ------------------------------
(***************************************************************************)
(* What the service promises about a load, with no handlers in sight: each *)
(* step below is one event in the life of a shipment, its carrier or its   *)
(* payment hold, and happens whole.                                        *)
(*                                                                         *)
(* The events are the rows of statemachine.go's table and the effects the  *)
(* README attaches to them (booking at dispatch, charge at delivery, the   *)
(* hold and the carrier let go at cancellation), plus the two exceptions   *)
(* the code really has: Screen, since a match job writes its verdict over  *)
(* any status, and DispatchUnbooked, since PATCH may say "dispatched".     *)
(***************************************************************************)
EXTENDS ShipmentStatus

CONSTANTS Carriers, Shipments, NoCarrier

VARIABLES
    status,      \* status[s]: "absent" or the status of shipment s
    assigned,    \* assigned[s]: carrier of s, or NoCarrier
    fleet,       \* fleet[c]: "absent", "available" or "booked"
    hold         \* hold[s]: "none", "held", "captured" or "released"

lifecycleVars == << status, assigned, fleet, hold >>

Init ==
    /\ status = [s \in Shipments |-> "absent"]
    /\ assigned = [s \in Shipments |-> NoCarrier]
    /\ fleet = [c \in Carriers |-> "absent"]
    /\ hold = [s \in Shipments |-> "none"]

RegisterCarrier(c) ==
    /\ fleet[c] = "absent"
    /\ fleet' = [fleet EXCEPT ![c] = "available"]
    /\ UNCHANGED << status, assigned, hold >>

Post(s) ==
    /\ status[s] = "absent"
    /\ status' = [status EXCEPT ![s] = StatusPending]
    /\ UNCHANGED << assigned, fleet, hold >>

\* The verdict of a match job, or a client giving up on a pending load.
Screen(s) ==
    /\ status[s] # "absent"
    /\ \E verdict \in { StatusMatching, StatusMatched, StatusNoMatch } :
          status' = [status EXCEPT ![s] = verdict]
    /\ UNCHANGED << assigned, fleet, hold >>

Book(s, c) ==
    /\ status[s] = StatusPending
    /\ fleet[c] = "available"
    /\ status' = [status EXCEPT ![s] = StatusDispatched]
    /\ assigned' = [assigned EXCEPT ![s] = c]
    /\ fleet' = [fleet EXCEPT ![c] = "booked"]
    /\ UNCHANGED hold

DispatchUnbooked(s) ==
    /\ status[s] = StatusPending
    /\ assigned[s] = NoCarrier
    /\ status' = [status EXCEPT ![s] = StatusDispatched]
    /\ UNCHANGED << assigned, fleet, hold >>

Move(s, from, to) ==
    /\ status[s] \in from
    /\ status' = [status EXCEPT ![s] = to]
    /\ UNCHANGED << assigned, fleet, hold >>

Depart(s)  == Move(s, { StatusDispatched }, StatusInTransit)
Deliver(s) == Move(s, { StatusInTransit }, StatusDelivered)
Cancel(s)  == Move(s, ActiveStatuses, StatusCancelled)

\* Only the carrier of a cancelled load, and only while no other load has it.
FreeCarrier(s) ==
    LET c == assigned[s] IN
    /\ status[s] = StatusCancelled
    /\ c # NoCarrier
    /\ fleet[c] = "booked"
    /\ \A t \in Shipments \ { s } :
          assigned[t] = c => status[t] \notin ActiveStatuses
    /\ fleet' = [fleet EXCEPT ![c] = "available"]
    /\ UNCHANGED << status, assigned, hold >>

\* One hold per load, placed while the load waits for its carrier to leave.
PlaceHold(s) ==
    /\ status[s] = StatusDispatched
    /\ assigned[s] # NoCarrier
    /\ hold[s] = "none"
    /\ hold' = [hold EXCEPT ![s] = "held"]
    /\ UNCHANGED << status, assigned, fleet >>

\* Money moves for a delivered load and no other.
Charge(s) ==
    /\ status[s] = StatusDelivered
    /\ hold[s] = "held"
    /\ hold' = [hold EXCEPT ![s] = "captured"]
    /\ UNCHANGED << status, assigned, fleet >>

ReleaseHold(s) ==
    /\ status[s] = StatusCancelled
    /\ hold[s] = "held"
    /\ hold' = [hold EXCEPT ![s] = "released"]
    /\ UNCHANGED << status, assigned, fleet >>

Next ==
    \/ \E c \in Carriers : RegisterCarrier(c)
    \/ \E s \in Shipments :
          \/ Post(s) \/ Screen(s)
          \/ \E c \in Carriers : Book(s, c)
          \/ DispatchUnbooked(s)
          \/ Depart(s) \/ Deliver(s) \/ Cancel(s)
          \/ FreeCarrier(s)
          \/ PlaceHold(s) \/ Charge(s) \/ ReleaseHold(s)

Spec == Init /\ [][Next]_lifecycleVars

=============================================================================
