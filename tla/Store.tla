-------------------------------- MODULE Store --------------------------------
(***************************************************************************)
(* The Store interface of store.go: two tables, and one operator per       *)
(* method that writes, each an atomic step.  A method that returns an      *)
(* error writes nothing, so an operator is the method's success; what a    *)
(* caller does on an error is the caller's business (CarrierMatch).        *)
(*                                                                         *)
(* A carrier row is reduced to its is_available column and a shipment row  *)
(* to the columns that change after it is created; names, addresses,       *)
(* coordinates, weights and capacities never change once stored.  Shippers *)
(* are written and never read, so their table is left out.                 *)
(***************************************************************************)
EXTENDS Ids, ShipmentStatus

VARIABLES
    carriers,     \* the carriers table: is_available of each row
    shipments     \* the shipments table

storeVars == << carriers, shipments >>

\* The payment_status column: '' or a status Stripe answered.
PaymentStatuses == { "", "requires_capture", "succeeded", "canceled" }

ShipmentRow ==
    [ status  : RowStatuses \cup { "absent" },
      carrier : Carriers \cup { NoCarrier },
      price   : Prices \cup { 0 },
      intent  : Intents \cup { NoIntent },
      paid    : PaymentStatuses ]

NoRow == [ status |-> "absent", carrier |-> NoCarrier, price |-> 0,
           intent |-> NoIntent, paid |-> "" ]

StoreTypeOK ==
    /\ carriers \in [Carriers -> { "absent", "available", "booked" }]
    /\ shipments \in [Shipments -> ShipmentRow]

StoreInit ==
    /\ carriers = [c \in Carriers |-> "absent"]
    /\ shipments = [s \in Shipments |-> NoRow]

CarrierExists(c)  == carriers[c] # "absent"
ShipmentExists(s) == shipments[s].status # "absent"

-----------------------------------------------------------------------------

\* Ids are fresh, so the two Save methods always insert.
SaveCarrier(c) ==
    /\ ~CarrierExists(c)
    /\ carriers' = [carriers EXCEPT ![c] = "available"]
    /\ UNCHANGED shipments

SaveShipment(s) ==
    /\ ~ShipmentExists(s)
    /\ shipments' = [shipments EXCEPT ![s] = [NoRow EXCEPT !.status = StatusPending]]
    /\ UNCHANGED carriers

UpdateShipmentStatus(s, status) ==
    /\ ShipmentExists(s)
    /\ shipments' = [shipments EXCEPT ![s].status = status]
    /\ UNCHANGED carriers

\* Mutant: UPDATE carriers ... WHERE id = ?, the availability test dropped.
DispatchUnconditional(s, c, price) ==
    /\ CarrierExists(c) /\ ShipmentExists(s)
    /\ carriers' = [carriers EXCEPT ![c] = "booked"]
    /\ shipments' = [shipments EXCEPT
                        ![s] = [@ EXCEPT !.carrier = c, !.price = price,
                                         !.status = StatusDispatched]]

\* The booking: the carrier is tested and flipped, and the shipment assigned,
\* as one step.  It does not look at the shipment's own status.
Dispatch(s, c, price) ==
    /\ carriers[c] = "available"
    /\ ShipmentExists(s)
    /\ carriers' = [carriers EXCEPT ![c] = "booked"]
    /\ shipments' = [shipments EXCEPT
                        ![s] = [@ EXCEPT !.carrier = c, !.price = price,
                                         !.status = StatusDispatched]]

UpdateShipmentPayment(s, intent, paid) ==
    /\ ShipmentExists(s)
    /\ shipments' = [shipments EXCEPT
                        ![s] = [@ EXCEPT !.intent = intent, !.paid = paid]]
    /\ UNCHANGED carriers

\* Availability is set whoever holds the carrier now.
ReleaseCarrier(c) ==
    /\ CarrierExists(c)
    /\ carriers' = [carriers EXCEPT ![c] = "available"]
    /\ UNCHANGED shipments

=============================================================================
