---------------------------- MODULE MCSQLiteStore ----------------------------
(***************************************************************************)
(* The calls of an instance: every method, with one value where the value  *)
(* does not matter to the store, and plain updates on one shipment only.   *)
(***************************************************************************)
EXTENDS SQLiteStore

Updated == CHOOSE s \in Shipments : TRUE

SomeCommands ==
    { cmd \in CommandType :
        /\ cmd.method = "UpdateShipmentStatus" =>
               cmd.shipment = Updated /\ cmd.status = StatusCancelled
        /\ cmd.method = "UpdateShipmentPayment" =>
               cmd.shipment = Updated /\ cmd.paid = "requires_capture" }

=============================================================================
