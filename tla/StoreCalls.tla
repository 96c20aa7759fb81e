----------------------------- MODULE StoreCalls -----------------------------
(***************************************************************************)
(* Calls of the Store interface as they are in flight: which method, with  *)
(* which arguments, how far it has come and what it will answer.  What the *)
(* methods made of one statement do is said here, once for the contract    *)
(* (StoreContract) and for its implementation (SQLiteStore).               *)
(***************************************************************************)
EXTENDS Store

CONSTANTS
    Calls,        \* goroutines that may have a store call in flight
    Commands,     \* the calls they make: methods with their arguments
    Faults        \* what may go wrong: "store", "crash"

NoCommand == [ method |-> "none" ]

CommandType ==
    [ method : { "SaveCarrier", "GetCarrier", "ReleaseCarrier" },
      carrier : Carriers ]
    \cup [ method : { "ListCarriers" } ]
    \cup [ method : { "SaveShipment", "GetShipment" }, shipment : Shipments ]
    \cup [ method : { "UpdateShipmentStatus" }, shipment : Shipments,
           status : RowStatuses ]
    \cup [ method : { "UpdateShipmentPayment" }, shipment : Shipments,
           intent : Intents, paid : PaymentStatuses ]
    \cup [ method : { "Dispatch" }, shipment : Shipments, carrier : Carriers,
           price : Prices ]

ASSUME CallConstants ==
    /\ Commands \subseteq CommandType
    /\ Faults \subseteq { "store", "crash" }

VARIABLE
    call          \* call[k]: the store call goroutine k is in

Answers == { "ok", "not_found", "unavailable", "error" }

\* "fleet" is what ListCarriers read: the carriers that were available.
Call(stages) == [ at      : stages,
                  command : Commands \cup { NoCommand },
                  answer  : Answers \cup { "" },
                  fleet   : SUBSET Carriers ]

IdleCall == [ at |-> "idle", command |-> NoCommand, answer |-> "", fleet |-> { } ]

Answered(r, answer) == [r EXCEPT !.at = "done", !.answer = answer]

\* What the handlers see to before they call: ids they save are fresh, and the
\* rows a dispatch names have been read.
Legal(cmd) ==
    CASE cmd.method = "SaveCarrier" ->
            /\ ~CarrierExists(cmd.carrier)
            /\ \A k \in Calls : call[k].command # cmd
      [] cmd.method = "SaveShipment" ->
            /\ ~ShipmentExists(cmd.shipment)
            /\ \A k \in Calls : call[k].command # cmd
      [] cmd.method = "Dispatch" ->
            CarrierExists(cmd.carrier) /\ ShipmentExists(cmd.shipment)
      [] OTHER -> TRUE

Invoke(k, cmd) ==
    /\ call[k].at = "idle"
    /\ Legal(cmd)
    /\ call' = [call EXCEPT ![k] = [IdleCall EXCEPT !.at = "called",
                                                    !.command = cmd]]
    /\ UNCHANGED storeVars

Return(k) ==
    /\ call[k].at = "done"
    /\ call' = [call EXCEPT ![k] = IdleCall]
    /\ UNCHANGED storeVars

\* An UPDATE or SELECT that matches no row is ErrNotFound.
Found(found) == IF found THEN "ok" ELSE "not_found"

Available == { c \in Carriers : carriers[c] = "available" }

\* ListCarriers answers with these carriers; it has no error to answer with.
List(k, fleet) ==
    /\ call[k].command.method = "ListCarriers"
    /\ call' = [call EXCEPT ![k] = [Answered(@, "ok") EXCEPT !.fleet = fleet]]
    /\ UNCHANGED storeVars

\* A ListCarriers whose query fails, or whose reading of the rows does (rows.Err
\* is not asked for, and a row that cannot be scanned is skipped): what it has by
\* then, perhaps nothing, is its answer.
ListCutShort(k) == \E fleet \in SUBSET Available : List(k, fleet)

\* An error: of every other method.
Refuse(k) ==
    /\ call[k].command.method # "ListCarriers"
    /\ call' = [call EXCEPT ![k] = Answered(@, "error")]
    /\ UNCHANGED storeVars

\* The methods made of one statement, on the tables as they are.
OneStatement(k) ==
    LET cmd == call[k].command
        Answer(answer) == call' = [call EXCEPT ![k] = Answered(@, answer)]
        Write(found, Update) == /\ IF found THEN Update ELSE UNCHANGED storeVars
                                /\ Answer(Found(found))
    IN
    \/ /\ cmd.method = "SaveCarrier"
       /\ SaveCarrier(cmd.carrier)
       /\ Answer("ok")
    \/ /\ cmd.method = "SaveShipment"
       /\ SaveShipment(cmd.shipment)
       /\ Answer("ok")
    \/ /\ cmd.method = "UpdateShipmentStatus"
       /\ Write(ShipmentExists(cmd.shipment),
                UpdateShipmentStatus(cmd.shipment, cmd.status))
    \/ /\ cmd.method = "UpdateShipmentPayment"
       /\ Write(ShipmentExists(cmd.shipment),
                UpdateShipmentPayment(cmd.shipment, cmd.intent, cmd.paid))
    \/ /\ cmd.method = "ReleaseCarrier"
       /\ Write(CarrierExists(cmd.carrier), ReleaseCarrier(cmd.carrier))
    \/ /\ cmd.method = "GetCarrier"
       /\ Answer(Found(CarrierExists(cmd.carrier)))
       /\ UNCHANGED storeVars
    \/ /\ cmd.method = "GetShipment"
       /\ Answer(Found(ShipmentExists(cmd.shipment)))
       /\ UNCHANGED storeVars
    \/ List(k, Available)

=============================================================================
