-------------------------- MODULE SQLiteStoreProofs --------------------------
(***************************************************************************)
(* The store on one SQLite connection implements the store's contract, for *)
(* any number of callers, rows and calls, with every fault.                *)
(***************************************************************************)
EXTENDS SQLiteStore, TLAPS

(* The invariant *)

Undecided == { "called", "book", "assign", "commit" }

\* A dispatch under way is of rows that are in the file.
RowsAreThere ==
    \A k \in Calls :
        LET cmd == call[k].command IN
        cmd.method = "Dispatch" /\ call[k].at \in Undecided =>
            /\ Committed.carriers[cmd.carrier] # "absent"
            /\ Committed.shipments[cmd.shipment].status # "absent"

\* The two UPDATEs of a dispatch.
Booked(table, cmd) == [table EXCEPT ![cmd.carrier] = "booked"]

Assigned(table, cmd) ==
    [table EXCEPT ![cmd.shipment] = [@ EXCEPT !.carrier = cmd.carrier,
                                              !.price = cmd.price,
                                              !.status = StatusDispatched]]

\* How far the tables are from what the journal says.
HalfDone ==
    \A k \in Calls :
        LET cmd == call[k].command IN
        /\ call[k].at = "book" => carriers = journal.carriers
        /\ call[k].at \in { "assign", "commit" } =>
              /\ journal.carriers[cmd.carrier] = "available"
              /\ carriers = Booked(journal.carriers, cmd)
        /\ call[k].at \in { "book", "assign" } => shipments = journal.shipments
        /\ call[k].at = "commit" => shipments = Assigned(journal.shipments, cmd)

SQLInv == SQLiteTypeOK /\ RowsAreThere /\ HalfDone

-----------------------------------------------------------------------------
(* Commands and calls *)

LEMMA CommandFields ==
    ASSUME NEW cmd \in Commands \cup { NoCommand }
    PROVE  /\ cmd.method \in { "SaveCarrier", "GetCarrier", "ReleaseCarrier", "Dispatch" }
                 => cmd.carrier \in Carriers
           /\ cmd.method \in { "SaveShipment", "GetShipment", "UpdateShipmentStatus",
                               "UpdateShipmentPayment", "Dispatch" }
                 => cmd.shipment \in Shipments
           /\ cmd.method = "UpdateShipmentStatus" => cmd.status \in RowStatuses
           /\ cmd.method = "UpdateShipmentPayment" =>
                 cmd.intent \in Intents /\ cmd.paid \in PaymentStatuses
           /\ cmd.method = "Dispatch" => cmd.price \in Prices
<1>1. CASE cmd = NoCommand
  BY <1>1 DEF NoCommand
<1>2. CASE cmd \in Commands
  BY <1>2, CallConstants DEF CommandType
<1> QED BY <1>1, <1>2

LEMMA StatusNames ==
    "absent" \notin RowStatuses /\ StatusDispatched \in RowStatuses
      /\ StatusPending \in RowStatuses
BY DEF RowStatuses, Statuses, StatusPending, StatusDispatched, StatusInTransit,
       StatusDelivered, StatusCancelled, StatusNoMatch, StatusMatching, StatusMatched

\* One call changes.
LEMMA OneCall ==
    ASSUME call \in [Calls -> Call(Stages)], NEW k \in Calls, NEW x,
           call' = [call EXCEPT ![k] = x]
    PROVE  /\ call'[k] = x
           /\ \A j \in Calls \ { k } : call'[j] = call[j]
           /\ x \in Call(Stages) => call' \in [Calls -> Call(Stages)]
OBVIOUS

LEMMA CallTyped ==
    ASSUME SQLiteTypeOK, NEW k \in Calls
    PROVE  /\ call[k] \in Call(Stages)
           /\ call[k].command \in Commands \cup { NoCommand }
           /\ \A stage \in Stages : [call[k] EXCEPT !.at = stage] \in Call(Stages)
           /\ \A a \in Answers : Answered(call[k], a) \in Call(Stages)
           /\ \A a \in Answers : /\ Answered(call[k], a).at = "done"
                                 /\ Answered(call[k], a).command = call[k].command
           /\ IdleCall \in Call(Stages) /\ IdleCall.at = "idle"
BY DEF SQLiteTypeOK, Call, Answered, Stages, IdleCall, Answers

\* The tables at any stage are of the store's type.
LEMMA CommittedTyped ==
    ASSUME SQLiteTypeOK
    PROVE  /\ Committed.carriers \in [Carriers -> { "absent", "available", "booked" }]
           /\ Committed.shipments \in [Shipments -> ShipmentRow]
           /\ holder = NoCall => /\ Committed.carriers = carriers
                                 /\ Committed.shipments = shipments
           /\ holder # NoCall => Committed = journal
BY DEF SQLiteTypeOK, StoreTypeOK, Committed, Tables

LEMMA EmptyTyped ==
    Empty \in [ carriers  : [Carriers -> { "absent", "available", "booked" }],
                shipments : [Shipments -> ShipmentRow] ]
BY DEF Empty, NoRow, ShipmentRow, PaymentStatuses

-----------------------------------------------------------------------------
(* The invariant is one *)

LEMMA InitInv == Init => SQLInv
<1> SUFFICES ASSUME Init PROVE SQLInv
  OBVIOUS
<1>1. StoreTypeOK
  BY DEF Init, StoreInit, StoreTypeOK, ShipmentRow, NoRow, PaymentStatuses
<1>2. IdleCall \in Call(Stages) /\ \A k \in Calls : call[k].at = "idle"
  BY DEF Init, IdleCall, Call, Stages
<1>3. call \in [Calls -> Call(Stages)]
  BY <1>2 DEF Init
<1>4. SQLiteTypeOK
  BY <1>1, <1>2, <1>3, EmptyTyped, NoCallIsNone
  DEF Init, SQLiteTypeOK, InTransaction
<1>5. RowsAreThere /\ HalfDone
  BY <1>2 DEF RowsAreThere, HalfDone, Undecided
<1> QED BY <1>4, <1>5 DEF SQLInv

\* The answer of ListCarriers.
LEMMA ListAnswer ==
    ASSUME SQLiteTypeOK, NEW k \in Calls, NEW fleet \in SUBSET Carriers,
           List(k, fleet)
    PROVE  /\ UNCHANGED storeVars
           /\ \E x \in Call(Stages) :
                 /\ x = [Answered(call[k], "ok") EXCEPT !.fleet = fleet]
                 /\ x.at = "done"
                 /\ call' = [call EXCEPT ![k] = x]
<1> DEFINE x == [Answered(call[k], "ok") EXCEPT !.fleet = fleet]
<1>1. "ok" \in Answers
  BY DEF Answers
<1>2. x \in Call(Stages) /\ x.at = "done"
  <2>1. Answered(call[k], "ok") \in Call(Stages) /\ Answered(call[k], "ok").at = "done"
    BY <1>1, CallTyped
  <2> QED BY <2>1 DEF Call
<1>3. call' = [call EXCEPT ![k] = x]
  BY DEF List, SQLiteTypeOK
<1> HIDE DEF x
<1> QED BY <1>2, <1>3 DEF List, x

\* What a statement does to the tables, and to the call it is made in.
LEMMA OneStatementEffect ==
    ASSUME SQLiteTypeOK, NEW k \in Calls, OneStatement(k)
    PROVE  /\ StoreTypeOK'
           /\ \A c \in Carriers : carriers[c] # "absent" => carriers'[c] # "absent"
           /\ \A s \in Shipments : shipments[s].status # "absent" =>
                                       shipments'[s].status # "absent"
           /\ \E x \in Call(Stages) : /\ x.at = "done"
                                      /\ call' = [call EXCEPT ![k] = x]
<1> DEFINE cmd == call[k].command
<1>1. StoreTypeOK /\ cmd \in Commands \cup { NoCommand }
  BY CallTyped DEF SQLiteTypeOK
<1>2. ASSUME NEW a \in Answers, call' = [call EXCEPT ![k] = Answered(@, a)]
      PROVE  \E x \in Call(Stages) : x.at = "done" /\ call' = [call EXCEPT ![k] = x]
  BY <1>2, CallTyped DEF SQLiteTypeOK
<1>3. \A b \in BOOLEAN : Found(b) \in Answers
  BY DEF Found, Answers
<1>4. "ok" \in Answers
  BY DEF Answers
<1> USE DEF StoreTypeOK
<1>5. CASE /\ cmd.method = "SaveCarrier" /\ SaveCarrier(cmd.carrier)
           /\ call' = [call EXCEPT ![k] = Answered(@, "ok")]
  BY <1>1, <1>2, <1>4, <1>5, CommandFields DEF SaveCarrier
<1>6. CASE /\ cmd.method = "SaveShipment" /\ SaveShipment(cmd.shipment)
           /\ call' = [call EXCEPT ![k] = Answered(@, "ok")]
  <2>1. [NoRow EXCEPT !.status = StatusPending] \in ShipmentRow
    BY StatusNames DEF NoRow, ShipmentRow, PaymentStatuses
  <2>2. [NoRow EXCEPT !.status = StatusPending].status # "absent"
    BY StatusNames DEF NoRow
  <2> QED BY <1>1, <1>2, <1>4, <1>6, <2>1, <2>2, CommandFields DEF SaveShipment
<1>7. CASE /\ cmd.method = "UpdateShipmentStatus"
           /\ IF ShipmentExists(cmd.shipment)
              THEN UpdateShipmentStatus(cmd.shipment, cmd.status)
              ELSE UNCHANGED storeVars
           /\ call' = [call EXCEPT ![k] = Answered(@, Found(ShipmentExists(cmd.shipment)))]
  <2>1. cmd.shipment \in Shipments /\ cmd.status \in RowStatuses /\ cmd.status # "absent"
    BY <1>1, <1>7, CommandFields, StatusNames
  <2>2. CASE UpdateShipmentStatus(cmd.shipment, cmd.status)
    BY <1>1, <1>2, <1>3, <1>7, <2>1, <2>2 DEF UpdateShipmentStatus, ShipmentRow, ShipmentExists
  <2>3. CASE UNCHANGED storeVars
    BY <1>1, <1>2, <1>3, <1>7, <2>3 DEF storeVars, ShipmentExists
  <2> QED BY <1>7, <2>2, <2>3
<1>8. CASE /\ cmd.method = "UpdateShipmentPayment"
           /\ IF ShipmentExists(cmd.shipment)
              THEN UpdateShipmentPayment(cmd.shipment, cmd.intent, cmd.paid)
              ELSE UNCHANGED storeVars
           /\ call' = [call EXCEPT ![k] = Answered(@, Found(ShipmentExists(cmd.shipment)))]
  <2>1. cmd.shipment \in Shipments /\ cmd.intent \in Intents /\ cmd.paid \in PaymentStatuses
    BY <1>1, <1>8, CommandFields
  <2>2. CASE UpdateShipmentPayment(cmd.shipment, cmd.intent, cmd.paid)
    <3>1. [shipments[cmd.shipment] EXCEPT !.intent = cmd.intent, !.paid = cmd.paid]
              \in ShipmentRow
      <4>1. shipments[cmd.shipment] \in ShipmentRow
        BY <1>1, <2>1
      <4> QED BY <2>1, <4>1 DEF ShipmentRow
    <3>2. StoreTypeOK'
      BY <1>1, <2>1, <2>2, <3>1 DEF UpdateShipmentPayment
    <3>3. /\ \A c \in Carriers : carriers'[c] = carriers[c]
          /\ \A s \in Shipments : shipments'[s].status = shipments[s].status
      BY <1>1, <2>1, <2>2 DEF UpdateShipmentPayment, ShipmentRow
    <3>4. \E x \in Call(Stages) : x.at = "done" /\ call' = [call EXCEPT ![k] = x]
      BY <1>2, <1>3, <1>8 DEF ShipmentExists
    <3> QED BY <3>2, <3>3, <3>4
  <2>3. CASE UNCHANGED storeVars
    BY <1>1, <1>2, <1>3, <1>8, <2>3 DEF storeVars, ShipmentExists
  <2> QED BY <1>8, <2>2, <2>3
<1>9. CASE /\ cmd.method = "ReleaseCarrier"
           /\ IF CarrierExists(cmd.carrier)
              THEN ReleaseCarrier(cmd.carrier)
              ELSE UNCHANGED storeVars
           /\ call' = [call EXCEPT ![k] = Answered(@, Found(CarrierExists(cmd.carrier)))]
  <2>1. CASE ReleaseCarrier(cmd.carrier)
    BY <1>1, <1>2, <1>3, <1>9, <2>1, CommandFields DEF ReleaseCarrier, CarrierExists
  <2>2. CASE UNCHANGED storeVars
    BY <1>1, <1>2, <1>3, <1>9, <2>2 DEF storeVars, CarrierExists
  <2> QED BY <1>9, <2>1, <2>2
<1>10. CASE /\ \/ call' = [call EXCEPT ![k] = Answered(@, Found(CarrierExists(cmd.carrier)))]
               \/ call' = [call EXCEPT ![k] = Answered(@, Found(ShipmentExists(cmd.shipment)))]
            /\ UNCHANGED storeVars
  BY <1>1, <1>2, <1>3, <1>10 DEF storeVars, CarrierExists, ShipmentExists
<1>11. CASE List(k, Available)
  <2>1. Available \in SUBSET Carriers
    BY DEF Available
  <2>2. PICK x \in Call(Stages) : x.at = "done" /\ call' = [call EXCEPT ![k] = x]
    BY <1>11, <2>1, ListAnswer
  <2>3. UNCHANGED storeVars
    BY <1>11 DEF List
  <2> QED BY <1>1, <2>2, <2>3 DEF storeVars
<1> QED BY <1>5, <1>6, <1>7, <1>8, <1>9, <1>10, <1>11 DEF OneStatement

LEMMA StatementInv ==
    ASSUME SQLInv, NEW k \in Calls, Statement(k)
    PROVE  SQLInv'
<1> USE DEF SQLInv, Statement
<1>1. PICK x \in Call(Stages) : x.at = "done" /\ call' = [call EXCEPT ![k] = x]
  BY OneStatementEffect
<1>2. /\ StoreTypeOK'
      /\ \A c \in Carriers : carriers[c] # "absent" => carriers'[c] # "absent"
      /\ \A s \in Shipments : shipments[s].status # "absent" =>
                                  shipments'[s].status # "absent"
  BY OneStatementEffect
<1>3. /\ call'[k] = x
      /\ \A j \in Calls \ { k } : call'[j] = call[j]
      /\ call' \in [Calls -> Call(Stages)]
  BY <1>1, OneCall DEF SQLiteTypeOK
<1>4. \A j \in Calls : call'[j].at \notin InTransaction
  BY <1>1, <1>3, NoCallIsNone DEF SQLiteTypeOK, InTransaction
<1>5. SQLiteTypeOK'
  BY <1>1, <1>2, <1>3, <1>4, NoCallIsNone DEF SQLiteTypeOK, InTransaction
<1>6. HalfDone'
  BY <1>4 DEF HalfDone, InTransaction
<1>7. RowsAreThere'
  <2>1. Committed' = Tables' /\ Committed = Tables
    BY DEF Committed
  <2>2. ASSUME NEW j \in Calls, call'[j].command.method = "Dispatch",
               call'[j].at \in Undecided
        PROVE  /\ carriers'[call'[j].command.carrier] # "absent"
               /\ shipments'[call'[j].command.shipment].status # "absent"
    <3>1. j # k /\ call'[j] = call[j]
      BY <1>1, <1>3, <2>2 DEF Undecided
    <3>2. call[j].command.carrier \in Carriers /\ call[j].command.shipment \in Shipments
      BY <2>2, <3>1, CallTyped, CommandFields
    <3> QED BY <1>2, <2>1, <2>2, <3>1, <3>2 DEF RowsAreThere, Tables
  <2> QED BY <2>1, <2>2 DEF RowsAreThere, Tables
<1> QED BY <1>5, <1>6, <1>7

\* A step of a call outside its transaction that leaves the tables alone.
LEMMA CallMoves ==
    ASSUME SQLInv, NEW k \in Calls, NEW x \in Call(Stages),
           call' = [call EXCEPT ![k] = x],
           UNCHANGED << storeVars, holder, journal >>,
           call[k].at \notin InTransaction,
           x.at \in { "idle", "called", "done" },
           x.at = "called" /\ x.command.method = "Dispatch" =>
              /\ Committed.carriers[x.command.carrier] # "absent"
              /\ Committed.shipments[x.command.shipment].status # "absent"
    PROVE  SQLInv'
<1> USE DEF SQLInv
<1>1. /\ call'[k] = x
      /\ \A j \in Calls \ { k } : call'[j] = call[j]
      /\ call' \in [Calls -> Call(Stages)]
  BY OneCall DEF SQLiteTypeOK
<1>2. x.at \notin InTransaction /\ x.at # "readback"
  BY DEF InTransaction
<1>3. StoreTypeOK' /\ Committed' = Committed
  BY DEF SQLiteTypeOK, StoreTypeOK, storeVars, Committed, Tables
<1>4. SQLiteTypeOK'
  BY <1>1, <1>2, <1>3 DEF SQLiteTypeOK
<1>5. HalfDone'
  BY <1>1, <1>2 DEF HalfDone, InTransaction, storeVars
<1>6. RowsAreThere'
  BY <1>1, <1>2, <1>3 DEF RowsAreThere, Undecided, InTransaction
<1> QED BY <1>4, <1>5, <1>6

\* A transaction creates and deletes no row, so a caller that looks at a table
\* sees the rows the file has.
LEMMA SameRows ==
    ASSUME SQLInv
    PROVE  /\ \A c \in Carriers : CarrierExists(c) <=> Committed.carriers[c] # "absent"
           /\ \A s \in Shipments : ShipmentExists(s) <=>
                                       Committed.shipments[s].status # "absent"
<1> USE DEF SQLInv, CarrierExists, ShipmentExists
<1>1. CASE holder = NoCall
  BY <1>1, CommittedTyped
<1>2. CASE holder # NoCall
  <2>1. holder \in Calls /\ call[holder].at \in InTransaction
    BY <1>2 DEF SQLiteTypeOK
  <2> DEFINE cmd == call[holder].command
  <2>2. cmd.method = "Dispatch" /\ call[holder].at \in Undecided
    BY <2>1 DEF SQLiteTypeOK, InTransaction, Undecided
  <2>3. cmd.carrier \in Carriers /\ cmd.shipment \in Shipments
    BY <2>1, <2>2, CallTyped, CommandFields
  <2>4. /\ journal.carriers[cmd.carrier] # "absent"
        /\ journal.shipments[cmd.shipment].status # "absent"
        /\ Committed = journal
    BY <1>2, <2>1, <2>2, CommittedTyped DEF RowsAreThere
  <2>5. /\ journal.carriers \in [Carriers -> { "absent", "available", "booked" }]
        /\ journal.shipments \in [Shipments -> ShipmentRow]
    BY DEF SQLiteTypeOK
  <2>6. \/ carriers = journal.carriers
        \/ carriers = Booked(journal.carriers, cmd)
    BY <2>1 DEF HalfDone, InTransaction
  <2>7. \/ shipments = journal.shipments
        \/ shipments = Assigned(journal.shipments, cmd)
    BY <2>1 DEF HalfDone, InTransaction
  <2>8. \A c \in Carriers : carriers[c] # "absent" <=> journal.carriers[c] # "absent"
    BY <2>3, <2>4, <2>5, <2>6 DEF Booked
  <2>9. StatusDispatched # "absent"
    BY DEF StatusDispatched
  <2>10. \A s \in Shipments : shipments[s].status # "absent" <=>
                                  journal.shipments[s].status # "absent"
    BY <2>3, <2>4, <2>5, <2>7, <2>9 DEF ShipmentRow, Assigned
  <2> QED BY <2>4, <2>8, <2>10
<1> QED BY <1>1, <1>2

LEMMA InvokeInv ==
    ASSUME SQLInv, NEW k \in Calls, NEW cmd \in Commands, Invoke(k, cmd),
           UNCHANGED << holder, journal >>
    PROVE  SQLInv'
<1> DEFINE x == [IdleCall EXCEPT !.at = "called", !.command = cmd]
<1>1. x \in Call(Stages) /\ x.at = "called" /\ x.command = cmd
  BY DEF IdleCall, Call, Stages
<1>2. call[k].at \notin InTransaction /\ call' = [call EXCEPT ![k] = x]
  BY DEF Invoke, InTransaction
<1>3. cmd.method = "Dispatch" => /\ Committed.carriers[cmd.carrier] # "absent"
                                 /\ Committed.shipments[cmd.shipment].status # "absent"
  <2>1. cmd.method = "Dispatch" => CarrierExists(cmd.carrier) /\ ShipmentExists(cmd.shipment)
    BY DEF Invoke, Legal
  <2> QED BY <2>1, SameRows, CommandFields
<1> HIDE DEF x
<1> QED BY <1>1, <1>2, <1>3, CallMoves DEF Invoke

LEMMA FailInv ==
    ASSUME SQLInv, NEW k \in Calls, Fail(k)
    PROVE  SQLInv'
<1>1. PICK x \in Call(Stages) : x.at = "done" /\ call' = [call EXCEPT ![k] = x]
  <2>1. CASE Refuse(k)
    <3>1. "error" \in Answers /\ call' = [call EXCEPT ![k] = Answered(call[k], "error")]
      BY <2>1 DEF Refuse, Answers
    <3> QED BY <3>1, CallTyped DEF SQLInv
  <2>2. CASE ListCutShort(k)
    <3>1. PICK fleet \in SUBSET Available : List(k, fleet)
      BY <2>2 DEF ListCutShort
    <3> QED BY <3>1, ListAnswer DEF Available, SQLInv
  <2> QED BY <2>1, <2>2 DEF Fail
<1>2. UNCHANGED storeVars
  BY DEF Fail, Refuse, ListCutShort, List
<1> QED BY <1>1, <1>2, CallMoves DEF Fail, InTransaction

LEMMA LeaveInv ==
    ASSUME SQLInv, NEW k \in Calls, Leave(k)
    PROVE  SQLInv'
BY CallTyped, CallMoves DEF Leave, Return, InTransaction, SQLInv

LEMMA ReadBackInv ==
    ASSUME SQLInv, NEW k \in Calls, ReadBack(k)
    PROVE  SQLInv'
<1>1. PICK a \in { "ok", "error" } : call' = [call EXCEPT ![k] = Answered(call[k], a)]
  BY DEF ReadBack
<1>2. Answered(call[k], a) \in Call(Stages) /\ Answered(call[k], a).at = "done"
  BY CallTyped DEF SQLInv, Answers
<1> QED BY <1>1, <1>2, CallMoves DEF ReadBack, InTransaction

\* Inside the transaction of k: it has the connection and nobody else has.
LEMMA InTransactionOf ==
    ASSUME SQLInv, NEW k \in Calls, call[k].at \in InTransaction
    PROVE  /\ holder = k /\ holder # NoCall /\ Committed = journal
           /\ \A j \in Calls \ { k } : call[j].at \notin InTransaction
           /\ call[k].command.method = "Dispatch"
           /\ call[k].command.carrier \in Carriers
           /\ call[k].command.shipment \in Shipments
           /\ call[k].command.price \in Prices
           /\ journal.carriers \in [Carriers -> { "absent", "available", "booked" }]
           /\ journal.shipments \in [Shipments -> ShipmentRow]
           /\ journal.carriers[call[k].command.carrier] # "absent"
           /\ journal.shipments[call[k].command.shipment].status # "absent"
<1> USE DEF SQLInv
<1>1. /\ holder = k /\ holder # NoCall
      /\ \A j \in Calls \ { k } : call[j].at \notin InTransaction
      /\ call[k].command.method = "Dispatch"
      /\ journal.carriers \in [Carriers -> { "absent", "available", "booked" }]
      /\ journal.shipments \in [Shipments -> ShipmentRow]
  BY NoCallIsNone DEF SQLiteTypeOK
<1>2. Committed = journal
  BY <1>1, CommittedTyped
<1>3. call[k].at \in Undecided
  BY DEF Undecided, InTransaction
<1> QED BY <1>1, <1>2, <1>3, CallTyped, CommandFields DEF RowsAreThere

\* A step to another stage of the transaction.
LEMMA StageMoves ==
    ASSUME SQLInv, NEW k \in Calls, call[k].at \in InTransaction,
           NEW stage \in InTransaction, At(k, stage),
           UNCHANGED << holder, journal >>, StoreTypeOK',
           HalfDone'
    PROVE  SQLInv'
<1> USE DEF SQLInv
<1> DEFINE x == [call[k] EXCEPT !.at = stage]
<1>1. x \in Call(Stages) /\ x.at = stage /\ x.command = call[k].command
  <2>1. stage \in Stages
    BY DEF InTransaction, Stages
  <2>2. x \in Call(Stages)
    BY <2>1, CallTyped
  <2>3. call[k] \in Call(Stages)
    BY CallTyped
  <2> QED BY <2>2, <2>3 DEF Call
<1>2. call' = [call EXCEPT ![k] = x]
  BY DEF At
<1> HIDE DEF x
<1>3. /\ call'[k] = x
      /\ \A j \in Calls \ { k } : call'[j] = call[j]
      /\ call' \in [Calls -> Call(Stages)]
  BY <1>1, <1>2, OneCall DEF SQLiteTypeOK
<1>4. SQLiteTypeOK'
  <2>1. \A j \in Calls : call'[j].at \in InTransaction <=> holder' = j
    BY <1>1, <1>3, InTransactionOf DEF SQLiteTypeOK
  <2>2. \A j \in Calls : call'[j].at \in InTransaction \cup { "readback" } =>
                             call'[j].command.method = "Dispatch"
    BY <1>1, <1>3, InTransactionOf DEF SQLiteTypeOK
  <2> QED BY <1>3, <2>1, <2>2 DEF SQLiteTypeOK
<1>5. Committed' = Committed
  BY InTransactionOf DEF Committed
<1>6. RowsAreThere'
  BY <1>1, <1>3, <1>5, InTransactionOf DEF RowsAreThere
<1> QED BY <1>4, <1>6

LEMMA BookCarrierInv ==
    ASSUME SQLInv, NEW k \in Calls, BookCarrier(k)
    PROVE  SQLInv'
<1> USE DEF SQLInv, BookCarrier
<1>1. call[k].at \in InTransaction /\ "assign" \in InTransaction /\ "assign" # "book"
  BY DEF InTransaction
<1>2. StoreTypeOK'
  BY <1>1, InTransactionOf DEF SQLiteTypeOK, StoreTypeOK
<1>3. call'[k] = [call[k] EXCEPT !.at = "assign"]
      /\ \A j \in Calls \ { k } : call'[j] = call[j]
  BY DEF At, SQLiteTypeOK
<1>4. call'[k].at = "assign" /\ call'[k].command = call[k].command
  BY <1>3, CallTyped DEF Call
<1>5. carriers = journal.carriers /\ shipments = journal.shipments
  BY DEF HalfDone
<1>6. HalfDone'
  <2>1. \A j \in Calls \ { k } : call'[j].at \notin InTransaction
    BY <1>1, <1>3, InTransactionOf
  <2>2. /\ journal'.carriers[call[k].command.carrier] = "available"
        /\ carriers' = Booked(journal'.carriers, call[k].command)
        /\ shipments' = journal'.shipments
    BY <1>5 DEF Booked
  <2>3. /\ call'[k].at \notin { "book", "commit" }
        /\ \A j \in Calls \ { k } : call'[j].at \notin { "book", "assign", "commit" }
    BY <1>4, <2>1 DEF InTransaction
  <2> HIDE DEF BookCarrier
  <2> QED BY <1>4, <2>2, <2>3 DEF HalfDone
<1> QED BY <1>1, <1>2, <1>6, StageMoves

LEMMA AssignShipmentInv ==
    ASSUME SQLInv, NEW k \in Calls, AssignShipment(k)
    PROVE  SQLInv'
<1> USE DEF SQLInv, AssignShipment
<1> DEFINE cmd == call[k].command
<1>1. call[k].at \in InTransaction /\ "commit" \in InTransaction /\ "commit" # "book"
  BY DEF InTransaction
<1>2. StoreTypeOK'
  <2>1. /\ cmd.shipment \in Shipments /\ cmd.carrier \in Carriers /\ cmd.price \in Prices
        /\ StatusDispatched \in RowStatuses
    BY <1>1, InTransactionOf, StatusNames
  <2>2. shipments[cmd.shipment] \in ShipmentRow
    BY <2>1 DEF SQLiteTypeOK, StoreTypeOK
  <2>3. [shipments[cmd.shipment] EXCEPT !.carrier = cmd.carrier, !.price = cmd.price,
                                        !.status = StatusDispatched] \in ShipmentRow
    BY <2>1, <2>2 DEF ShipmentRow
  <2> QED BY <2>3 DEF SQLiteTypeOK, StoreTypeOK
<1>3. call'[k] = [call[k] EXCEPT !.at = "commit"]
      /\ \A j \in Calls \ { k } : call'[j] = call[j]
  BY DEF At, SQLiteTypeOK
<1>4. call'[k].at = "commit" /\ call'[k].command = call[k].command
  BY <1>3, CallTyped DEF Call
<1>5. shipments = journal.shipments
  BY DEF HalfDone
<1>6. HalfDone'
  <2>1. \A j \in Calls \ { k } : call'[j].at \notin InTransaction
    BY <1>1, <1>3, InTransactionOf
  <2>2. /\ journal'.carriers[cmd.carrier] = "available"
        /\ carriers' = Booked(journal'.carriers, cmd)
    BY DEF HalfDone
  <2>3. shipments' = Assigned(journal'.shipments, cmd)
    BY <1>5 DEF Assigned
  <2>4. /\ call'[k].at \notin { "book", "assign" }
        /\ \A j \in Calls \ { k } : call'[j].at \notin { "book", "assign", "commit" }
    BY <1>4, <2>1 DEF InTransaction
  <2> HIDE DEF AssignShipment
  <2> QED BY <1>4, <2>2, <2>3, <2>4 DEF HalfDone
<1> QED BY <1>1, <1>2, <1>6, StageMoves

\* A step that ends the transaction, with tables that are in the file.
LEMMA TransactionEnds ==
    ASSUME SQLInv, NEW k \in Calls, call[k].at \in InTransaction,
           NEW x \in Call(Stages), x.at \in { "readback", "done" },
           x.command = call[k].command, call' = [call EXCEPT ![k] = x],
           holder' = NoCall, journal' = Empty, StoreTypeOK',
           \A c \in Carriers : journal.carriers[c] # "absent" => carriers'[c] # "absent",
           \A s \in Shipments : journal.shipments[s].status # "absent" =>
                                    shipments'[s].status # "absent"
    PROVE  SQLInv'
<1> USE DEF SQLInv
<1>1. /\ call'[k] = x
      /\ \A j \in Calls \ { k } : call'[j] = call[j]
      /\ call' \in [Calls -> Call(Stages)]
  BY OneCall DEF SQLiteTypeOK
<1>2. \A j \in Calls : call'[j].at \notin InTransaction
  BY <1>1, InTransactionOf DEF InTransaction
<1>3. SQLiteTypeOK'
  BY <1>1, <1>2, InTransactionOf, EmptyTyped, NoCallIsNone DEF SQLiteTypeOK
<1>4. HalfDone'
  BY <1>2 DEF HalfDone, InTransaction
<1>5. RowsAreThere'
  <2>1. Committed' = Tables' /\ Committed = journal
    BY InTransactionOf DEF Committed
  <2>2. ASSUME NEW j \in Calls, call'[j].command.method = "Dispatch",
               call'[j].at \in Undecided
        PROVE  /\ carriers'[call'[j].command.carrier] # "absent"
               /\ shipments'[call'[j].command.shipment].status # "absent"
    <3>1. j # k /\ call'[j] = call[j]
      BY <1>1, <2>2 DEF Undecided
    <3>2. call[j].command.carrier \in Carriers /\ call[j].command.shipment \in Shipments
      BY <2>2, <3>1, CallTyped, CommandFields
    <3>3. /\ journal.carriers[call[j].command.carrier] # "absent"
          /\ journal.shipments[call[j].command.shipment].status # "absent"
      BY <2>1, <2>2, <3>1 DEF RowsAreThere
    <3> QED BY <3>1, <3>2, <3>3
  <2> QED BY <2>1, <2>2 DEF RowsAreThere, Tables
<1> QED BY <1>3, <1>4, <1>5

LEMMA RollbackInv ==
    ASSUME SQLInv, NEW k \in Calls, BookNothing(k) \/ Abort(k)
    PROVE  SQLInv'
<1>1. call[k].at \in InTransaction /\ GoBack
  BY DEF BookNothing, Abort, InTransaction
<1>2. PICK a \in { "unavailable", "error" } : call' = [call EXCEPT ![k] = Answered(call[k], a)]
  BY DEF BookNothing, Abort
<1>3. /\ Answered(call[k], a) \in Call(Stages)
      /\ Answered(call[k], a).at = "done"
      /\ Answered(call[k], a).command = call[k].command
  BY CallTyped DEF SQLInv, Answers
<1>4. StoreTypeOK'
  BY <1>1, InTransactionOf DEF GoBack, StoreTypeOK
<1> QED BY <1>1, <1>2, <1>3, <1>4, TransactionEnds DEF GoBack

LEMMA CommitInv ==
    ASSUME SQLInv, NEW k \in Calls, Commit(k)
    PROVE  SQLInv'
<1> USE DEF Commit, Stay
<1> DEFINE x == [call[k] EXCEPT !.at = "readback"]
<1>1. call[k].at \in InTransaction
  BY DEF InTransaction
<1>2. x \in Call(Stages) /\ x.at = "readback" /\ x.command = call[k].command
  <2>1. call[k] \in Call(Stages) /\ "readback" \in Stages
    BY CallTyped DEF SQLInv, Stages
  <2> QED BY <2>1 DEF Call
<1>3. call' = [call EXCEPT ![k] = x]
  BY DEF At
<1> HIDE DEF x
<1>4. StoreTypeOK'
  BY DEF SQLInv, SQLiteTypeOK, StoreTypeOK, storeVars
<1>5. /\ \A c \in Carriers : journal.carriers[c] # "absent" => carriers'[c] # "absent"
      /\ \A s \in Shipments : journal.shipments[s].status # "absent" =>
                                  shipments'[s].status # "absent"
  BY <1>1, SameRows, InTransactionOf DEF storeVars, CarrierExists, ShipmentExists
<1> QED BY <1>1, <1>2, <1>3, <1>4, <1>5, TransactionEnds

LEMMA CommitFailsInv ==
    ASSUME SQLInv, NEW k \in Calls, CommitFails(k)
    PROVE  SQLInv'
<1>1. call[k].at \in InTransaction /\ holder' = NoCall /\ journal' = Empty
  BY DEF CommitFails, InTransaction, Stay, GoBack
<1>2. /\ Answered(call[k], "error") \in Call(Stages)
      /\ Answered(call[k], "error").at = "done"
      /\ Answered(call[k], "error").command = call[k].command
      /\ call' = [call EXCEPT ![k] = Answered(call[k], "error")]
  BY CallTyped DEF SQLInv, Answers, CommitFails
<1>3. CASE Stay
  <2>1. StoreTypeOK'
    BY <1>3 DEF Stay, SQLInv, SQLiteTypeOK, StoreTypeOK, storeVars
  <2>2. /\ \A c \in Carriers : journal.carriers[c] # "absent" => carriers'[c] # "absent"
        /\ \A s \in Shipments : journal.shipments[s].status # "absent" =>
                                    shipments'[s].status # "absent"
    BY <1>1, <1>3, SameRows, InTransactionOf
    DEF Stay, storeVars, CarrierExists, ShipmentExists
  <2> QED BY <1>1, <1>2, <2>1, <2>2, TransactionEnds
<1>4. CASE GoBack
  <2>1. StoreTypeOK'
    BY <1>1, <1>4, InTransactionOf DEF GoBack, StoreTypeOK
  <2> QED BY <1>1, <1>2, <1>4, <2>1, TransactionEnds DEF GoBack
<1> QED BY <1>3, <1>4 DEF CommitFails

LEMMA BeginInv ==
    ASSUME SQLInv, NEW k \in Calls, Begin(k)
    PROVE  SQLInv'
<1> USE DEF SQLInv, Begin
<1> DEFINE x == [call[k] EXCEPT !.at = "book"]
<1>1. x \in Call(Stages) /\ x.at = "book" /\ x.command = call[k].command
  <2>1. call[k] \in Call(Stages) /\ "book" \in Stages
    BY CallTyped DEF Stages
  <2> QED BY <2>1 DEF Call
<1>2. call' = [call EXCEPT ![k] = x]
  BY DEF At
<1> HIDE DEF x
<1>3. /\ call'[k] = x
      /\ \A j \in Calls \ { k } : call'[j] = call[j]
      /\ call' \in [Calls -> Call(Stages)]
  BY <1>1, <1>2, OneCall DEF SQLiteTypeOK
<1>4. \A j \in Calls : call[j].at \notin InTransaction
  BY NoCallIsNone DEF SQLiteTypeOK
<1>5. StoreTypeOK' /\ journal' = Tables /\ Tables' = Tables
  BY DEF SQLiteTypeOK, StoreTypeOK, storeVars, Tables
<1>6. SQLiteTypeOK'
  <2>1. journal' \in [ carriers  : [Carriers -> { "absent", "available", "booked" }],
                       shipments : [Shipments -> ShipmentRow] ]
    BY <1>5 DEF SQLiteTypeOK, StoreTypeOK, Tables
  <2>2. \A j \in Calls : call'[j].at \in InTransaction <=> holder' = j
    BY <1>1, <1>3, <1>4 DEF InTransaction
  <2>3. \A j \in Calls : call'[j].at \in InTransaction \cup { "readback" } =>
                             call'[j].command.method = "Dispatch"
    BY <1>1, <1>3, <1>4 DEF SQLiteTypeOK
  <2> QED BY <1>3, <1>5, <2>1, <2>2, <2>3 DEF SQLiteTypeOK
<1>7. Committed' = Tables /\ Committed = Tables
  BY <1>5, NoCallIsNone DEF Committed
<1>8. RowsAreThere'
  BY <1>1, <1>3, <1>7 DEF RowsAreThere, Undecided
<1>9. HalfDone'
  <2>1. carriers' = journal'.carriers /\ shipments' = journal'.shipments
    BY <1>5 DEF Tables
  <2>2. \A j \in Calls : call'[j].at \notin { "assign", "commit" }
    BY <1>1, <1>3, <1>4 DEF InTransaction
  <2> HIDE DEF Begin
  <2> QED BY <2>1, <2>2 DEF HalfDone
<1> QED BY <1>6, <1>8, <1>9

LEMMA CrashInv ==
    ASSUME SQLInv, Crash
    PROVE  SQLInv'
<1> USE DEF SQLInv, Crash
<1>1. IdleCall \in Call(Stages) /\ \A k \in Calls : call'[k].at = "idle"
  BY DEF IdleCall, Call, Stages
<1>2. call' \in [Calls -> Call(Stages)]
  BY <1>1
<1>3. StoreTypeOK'
  BY CommittedTyped DEF StoreTypeOK
<1>4. SQLiteTypeOK'
  BY <1>1, <1>2, <1>3, EmptyTyped, NoCallIsNone DEF SQLiteTypeOK, InTransaction
<1>5. (RowsAreThere /\ HalfDone)'
  BY <1>1 DEF RowsAreThere, HalfDone, Undecided
<1> QED BY <1>4, <1>5

LEMMA NextInv == SQLInv /\ [Next]_sqlVars => SQLInv'
<1> SUFFICES ASSUME SQLInv, [Next]_sqlVars PROVE SQLInv'
  OBVIOUS
<1>1. CASE UNCHANGED sqlVars
  BY <1>1 DEF sqlVars, SQLInv, SQLiteTypeOK, StoreTypeOK, RowsAreThere, HalfDone,
              Committed, Tables
<1> QED
  BY <1>1, InvokeInv, StatementInv, FailInv, BeginInv, BookCarrierInv, RollbackInv,
     AssignShipmentInv, CommitInv, CommitFailsInv, ReadBackInv, LeaveInv, CrashInv
  DEF Next, Transaction

LEMMA SQLInvariant == Spec => []SQLInv
BY InitInv, NextInv, PTL DEF Spec

-----------------------------------------------------------------------------
(* The refinement *)

\* The calls as the contract sees them.
Seen == [k \in Calls |-> Promised(call[k])]

LEMMA PromisedCall ==
    ASSUME NEW x \in Call(Stages)
    PROVE  /\ x.at \in { "idle", "called", "done" } => Promised(x) = x
           /\ x.at \in InTransaction => Promised(x) = [x EXCEPT !.at = "called"]
           /\ x.at = "readback" => Promised(x) = Answered(x, "ok")
           /\ Promised(x).command = x.command
BY DEF Promised, InTransaction, Call, Answered

LEMMA SeenMoves ==
    ASSUME SQLInv, NEW k \in Calls, NEW x, call' = [call EXCEPT ![k] = x]
    PROVE  Seen' = [Seen EXCEPT ![k] = Promised(x)]
<1>1. \A j \in Calls : call'[j] = IF j = k THEN x ELSE call[j]
  BY DEF SQLInv, SQLiteTypeOK
<1>2. Seen' = [j \in Calls |-> Promised(call'[j])]
  BY DEF Seen
<1>3. \A j \in Calls : Promised(call'[j]) = IF j = k THEN Promised(x) ELSE Promised(call[j])
  BY <1>1
<1> QED BY <1>2, <1>3 DEF Seen

LEMMA RefineInit == Init => Contract!Init
<1> SUFFICES ASSUME Init PROVE Contract!Init
  OBVIOUS
<1>1. Committed = Tables
  BY DEF Init, Committed
<1>2. \A k \in Calls : Promised(call[k]) = IdleCall
  BY DEF Init, Promised, IdleCall, InTransaction
<1> QED
  BY <1>1, <1>2
  DEF Init, StoreInit, Tables, IdleCall, NoRow, NoCommand, Contract!Init, Contract!StoreInit,
      Contract!IdleCall, Contract!NoRow, Contract!NoCommand

LEMMA RefineInvoke ==
    ASSUME SQLInv, NEW k \in Calls, NEW cmd \in Commands, Invoke(k, cmd),
           UNCHANGED << holder, journal >>
    PROVE  Contract!Invoke(k, cmd)
<1> DEFINE x == [IdleCall EXCEPT !.at = "called", !.command = cmd]
<1>1. x \in Call(Stages) /\ Promised(x) = x
  BY PromisedCall DEF IdleCall, Call, Stages
<1>2. Seen' = [Seen EXCEPT ![k] = x]
  BY <1>1, SeenMoves DEF Invoke
<1>3. Seen[k].at = "idle"
  BY CallTyped, PromisedCall DEF Invoke, Seen, SQLInv
<1>4. Committed' = Committed
  BY DEF Invoke, storeVars, Committed, Tables
<1>5. Contract!Legal(cmd)
  <2>1. \A j \in Calls : Seen[j].command = call[j].command
    BY CallTyped, PromisedCall DEF Seen, SQLInv
  <2>2. /\ \A c \in Carriers : CarrierExists(c) <=> Contract!CarrierExists(c)
        /\ \A s \in Shipments : ShipmentExists(s) <=> Contract!ShipmentExists(s)
    BY SameRows DEF Contract!CarrierExists, Contract!ShipmentExists
  <2>3. Legal(cmd)
    BY DEF Invoke
  <2> QED BY <2>1, <2>2, <2>3, CommandFields DEF Legal, Contract!Legal, Seen
<1> HIDE DEF x
<1> QED
  BY <1>2, <1>3, <1>4, <1>5
  DEF x, Contract!Invoke, Contract!storeVars, Contract!IdleCall, Contract!NoCommand,
      IdleCall, NoCommand, Seen

\* A list of carriers, whole or not, is answered as the contract answers it.
LEMMA RefineList ==
    ASSUME SQLInv, NEW k \in Calls, call[k].at = "called",
           UNCHANGED << holder, journal >>,
           NEW fleet \in SUBSET Carriers, List(k, fleet)
    PROVE  Contract!List(k, fleet)
<1>1. Seen[k] = call[k]
  BY CallTyped, PromisedCall DEF Seen, SQLInv
<1>2. PICK x \in Call(Stages) :
          /\ x = [Answered(call[k], "ok") EXCEPT !.fleet = fleet]
          /\ x.at = "done"
          /\ call' = [call EXCEPT ![k] = x]
  BY ListAnswer DEF SQLInv
<1>3. Seen' = [Seen EXCEPT ![k] = x]
  <2>1. Promised(x) = x
    BY <1>2, PromisedCall
  <2>2. Seen' = [Seen EXCEPT ![k] = Promised(x)]
    BY <1>2, SeenMoves
  <2> QED BY <2>1, <2>2
<1>4. x = [Contract!Answered(Seen[k], "ok") EXCEPT !.fleet = fleet]
  BY <1>1, <1>2 DEF Contract!Answered, Answered
<1>5. UNCHANGED Contract!storeVars
  BY DEF List, storeVars, Committed, Tables, Contract!storeVars
<1> QED BY <1>1, <1>3, <1>4, <1>5 DEF List, Contract!List, Seen

LEMMA RefineFail ==
    ASSUME SQLInv, NEW k \in Calls, Fail(k)
    PROVE  Contract!Fail(k)
<1>1. Seen[k] = call[k] /\ call[k].at = "called"
  BY CallTyped, PromisedCall DEF Fail, Seen, SQLInv
<1>2. Committed' = Committed /\ Committed = Tables
  BY DEF Fail, Refuse, ListCutShort, List, storeVars, Committed, Tables
<1>3. UNCHANGED Contract!storeVars
  BY <1>2 DEF Contract!storeVars
<1>4. CASE Refuse(k)
  <2>1. "error" \in Answers /\ call' = [call EXCEPT ![k] = Answered(call[k], "error")]
    BY <1>4 DEF Refuse, Answers
  <2>2. Promised(Answered(call[k], "error")) = Answered(call[k], "error")
    BY <2>1, CallTyped, PromisedCall DEF SQLInv
  <2>3. Seen' = [Seen EXCEPT ![k] = Answered(Seen[k], "error")]
    BY <1>1, <2>1, <2>2, SeenMoves
  <2>4. Contract!Refuse(k)
    BY <1>1, <1>3, <1>4, <2>3
    DEF Refuse, Contract!Refuse, Contract!Answered, Answered, Seen
  <2> QED BY <1>1, <2>4 DEF Fail, Contract!Fail, Seen
<1>5. CASE ListCutShort(k)
  <2>1. PICK fleet \in SUBSET Available : List(k, fleet)
    BY <1>5 DEF ListCutShort
  <2>2. fleet \in SUBSET Contract!Available
    BY <1>2, <2>1 DEF Available, Contract!Available, Tables
  <2>3. Contract!List(k, fleet)
    BY <2>1, RefineList DEF Fail, Available, SQLInv
  <2>4. Contract!ListCutShort(k)
    BY <2>2, <2>3 DEF Contract!ListCutShort
  <2> QED BY <1>1, <2>4 DEF Fail, Contract!Fail, Seen
<1> QED BY <1>4, <1>5 DEF Fail

LEMMA RefineLeave ==
    ASSUME SQLInv, NEW k \in Calls, Leave(k)
    PROVE  Contract!Return(k)
<1>1. Promised(call[k]) = call[k] /\ Promised(IdleCall) = IdleCall
  BY CallTyped, PromisedCall DEF Leave, Return, SQLInv
<1>2. Seen' = [Seen EXCEPT ![k] = IdleCall] /\ Seen[k].at = "done"
  BY <1>1, SeenMoves DEF Leave, Return, Seen
<1>3. Committed' = Committed
  BY DEF Leave, Return, storeVars, Committed, Tables
<1> QED BY <1>2, <1>3
  DEF Contract!Return, Contract!storeVars, Contract!IdleCall, Contract!NoCommand,
      IdleCall, NoCommand, Seen

\* Up to the Commit nothing has happened.
LEMMA RefineUndecided ==
    ASSUME SQLInv, NEW k \in Calls,
           Begin(k) \/ BookCarrier(k) \/ AssignShipment(k)
    PROVE  UNCHANGED Contract!contractVars
<1>1. PICK stage \in InTransaction : call' = [call EXCEPT ![k] = [call[k] EXCEPT !.at = stage]]
  BY DEF Begin, BookCarrier, AssignShipment, At, InTransaction
<1>2. call[k] \in Call(Stages) /\ call[k].at \in { "called" } \cup InTransaction
  BY CallTyped DEF Begin, BookCarrier, AssignShipment, InTransaction, SQLInv
<1>3. [call[k] EXCEPT !.at = stage] \in Call(Stages)
      /\ [call[k] EXCEPT !.at = stage].at = stage
  BY <1>2 DEF Call, Stages, InTransaction
<1>4. Promised([call[k] EXCEPT !.at = stage]) = [call[k] EXCEPT !.at = "called"]
  BY <1>2, <1>3, PromisedCall DEF Call
<1>5. Promised(call[k]) = [call[k] EXCEPT !.at = "called"]
  BY <1>2, PromisedCall DEF Call
<1>6. Seen' = Seen
  BY <1>1, <1>4, <1>5, SeenMoves DEF Seen
<1>7. Committed' = Committed
  <2>1. CASE Begin(k)
    BY <2>1, NoCallIsNone DEF Begin, Committed
  <2>2. CASE BookCarrier(k) \/ AssignShipment(k)
    <3>1. holder' = holder /\ journal' = journal /\ holder # NoCall
      BY <2>2, InTransactionOf DEF BookCarrier, AssignShipment, InTransaction
    <3> QED BY <3>1 DEF Committed
  <2> QED BY <2>1, <2>2
<1> QED BY <1>6, <1>7 DEF Contract!contractVars, Seen

\* A rollback is a failure, or the answer that the carrier is not available.
LEMMA RefineRollback ==
    ASSUME SQLInv, NEW k \in Calls, BookNothing(k) \/ Abort(k)
    PROVE  Contract!Perform(k) \/ Contract!Fail(k)
<1> DEFINE cmd == call[k].command
<1>1. call[k].at \in InTransaction /\ GoBack
  BY DEF BookNothing, Abort, InTransaction
<1>2. Committed' = Committed
  <2>1. Committed = journal /\ Committed' = Tables'
    BY <1>1, InTransactionOf DEF GoBack, Committed
  <2>2. Tables' = journal
    BY <1>1 DEF GoBack, Tables, SQLInv, SQLiteTypeOK
  <2> QED BY <2>1, <2>2
<1>3. /\ Seen[k] = [call[k] EXCEPT !.at = "called"]
      /\ Seen[k].at = "called" /\ Seen[k].command = cmd
      /\ \A a \in Answers : Answered(Seen[k], a) = Answered(call[k], a)
  <2>1. call[k] \in Call(Stages)
    BY CallTyped DEF SQLInv
  <2>2. Seen[k] = [call[k] EXCEPT !.at = "called"]
    BY <1>1, <2>1, PromisedCall DEF Seen
  <2> QED BY <2>1, <2>2 DEF Call, Answered
<1>4. \A a \in Answers : Promised(Answered(call[k], a)) = Answered(call[k], a)
  BY CallTyped, PromisedCall DEF SQLInv
<1>5. CASE Abort(k)
  <2>1. Seen' = [Seen EXCEPT ![k] = Answered(Seen[k], "error")]
    <3>1. "error" \in Answers /\ call' = [call EXCEPT ![k] = Answered(call[k], "error")]
      BY <1>5 DEF Abort, Answers
    <3>2. Seen' = [Seen EXCEPT ![k] = Promised(Answered(call[k], "error"))]
      BY <3>1, SeenMoves
    <3> QED BY <1>3, <1>4, <3>1, <3>2
  <2>2. Contract!Refuse(k)
    BY <1>1, <1>2, <1>3, <2>1, InTransactionOf
    DEF Contract!Refuse, Contract!storeVars, Contract!Answered, Answered, Seen
  <2> QED BY <1>3, <1>5, <2>2 DEF Abort, Contract!Fail, Seen
<1>6. CASE BookNothing(k)
  <2>1. Seen' = [Seen EXCEPT ![k] = Answered(Seen[k], "unavailable")]
    <3>1. /\ "unavailable" \in Answers
          /\ call' = [call EXCEPT ![k] = Answered(call[k], "unavailable")]
      BY <1>6 DEF BookNothing, Answers
    <3>2. Seen' = [Seen EXCEPT ![k] = Promised(Answered(call[k], "unavailable"))]
      BY <3>1, SeenMoves
    <3> QED BY <1>3, <1>4, <3>1, <3>2
  <2>2. Committed.carriers[cmd.carrier] # "available"
    BY <1>1, <1>6, InTransactionOf DEF BookNothing, HalfDone, SQLInv
  <2>3. cmd.method = "Dispatch"
    BY <1>1, InTransactionOf
  <2> QED BY <1>2, <1>3, <2>1, <2>2, <2>3
    DEF Contract!Perform, Contract!storeVars, Contract!Answered, Answered, Seen
<1> QED BY <1>5, <1>6

\* A Commit that goes through, heard of or not, is the contract's dispatch.
LEMMA CommitDispatches ==
    ASSUME SQLInv, NEW k \in Calls, call[k].at = "commit", Stay
    PROVE  LET cmd == call[k].command IN
           /\ cmd.method = "Dispatch"
           /\ Committed.carriers[cmd.carrier] = "available"
           /\ Contract!Dispatch(cmd.shipment, cmd.carrier, cmd.price)
<1> DEFINE cmd == call[k].command
<1>1. call[k].at \in InTransaction
  BY DEF InTransaction
<1>2. /\ Committed = journal
      /\ Committed'.carriers = carriers /\ Committed'.shipments = shipments
  BY <1>1, InTransactionOf DEF Stay, Committed, Tables, storeVars
<1>3. /\ Committed.carriers[cmd.carrier] = "available"
      /\ Committed'.carriers = [Committed.carriers EXCEPT ![cmd.carrier] = "booked"]
      /\ Committed'.shipments = Assigned(Committed.shipments, cmd)
  BY <1>2 DEF SQLInv, HalfDone, Booked
<1>4. cmd.method = "Dispatch" /\ Committed.shipments[cmd.shipment].status # "absent"
  BY <1>1, <1>2, InTransactionOf
<1> HIDE DEF cmd
<1>5. Contract!Dispatch(cmd.shipment, cmd.carrier, cmd.price)
  BY <1>3, <1>4
  DEF Contract!Dispatch, Contract!ShipmentExists, Contract!StatusDispatched,
      StatusDispatched, Assigned
<1> QED BY <1>3, <1>4, <1>5 DEF cmd

LEMMA RefineCommitFails ==
    ASSUME SQLInv, NEW k \in Calls, CommitFails(k)
    PROVE  Contract!Fail(k) \/ Contract!Break(k)
<1>1. call[k].at = "commit" /\ call[k].at \in InTransaction /\ "error" \in Answers
      /\ call' = [call EXCEPT ![k] = Answered(call[k], "error")]
  BY DEF CommitFails, InTransaction, Answers
<1>2. Seen[k].at = "called" /\ Seen[k].command = call[k].command
      /\ Answered(Seen[k], "error") = Answered(call[k], "error")
  <2>1. call[k] \in Call(Stages)
    BY CallTyped DEF SQLInv
  <2>2. Seen[k] = [call[k] EXCEPT !.at = "called"]
    BY <1>1, <2>1, PromisedCall DEF Seen
  <2> QED BY <2>1, <2>2 DEF Call, Answered
<1>3. Seen' = [Seen EXCEPT ![k] = Answered(Seen[k], "error")]
  <2>1. Promised(Answered(call[k], "error")) = Answered(call[k], "error")
    BY <1>1, CallTyped, PromisedCall DEF SQLInv
  <2>2. Seen' = [Seen EXCEPT ![k] = Promised(Answered(call[k], "error"))]
    BY <1>1, SeenMoves
  <2> QED BY <1>2, <2>1, <2>2
<1>4. Contract!Answered(Seen[k], "error") = Answered(Seen[k], "error")
  BY DEF Contract!Answered, Answered
<1>5. CASE Stay
  BY <1>1, <1>2, <1>3, <1>4, <1>5, CommitDispatches
  DEF CommitFails, Contract!Break, Seen
<1>6. CASE GoBack
  <2>1. UNCHANGED Contract!storeVars
    <3>1. Committed = journal /\ Committed' = Tables'
      BY <1>1, <1>6, InTransactionOf DEF GoBack, Committed
    <3>2. Tables' = journal
      BY <1>6 DEF GoBack, Tables, SQLInv, SQLiteTypeOK
    <3> QED BY <3>1, <3>2 DEF Contract!storeVars
  <2>2. Contract!Refuse(k)
    BY <1>1, <1>2, <1>3, <1>4, <2>1, InTransactionOf DEF Contract!Refuse, Seen
  <2> QED BY <1>2, <2>2 DEF CommitFails, Contract!Fail, Seen
<1> QED BY <1>5, <1>6 DEF CommitFails

\* The Commit is the instant a dispatch takes effect.
LEMMA RefineCommit ==
    ASSUME SQLInv, NEW k \in Calls, Commit(k)
    PROVE  Contract!Perform(k)
<1> DEFINE cmd == call[k].command
           x == [call[k] EXCEPT !.at = "readback"]
<1>1. call[k].at \in InTransaction /\ call[k] \in Call(Stages)
  BY CallTyped DEF Commit, InTransaction, SQLInv
<1>2. Seen[k] = [call[k] EXCEPT !.at = "called"] /\ Seen[k].at = "called"
      /\ Seen[k].command = cmd
  BY <1>1, PromisedCall DEF Seen, Call
<1>3. x \in Call(Stages) /\ x.at = "readback"
  BY <1>1 DEF Call, Stages
<1>4. Promised(x) = Answered(Seen[k], "ok")
  BY <1>1, <1>2, <1>3, PromisedCall DEF Call, Answered
<1>5. call' = [call EXCEPT ![k] = x]
  BY DEF Commit, At
<1> HIDE DEF x
<1>6. Seen' = [Seen EXCEPT ![k] = Answered(Seen[k], "ok")]
  BY <1>4, <1>5, SeenMoves
<1>7. /\ cmd.method = "Dispatch"
      /\ Committed.carriers[cmd.carrier] = "available"
      /\ Contract!Dispatch(cmd.shipment, cmd.carrier, cmd.price)
  BY CommitDispatches DEF Commit
<1> HIDE DEF cmd
<1> QED BY <1>2, <1>6, <1>7
  DEF Contract!Perform, Contract!Answered, Answered, Seen

\* Reading the row back shows nothing new, or turns the answer into an error.
LEMMA RefineReadBack ==
    ASSUME SQLInv, NEW k \in Calls, ReadBack(k)
    PROVE  Contract!Break(k) \/ UNCHANGED Contract!contractVars
<1>1. call[k] \in Call(Stages) /\ call[k].at = "readback"
      /\ call[k].command.method = "Dispatch"
  BY CallTyped DEF ReadBack, SQLInv, SQLiteTypeOK
<1>2. Seen[k] = Answered(call[k], "ok") /\ Seen[k].at = "done" /\ Seen[k].answer = "ok"
      /\ Seen[k].command = call[k].command
      /\ Answered(Seen[k], "error") = Answered(call[k], "error")
  <2>1. Seen[k] = Answered(call[k], "ok")
    BY <1>1, PromisedCall DEF Seen
  <2> QED BY <1>1, <2>1 DEF Answered, Call
<1>3. \A a \in Answers : Promised(Answered(call[k], a)) = Answered(call[k], a)
  BY CallTyped, PromisedCall DEF SQLInv
<1>4. Committed' = Committed
  BY DEF ReadBack, storeVars, Committed, Tables
<1>5. CASE call' = [call EXCEPT ![k] = Answered(@, "ok")]
  <2>1. Seen' = [Seen EXCEPT ![k] = Answered(call[k], "ok")]
    BY <1>3, <1>5, SeenMoves DEF Answers
  <2>2. Seen' = Seen
    BY <1>2, <2>1 DEF Seen
  <2> QED BY <1>4, <2>2 DEF Contract!contractVars, Seen
<1>6. CASE "store" \in Faults /\ call' = [call EXCEPT ![k] = Answered(@, "error")]
  <2>1. Seen' = [Seen EXCEPT ![k] = Answered(Seen[k], "error")]
    <3>1. "error" \in Answers /\ call' = [call EXCEPT ![k] = Answered(call[k], "error")]
      BY <1>6 DEF Answers
    <3>2. Seen' = [Seen EXCEPT ![k] = Promised(Answered(call[k], "error"))]
      BY <3>1, SeenMoves
    <3> QED BY <1>2, <1>3, <3>1, <3>2
  <2>2. UNCHANGED Contract!storeVars
    BY <1>4 DEF Contract!storeVars
  <2>3. Seen' = [Seen EXCEPT ![k] = Contract!Answered(Seen[k], "error")]
    BY <2>1 DEF Contract!Answered, Answered
  <2> QED BY <1>1, <1>2, <1>6, <2>2, <2>3 DEF Contract!Break, Seen
<1> QED BY <1>5, <1>6 DEF ReadBack

LEMMA RefineCrash ==
    ASSUME SQLInv, Crash
    PROVE  Contract!Crash
<1>1. Seen' = [k \in Calls |-> IdleCall]
  BY DEF Crash, Seen, Promised, IdleCall, InTransaction
<1>2. Committed'.carriers = Committed.carriers /\ Committed'.shipments = Committed.shipments
  BY DEF Crash, Committed, Tables
<1> QED BY <1>1, <1>2
  DEF Crash, Contract!Crash, Contract!storeVars, Contract!IdleCall, Contract!NoCommand,
      IdleCall, NoCommand, Seen

LEMMA RefineStatement ==
    ASSUME SQLInv, NEW k \in Calls, Statement(k)
    PROVE  Contract!Perform(k)
<1> DEFINE cmd == call[k].command
<1>1. /\ Committed.carriers = carriers /\ Committed.shipments = shipments
      /\ Committed'.carriers = carriers' /\ Committed'.shipments = shipments'
  BY DEF Statement, Committed, Tables
<1>2. Seen[k] = call[k] /\ call[k].at = "called" /\ Seen[k].command = cmd
  BY CallTyped, PromisedCall DEF Statement, Seen, SQLInv
<1>3. ASSUME NEW x \in Call(Stages), x.at = "done", call' = [call EXCEPT ![k] = x]
      PROVE  Seen' = [Seen EXCEPT ![k] = x]
  <2>1. Promised(x) = x
    BY <1>3, PromisedCall
  <2>2. Seen' = [Seen EXCEPT ![k] = Promised(x)]
    BY <1>3, SeenMoves
  <2> QED BY <2>1, <2>2
<1>4. ASSUME NEW a \in Answers, call' = [call EXCEPT ![k] = Answered(@, a)]
      PROVE  Seen' = [Seen EXCEPT ![k] = Contract!Answered(Seen[k], a)]
  <2>1. Answered(call[k], a) \in Call(Stages) /\ Answered(call[k], a).at = "done"
    BY CallTyped DEF SQLInv
  <2>2. Seen' = [Seen EXCEPT ![k] = Answered(call[k], a)]
    BY <1>3, <1>4, <2>1
  <2>3. Contract!Answered(Seen[k], a) = Answered(Seen[k], a)
    BY DEF Contract!Answered, Answered
  <2> QED BY <1>2, <2>2, <2>3
<1>5. /\ \A b \in BOOLEAN : Found(b) \in Answers /\ Found(b) = Contract!Found(b)
      /\ "ok" \in Answers
      /\ \A c : CarrierExists(c) <=> Contract!CarrierExists(c)
      /\ \A s : ShipmentExists(s) <=> Contract!ShipmentExists(s)
  BY <1>1 DEF Found, Answers, Contract!Found, CarrierExists, ShipmentExists,
              Contract!CarrierExists, Contract!ShipmentExists
<1>6. Contract!OneStatement(k)
  <2>1. CASE /\ cmd.method = "SaveCarrier" /\ SaveCarrier(cmd.carrier)
             /\ call' = [call EXCEPT ![k] = Answered(@, "ok")]
    <3>1. Contract!SaveCarrier(cmd.carrier)
      BY <1>1, <1>5, <2>1 DEF SaveCarrier, Contract!SaveCarrier
    <3>2. Seen' = [Seen EXCEPT ![k] = Contract!Answered(Seen[k], "ok")]
      BY <1>4, <1>5, <2>1
    <3> QED BY <1>2, <2>1, <3>1, <3>2 DEF Contract!OneStatement, Seen
  <2>2. CASE /\ cmd.method = "SaveShipment" /\ SaveShipment(cmd.shipment)
             /\ call' = [call EXCEPT ![k] = Answered(@, "ok")]
    <3>1. Contract!SaveShipment(cmd.shipment)
      BY <1>1, <1>5, <2>2 DEF SaveShipment, Contract!SaveShipment, NoRow, Contract!NoRow,
                              StatusPending, Contract!StatusPending
    <3>2. Seen' = [Seen EXCEPT ![k] = Contract!Answered(Seen[k], "ok")]
      BY <1>4, <1>5, <2>2
    <3> QED BY <1>2, <2>2, <3>1, <3>2 DEF Contract!OneStatement, Seen
  <2>3. CASE /\ cmd.method = "UpdateShipmentStatus"
             /\ IF ShipmentExists(cmd.shipment)
                THEN UpdateShipmentStatus(cmd.shipment, cmd.status)
                ELSE UNCHANGED storeVars
             /\ call' = [call EXCEPT ![k] = Answered(@, Found(ShipmentExists(cmd.shipment)))]
    <3>1. UpdateShipmentStatus(cmd.shipment, cmd.status) =>
              Contract!UpdateShipmentStatus(cmd.shipment, cmd.status)
      BY <1>1, <1>5 DEF UpdateShipmentStatus, Contract!UpdateShipmentStatus
    <3>2. Seen' = [Seen EXCEPT ![k] =
              Contract!Answered(Seen[k], Contract!Found(Contract!ShipmentExists(cmd.shipment)))]
      BY <1>4, <1>5, <2>3 DEF ShipmentExists, Contract!ShipmentExists
    <3>3. UNCHANGED storeVars => UNCHANGED Contract!storeVars
      BY <1>1 DEF storeVars, Contract!storeVars
    <3> QED BY <1>2, <1>5, <2>3, <3>1, <3>2, <3>3 DEF Contract!OneStatement, Seen
  <2>4. CASE /\ cmd.method = "UpdateShipmentPayment"
             /\ IF ShipmentExists(cmd.shipment)
                THEN UpdateShipmentPayment(cmd.shipment, cmd.intent, cmd.paid)
                ELSE UNCHANGED storeVars
             /\ call' = [call EXCEPT ![k] = Answered(@, Found(ShipmentExists(cmd.shipment)))]
    <3>1. UpdateShipmentPayment(cmd.shipment, cmd.intent, cmd.paid) =>
              Contract!UpdateShipmentPayment(cmd.shipment, cmd.intent, cmd.paid)
      BY <1>1, <1>5 DEF UpdateShipmentPayment, Contract!UpdateShipmentPayment
    <3>2. Seen' = [Seen EXCEPT ![k] =
              Contract!Answered(Seen[k], Contract!Found(Contract!ShipmentExists(cmd.shipment)))]
      BY <1>4, <1>5, <2>4 DEF ShipmentExists, Contract!ShipmentExists
    <3>3. UNCHANGED storeVars => UNCHANGED Contract!storeVars
      BY <1>1 DEF storeVars, Contract!storeVars
    <3> QED BY <1>2, <1>5, <2>4, <3>1, <3>2, <3>3 DEF Contract!OneStatement, Seen
  <2>5. CASE /\ cmd.method = "ReleaseCarrier"
             /\ IF CarrierExists(cmd.carrier)
                THEN ReleaseCarrier(cmd.carrier)
                ELSE UNCHANGED storeVars
             /\ call' = [call EXCEPT ![k] = Answered(@, Found(CarrierExists(cmd.carrier)))]
    <3>1. ReleaseCarrier(cmd.carrier) => Contract!ReleaseCarrier(cmd.carrier)
      BY <1>1, <1>5 DEF ReleaseCarrier, Contract!ReleaseCarrier
    <3>2. Seen' = [Seen EXCEPT ![k] =
              Contract!Answered(Seen[k], Contract!Found(Contract!CarrierExists(cmd.carrier)))]
      BY <1>4, <1>5, <2>5 DEF CarrierExists, Contract!CarrierExists
    <3>3. UNCHANGED storeVars => UNCHANGED Contract!storeVars
      BY <1>1 DEF storeVars, Contract!storeVars
    <3> QED BY <1>2, <1>5, <2>5, <3>1, <3>2, <3>3 DEF Contract!OneStatement, Seen
  <2>6. CASE /\ cmd.method = "GetCarrier" /\ UNCHANGED storeVars
             /\ call' = [call EXCEPT ![k] = Answered(@, Found(CarrierExists(cmd.carrier)))]
    <3>1. Seen' = [Seen EXCEPT ![k] =
              Contract!Answered(Seen[k], Contract!Found(Contract!CarrierExists(cmd.carrier)))]
      BY <1>4, <1>5, <2>6 DEF CarrierExists, Contract!CarrierExists
    <3>2. UNCHANGED Contract!storeVars
      BY <1>1, <2>6 DEF storeVars, Contract!storeVars
    <3> QED BY <1>2, <2>6, <3>1, <3>2 DEF Contract!OneStatement, Seen
  <2>7. CASE /\ cmd.method = "GetShipment" /\ UNCHANGED storeVars
             /\ call' = [call EXCEPT ![k] = Answered(@, Found(ShipmentExists(cmd.shipment)))]
    <3>1. Seen' = [Seen EXCEPT ![k] =
              Contract!Answered(Seen[k], Contract!Found(Contract!ShipmentExists(cmd.shipment)))]
      BY <1>4, <1>5, <2>7 DEF ShipmentExists, Contract!ShipmentExists
    <3>2. UNCHANGED Contract!storeVars
      BY <1>1, <2>7 DEF storeVars, Contract!storeVars
    <3> QED BY <1>2, <2>7, <3>1, <3>2 DEF Contract!OneStatement, Seen
  <2>8. CASE List(k, Available)
    <3>1. Available \in SUBSET Carriers /\ Contract!Available = Available
      BY <1>1 DEF Available, Contract!Available
    <3>2. Contract!List(k, Contract!Available)
      BY <2>8, <3>1, RefineList DEF Statement
    <3> QED BY <3>2 DEF Contract!OneStatement
  <2> QED BY <2>1, <2>2, <2>3, <2>4, <2>5, <2>6, <2>7, <2>8 DEF Statement, OneStatement
<1> QED BY <1>2, <1>6 DEF Contract!Perform, Seen

LEMMA RefineNext ==
    ASSUME SQLInv, [Next]_sqlVars
    PROVE  [Contract!Next]_Contract!contractVars
<1>1. CASE UNCHANGED sqlVars
  BY <1>1 DEF sqlVars, Contract!contractVars, Committed, Tables, Seen, Promised, Answered
<1>2. ASSUME NEW k \in Calls, NEW cmd \in Commands, Invoke(k, cmd),
             UNCHANGED << holder, journal >>
      PROVE  Contract!Next
  BY <1>2, RefineInvoke DEF Contract!Next
<1>3. ASSUME NEW k \in Calls, \/ Statement(k) \/ Fail(k) \/ Begin(k)
                              \/ Transaction(k) \/ ReadBack(k) \/ Leave(k)
      PROVE  [Contract!Next]_Contract!contractVars
  BY <1>3, RefineStatement, RefineFail, RefineUndecided, RefineRollback,
     RefineCommit, RefineCommitFails, RefineReadBack, RefineLeave
  DEF Transaction, Contract!Next
<1>4. CASE Crash
  BY <1>4, RefineCrash DEF Contract!Next
<1> QED BY <1>1, <1>2, <1>3, <1>4 DEF Next

-----------------------------------------------------------------------------
(* The theorems *)

\* The connection is with the transaction that began on it and with nobody else,
\* and every row and call is of its type (sqlite_store.go:33, 248-286).
THEOREM SQLiteTypeCorrect == Spec => []SQLiteTypeOK
<1>1. SQLInv => SQLiteTypeOK
  BY DEF SQLInv
<1> QED BY <1>1, SQLInvariant, PTL

\* Two UPDATEs, a Commit and a read over one connection are one atomic dispatch,
\* and the other methods are what the interface says, whatever fails and whenever
\* the process dies (store.go:16-48); where something fails a dispatch may answer
\* an error although it is in effect, and ListCarriers a part of the fleet.
THEOREM ContractImplemented == Spec => ImplementsContract
<1>1. Init => Contract!Init
  BY RefineInit
<1>2. SQLInv /\ [Next]_sqlVars => [Contract!Next]_Contract!contractVars
  BY RefineNext
<1> QED BY <1>1, <1>2, SQLInvariant, PTL DEF Spec, ImplementsContract, Contract!Spec

=============================================================================
