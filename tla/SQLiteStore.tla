----------------------------- MODULE SQLiteStore -----------------------------
(***************************************************************************)
(* The store as sqlite_store.go builds it: one database connection, for    *)
(* which every call queues, one statement on it for most methods, and for  *)
(* Dispatch a transaction of two statements followed, once the connection  *)
(* has been given back, by a read of the row.                              *)
(*                                                                         *)
(* carriers and shipments are the tables as the connection sees them.      *)
(* While a transaction is open, journal holds them as they were at its     *)
(* Begin: that is what the file says until the Commit, and what a rollback *)
(* or a restart goes back to.                                              *)
(***************************************************************************)
EXTENDS StoreCalls

CONSTANT NoCall   \* nobody has the connection

ASSUME NoCallIsNone == NoCall \notin Calls

VARIABLES
    holder,       \* the call whose transaction has the connection
    journal       \* the tables at the Begin of the open transaction

sqlVars == << carriers, shipments, call, holder, journal >>

Stages == { "idle", "called", "book", "assign", "commit", "readback", "done" }
InTransaction == { "book", "assign", "commit" }

Tables == [ carriers |-> carriers, shipments |-> shipments ]
Empty  == [ carriers  |-> [c \in Carriers |-> "absent"],
            shipments |-> [s \in Shipments |-> NoRow] ]

\* What a process that opened the file now would find.
Committed == IF holder = NoCall THEN Tables ELSE journal

\* Type correctness; the connection is out exactly while its holder is inside
\* its transaction.
SQLiteTypeOK ==
    /\ StoreTypeOK
    /\ call \in [Calls -> Call(Stages)]
    /\ holder \in Calls \cup { NoCall }
    /\ journal \in [ carriers  : [Carriers -> { "absent", "available", "booked" }],
                     shipments : [Shipments -> ShipmentRow] ]
    /\ \A k \in Calls : call[k].at \in InTransaction <=> holder = k
    /\ \A k \in Calls : call[k].at \in InTransaction \cup { "readback" } =>
                            call[k].command.method = "Dispatch"

Init ==
    /\ StoreInit
    /\ call = [k \in Calls |-> IdleCall]
    /\ holder = NoCall
    /\ journal = Empty

At(k, stage) == call' = [call EXCEPT ![k].at = stage]

\* Rollback: the tables go back to the journal, the connection to the pool.
GoBack == /\ carriers' = journal.carriers
          /\ shipments' = journal.shipments
          /\ holder' = NoCall
          /\ journal' = Empty

-----------------------------------------------------------------------------

\* A method of one statement has the connection for just that statement.
Statement(k) ==
    /\ call[k].at = "called"
    /\ holder = NoCall
    /\ OneStatement(k)
    /\ UNCHANGED << holder, journal >>

\* The statement, or Begin, returns an error, which ListCarriers keeps to itself.
Fail(k) ==
    /\ "store" \in Faults
    /\ call[k].at = "called"
    /\ holder = NoCall
    /\ Refuse(k) \/ ListCutShort(k)
    /\ UNCHANGED << holder, journal >>

Begin(k) ==
    /\ call[k].at = "called"
    /\ call[k].command.method = "Dispatch"
    /\ holder = NoCall
    /\ holder' = k
    /\ journal' = Tables
    /\ At(k, "book")
    /\ UNCHANGED storeVars

\* UPDATE carriers SET is_available = 0 WHERE id = ? AND is_available = 1
BookCarrier(k) ==
    LET c == call[k].command.carrier IN
    /\ call[k].at = "book"
    /\ carriers[c] = "available"
    /\ carriers' = [carriers EXCEPT ![c] = "booked"]
    /\ At(k, "assign")
    /\ UNCHANGED << shipments, holder, journal >>

\* Mutant: RowsAffected is not looked at and the shipment is assigned.
BookNothingUnchecked(k) ==
    /\ call[k].at = "book"
    /\ carriers[call[k].command.carrier] # "available"
    /\ At(k, "assign")
    /\ UNCHANGED << storeVars, holder, journal >>

\* No row affected: ErrCarrierUnavailable, and the deferred Rollback.
BookNothing(k) ==
    /\ call[k].at = "book"
    /\ carriers[call[k].command.carrier] # "available"
    /\ call' = [call EXCEPT ![k] = Answered(@, "unavailable")]
    /\ GoBack

\* UPDATE shipments SET carrier_id = ?, ... WHERE id = ?.  How many rows it
\* affects is not looked at; Legal has seen to the row.
AssignShipment(k) ==
    LET cmd == call[k].command IN
    /\ call[k].at = "assign"
    /\ shipments' = [shipments EXCEPT
                        ![cmd.shipment] = [@ EXCEPT !.carrier = cmd.carrier,
                                                    !.price = cmd.price,
                                                    !.status = StatusDispatched]]
    /\ At(k, "commit")
    /\ UNCHANGED << carriers, holder, journal >>

\* Mutant: the row is read back before the connection is given back.
CommitKeepsConnection(k) ==
    /\ call[k].at = "commit"
    /\ journal' = Tables
    /\ At(k, "readback")
    /\ UNCHANGED << storeVars, holder >>

\* The tables stay as they are; the connection goes back to the pool.
Stay == /\ holder' = NoCall
        /\ journal' = Empty
        /\ UNCHANGED storeVars

Commit(k) ==
    /\ call[k].at = "commit"
    /\ At(k, "readback")
    /\ Stay

\* The Commit returns an error, and the deferred Rollback does nothing: the
\* transaction is over for database/sql.  What the file has is up to SQLite, all
\* of it or none, and the error does not tell which.
CommitFails(k) ==
    /\ "store" \in Faults
    /\ call[k].at = "commit"
    /\ call' = [call EXCEPT ![k] = Answered(@, "error")]
    /\ Stay \/ GoBack

\* Mutant: statements on the database instead of the transaction, each of which
\* stays.
AbortLeavesHalf(k) ==
    /\ "store" \in Faults
    /\ call[k].at \in { "book", "assign" }
    /\ call' = [call EXCEPT ![k] = Answered(@, "error")]
    /\ Stay

\* Either UPDATE returns an error, and the deferred Rollback undoes what there is.
Abort(k) ==
    /\ "store" \in Faults
    /\ call[k].at \in { "book", "assign" }
    /\ call' = [call EXCEPT ![k] = Answered(@, "error")]
    /\ GoBack

\* GetShipment, in a queue for the connection again; others have been served in
\* between.  Its error becomes Dispatch's.
ReadBack(k) ==
    /\ call[k].at = "readback"
    /\ holder = NoCall
    /\ \/ call' = [call EXCEPT ![k] = Answered(@, "ok")]
       \/ /\ "store" \in Faults
          /\ call' = [call EXCEPT ![k] = Answered(@, "error")]
    /\ UNCHANGED << storeVars, holder, journal >>

Leave(k) == Return(k) /\ UNCHANGED << holder, journal >>

\* The process dies.  The next one finds the file, and rolls back what the
\* journal says was not committed.
Crash ==
    /\ "crash" \in Faults
    /\ \E k \in Calls : call[k].at # "idle"
    /\ carriers' = Committed.carriers
    /\ shipments' = Committed.shipments
    /\ call' = [k \in Calls |-> IdleCall]
    /\ holder' = NoCall
    /\ journal' = Empty

Transaction(k) == \/ BookCarrier(k) \/ BookNothing(k) \/ AssignShipment(k)
                  \/ Commit(k) \/ CommitFails(k) \/ Abort(k)

Next ==
    \/ /\ \E k \in Calls, cmd \in Commands : Invoke(k, cmd)
       /\ UNCHANGED << holder, journal >>
    \/ \E k \in Calls : \/ Statement(k) \/ Fail(k) \/ Begin(k)
                        \/ Transaction(k) \/ ReadBack(k) \/ Leave(k)
    \/ Crash

Spec == Init /\ [][Next]_sqlVars

\* A goroutine inside its transaction runs on.  One that waits for the
\* connection is handed it some time: database/sql gives a connection that comes
\* free to one of those waiting.
Fairness == \A k \in Calls :
    /\ WF_sqlVars(Transaction(k) \/ Leave(k))
    /\ SF_sqlVars(Statement(k) \/ Begin(k))
    /\ SF_sqlVars(ReadBack(k))

FairSpec == Spec /\ Fairness

-----------------------------------------------------------------------------
(* Properties *)

\* A call as its caller may think of it: a dispatch is in effect from its Commit
\* on, and not before.
Promised(r) ==
    IF r.at \in InTransaction   THEN [r EXCEPT !.at = "called"]
    ELSE IF r.at = "readback" THEN Answered(r, "ok")
    ELSE r

Contract == INSTANCE StoreContract WITH
    carriers  <- Committed.carriers,
    shipments <- Committed.shipments,
    call      <- [k \in Calls |-> Promised(call[k])]

\* Every method is atomic, whatever fails and whenever the process dies: a
\* dispatch books the carrier and assigns the shipment or does neither, of two for
\* one carrier one succeeds, "unavailable" is said only of a carrier that is, and
\* no reader sees a booking that is then rolled back (store.go:28-35,
\* sqlite_store.go:236-247).  The answers are true, but for two that a failing
\* database makes the caller believe or wonder about: a list of carriers may be
\* short without a word, and after an error of Dispatch the booking may be there.
ImplementsContract == Contract!Spec

\* No call waits for good: in particular not Dispatch for the one connection
\* while it has it (sqlite_store.go:33, SetMaxOpenConns(1)).
EveryCallReturns == \A k \in Calls : call[k].at # "idle" ~> call[k].at = "idle"

=============================================================================
