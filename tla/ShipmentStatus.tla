--------------------------- MODULE ShipmentStatus ---------------------------
(***************************************************************************)
(* The status column of a shipment row and the table of legal moves.       *)
(*                                                                         *)
(* statemachine.go names six statuses and the moves between them.  The     *)
(* match workers write two more ("matching", "matched") and write them     *)
(* without consulting the table, so a row can hold any of the eight.       *)
(***************************************************************************)

StatusPending    == "pending"
StatusDispatched == "dispatched"
StatusInTransit  == "in_transit"
StatusDelivered  == "delivered"
StatusCancelled  == "cancelled"
StatusNoMatch    == "no_match"

\* The names statemachine.go knows.
Statuses == { StatusPending, StatusDispatched, StatusInTransit,
              StatusDelivered, StatusCancelled, StatusNoMatch }

\* The literals worker.go writes; statemachine.go does not know them.
StatusMatching == "matching"
StatusMatched  == "matched"

\* Everything a row that exists can hold.
RowStatuses == Statuses \cup { StatusMatching, StatusMatched }

\* What a PATCH may ask for with success: nothing leads back to "pending".
NextStatuses == Statuses \ { StatusPending }

\* A row whose carrier is on the road for it.
ActiveStatuses == { StatusDispatched, StatusInTransit }

\* A status is in the table only as the first half of a pair, so a source the
\* table does not list ("matching", "matched") has no legal move: the lookup
\* fails closed.
AllowedTransitions ==
    { << StatusPending,    StatusDispatched >>,
      << StatusPending,    StatusNoMatch    >>,
      << StatusDispatched, StatusInTransit  >>,
      << StatusDispatched, StatusCancelled  >>,
      << StatusInTransit,  StatusDelivered  >>,
      << StatusInTransit,  StatusCancelled  >> }

\* Mutant: the lookup fails open, a source the table does not list may go
\* anywhere.
ValidateTransitionFailsOpen(from, to) ==
    from \in Statuses => << from, to >> \in AllowedTransitions

ValidateTransition(from, to) == << from, to >> \in AllowedTransitions

=============================================================================
