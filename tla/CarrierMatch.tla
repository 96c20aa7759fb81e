---------------------------- MODULE CarrierMatch ----------------------------
(***************************************************************************)
(* The service: the two handlers that move a shipment through its life     *)
(* (handleDispatch, handleUpdateStatus) and the match workers, all running *)
(* at once over the store and Stripe.                                      *)
(*                                                                         *)
(* net/http runs every request in a goroutine of its own and no lock spans *)
(* two store calls, so a handler is a sequence of atomic steps, one store  *)
(* or Stripe call each, and between two of them anything may happen.  A    *)
(* slot (a Dispatcher, a Patcher, a Worker) is a goroutine: its local      *)
(* variables while it serves a request, idle in between.                   *)
(*                                                                         *)
(* Requests that are refused before they write anything change no state    *)
(* and have no action.  Replies are not kept.                              *)
(***************************************************************************)
EXTENDS Store, Stripe

CONSTANTS
    Dispatchers,      \* slots for POST /shipments/{id}/dispatch
    Patchers,         \* slots for PATCH /shipments/{id}/status
    Workers,          \* goroutines of the match worker pool
    Fits,             \* Fits[s]: carriers whose capacity covers shipment s
    PaymentsEnabled,  \* STRIPE_SECRET_KEY is set
    Faults,           \* what may go wrong: "store", "stripe", "crash"
    Discipline        \* what clients promise about one shipment:
                      \*   "none"      nothing
                      \*   "patches"   one PATCH in flight at a time
                      \*   "requests"  one dispatch, PATCH or match job
                      \*               in flight at a time

ASSUME ServiceConstants ==
    /\ Fits \in [Shipments -> SUBSET Carriers]
    /\ PaymentsEnabled \in BOOLEAN
    /\ Faults \subseteq { "store", "stripe", "crash" }
    /\ Discipline \in { "none", "patches", "requests" }

VARIABLES
    dispatch,         \* locals of each handleDispatch goroutine
    patch,            \* locals of each handleUpdateStatus goroutine
    work              \* locals of each worker goroutine

slotVars == << dispatch, patch, work >>
vars == << carriers, shipments, intents, dispatch, patch, work >>

\* "at" names the call a goroutine makes next.
DispatchSlot ==
    [ at       : { "idle", "book", "authorize", "record" },
      shipment : Shipments \cup { NoShipment },
      carrier  : Carriers \cup { NoCarrier },
      price    : Prices \cup { 0 },
      intent   : Intents \cup { NoIntent } ]

\* carrier and intent are the snapshot's, read before the status is written.
PatchSlot ==
    [ at       : { "idle", "write", "settle", "record", "release" },
      shipment : Shipments \cup { NoShipment },
      target   : NextStatuses \cup { "absent" },
      carrier  : Carriers \cup { NoCarrier },
      intent   : Intents \cup { NoIntent },
      result   : { "", "succeeded", "canceled" } ]

WorkSlot ==
    [ at       : { "idle", "mark", "rank", "conclude" },
      shipment : Shipments \cup { NoShipment },
      verdict  : { "", StatusMatched, StatusNoMatch } ]

IdleDispatch == [ at |-> "idle", shipment |-> NoShipment, carrier |-> NoCarrier,
                  price |-> 0, intent |-> NoIntent ]
IdlePatch    == [ at |-> "idle", shipment |-> NoShipment, target |-> "absent",
                  carrier |-> NoCarrier, intent |-> NoIntent, result |-> "" ]
IdleWork     == [ at |-> "idle", shipment |-> NoShipment, verdict |-> "" ]

\* A busy slot serves a shipment that exists: rows are never deleted.
Serving(slot) == slot.at # "idle" => /\ slot.shipment \in Shipments
                                     /\ ShipmentExists(slot.shipment)

DispatchOK == /\ dispatch \in [Dispatchers -> DispatchSlot]
              /\ \A d \in Dispatchers : /\ Serving(dispatch[d])
                                        /\ dispatch[d].at # "idle" =>
                                               dispatch[d].carrier \in Carriers

PatchOK == /\ patch \in [Patchers -> PatchSlot]
           /\ \A p \in Patchers : /\ Serving(patch[p])
                                  /\ patch[p].at # "idle" =>
                                         patch[p].target \in NextStatuses

WorkOK == /\ work \in [Workers -> WorkSlot]
          /\ \A w \in Workers : /\ Serving(work[w])
                                /\ work[w].at = "conclude" => work[w].verdict # ""

\* Type correctness.  A status reaches the store only if it is one the program
\* knows: PATCH passes the client's string on, and what keeps an arbitrary one
\* out of the status column is validateTransition alone.
TypeOK ==
    /\ StoreTypeOK
    /\ StripeTypeOK
    /\ DispatchOK
    /\ PatchOK
    /\ WorkOK

Init ==
    /\ StoreInit
    /\ StripeInit
    /\ dispatch = [d \in Dispatchers |-> IdleDispatch]
    /\ patch = [p \in Patchers |-> IdlePatch]
    /\ work = [w \in Workers |-> IdleWork]

StoreFails  == "store" \in Faults
StripeFails == "stripe" \in Faults

\* What the clients' discipline leaves open for shipment s.
NoPatchOn(s) == \A p \in Patchers : patch[p].shipment # s
NothingOn(s) == /\ NoPatchOn(s)
                /\ \A d \in Dispatchers : dispatch[d].shipment # s
                /\ \A w \in Workers : work[w].shipment # s

MayRequest(s) == Discipline = "requests" => NothingOn(s)
MayPatch(s)   == MayRequest(s) /\ (Discipline = "patches" => NoPatchOn(s))

-----------------------------------------------------------------------------
(* Creation.  The handlers end with one store call each. *)

CreateCarrier(c) ==
    /\ SaveCarrier(c)
    /\ UNCHANGED << intents, slotVars >>

CreateShipment(s) ==
    /\ SaveShipment(s)
    /\ UNCHANGED << intents, slotVars >>

-----------------------------------------------------------------------------
(* POST /shipments/{id}/dispatch *)

\* GetShipment and validateTransition, on a row that may change before "book".
DispatchRead(d, s, c, price) ==
    /\ dispatch[d].at = "idle"
    /\ MayRequest(s)
    /\ ShipmentExists(s)
    /\ ValidateTransition(shipments[s].status, StatusDispatched)
    /\ dispatch' = [dispatch EXCEPT ![d] =
                      [IdleDispatch EXCEPT !.at = "book", !.shipment = s,
                                           !.carrier = c, !.price = price]]
    /\ UNCHANGED << storeVars, intents, patch, work >>

\* store.Dispatch.  It reads the row back after it has committed and the
\* handler answers 500 when that read fails: booked, and never authorized.
DispatchBook(d) ==
    LET r == dispatch[d] IN
    /\ r.at = "book"
    /\ Dispatch(r.shipment, r.carrier, r.price)
    /\ \/ /\ PaymentsEnabled
          /\ dispatch' = [dispatch EXCEPT ![d] = [r EXCEPT !.at = "authorize"]]
       \/ /\ ~PaymentsEnabled \/ StoreFails
          /\ dispatch' = [dispatch EXCEPT ![d] = IdleDispatch]
    /\ UNCHANGED << intents, patch, work >>

\* 404, 409 or 500: no such carrier, booked already, or the store failed.
DispatchRefused(d) ==
    /\ dispatch[d].at = "book"
    /\ carriers[dispatch[d].carrier] # "available" \/ StoreFails
    /\ dispatch' = [dispatch EXCEPT ![d] = IdleDispatch]
    /\ UNCHANGED << storeVars, intents, patch, work >>

\* The hold is placed.  When Stripe's answer is lost on the way (the client's
\* ten seconds run out, the body cannot be read) the handler sees an error and
\* is done, with the hold in place.
DispatchAuthorize(d) ==
    LET r == dispatch[d] IN
    /\ r.at = "authorize"
    /\ \E i \in Intents :
          /\ AuthorizePayment(i, r.shipment, AmountCents(r.price))
          /\ \/ dispatch' = [dispatch EXCEPT ![d] = [r EXCEPT !.at = "record",
                                                              !.intent = i]]
             \/ /\ StripeFails
                /\ dispatch' = [dispatch EXCEPT ![d] = IdleDispatch]
    /\ UNCHANGED << storeVars, patch, work >>

\* No hold: Stripe is out of reach, or the amount is below what it accepts.
\* (Intents running out is this instance's bound, not Stripe's.)
DispatchUnauthorized(d) ==
    /\ dispatch[d].at = "authorize"
    /\ \/ StripeFails
       \/ AmountCents(dispatch[d].price) < MinCharge
       \/ \A i \in Intents : intents[i].state # "unused"
    /\ dispatch' = [dispatch EXCEPT ![d] = IdleDispatch]
    /\ UNCHANGED << storeVars, intents, patch, work >>

\* UpdateShipmentPayment; its error is ignored.
DispatchRecord(d) ==
    LET r == dispatch[d] IN
    /\ r.at = "record"
    /\ \/ UpdateShipmentPayment(r.shipment, r.intent, "requires_capture")
       \/ StoreFails /\ UNCHANGED storeVars
    /\ dispatch' = [dispatch EXCEPT ![d] = IdleDispatch]
    /\ UNCHANGED << intents, patch, work >>

DispatchContinues(d) ==
    \/ DispatchBook(d)
    \/ DispatchRefused(d)
    \/ DispatchAuthorize(d)
    \/ DispatchUnauthorized(d)
    \/ DispatchRecord(d)

-----------------------------------------------------------------------------
(* PATCH /shipments/{id}/status *)

\* GetShipment and validateTransition.  The client names any status, known to
\* the program or not.
PatchRead(p, s, target) ==
    /\ patch[p].at = "idle"
    /\ MayPatch(s)
    /\ ShipmentExists(s)
    /\ ValidateTransition(shipments[s].status, target)
    /\ patch' = [patch EXCEPT ![p] =
                   [IdlePatch EXCEPT !.at = "write", !.shipment = s,
                                     !.target = target,
                                     !.carrier = shipments[s].carrier,
                                     !.intent = shipments[s].intent]]
    /\ UNCHANGED << storeVars, intents, dispatch, work >>

\* Mutant: every status change lets the carrier go, not a cancellation alone.
AfterSettleFreesAlways(r) ==
    IF r.carrier # NoCarrier THEN [r EXCEPT !.at = "release"] ELSE IdlePatch

\* Mutant: the carrier stays booked, as it did before the fix handlers.go
\* tells of.
AfterSettleKeepsCarrier(r) == IdlePatch

\* What is left to do once payment is settled, decided from the snapshot.
AfterSettle(r) ==
    IF r.target = StatusCancelled /\ r.carrier # NoCarrier
    THEN [r EXCEPT !.at = "release"]
    ELSE IdlePatch

\* Mutant: the switch has no case for a cancellation.
AfterWriteSkipsCancel(r) ==
    IF PaymentsEnabled /\ r.intent # NoIntent /\ r.target = StatusDelivered
    THEN [r EXCEPT !.at = "settle"]
    ELSE AfterSettle(r)

\* Mutant: the switch has no case for a delivery.
AfterWriteSkipsDelivery(r) ==
    IF PaymentsEnabled /\ r.intent # NoIntent /\ r.target = StatusCancelled
    THEN [r EXCEPT !.at = "settle"]
    ELSE AfterSettle(r)

\* What is left to do once the status is written, from the snapshot too.
AfterWrite(r) ==
    IF /\ PaymentsEnabled /\ r.intent # NoIntent
       /\ r.target \in { StatusDelivered, StatusCancelled }
    THEN [r EXCEPT !.at = "settle"]
    ELSE AfterSettle(r)

\* The write is unconditional: the row may have moved on since it was read.
PatchWrite(p) ==
    LET r == patch[p] IN
    /\ r.at = "write"
    /\ \/ /\ UpdateShipmentStatus(r.shipment, r.target)
          /\ patch' = [patch EXCEPT ![p] = AfterWrite(r)]
       \/ /\ StoreFails
          /\ patch' = [patch EXCEPT ![p] = IdlePatch]
          /\ UNCHANGED storeVars
    /\ UNCHANGED << intents, dispatch, work >>

\* Delivery captures the hold, cancellation lets it go.
PatchSettle(p) ==
    LET r == patch[p]
        Answered(result) ==
            \/ patch' = [patch EXCEPT ![p] = [r EXCEPT !.at = "record",
                                                       !.result = result]]
            \/ StripeFails /\ patch' = [patch EXCEPT ![p] = AfterSettle(r)]
    IN
    /\ r.at = "settle"
    /\ \/ /\ r.target = StatusDelivered
          /\ CapturePayment(r.intent)
          /\ Answered("succeeded")
       \/ /\ r.target = StatusCancelled
          /\ CancelPayment(r.intent)
          /\ Answered("canceled")
    /\ UNCHANGED << storeVars, dispatch, work >>

\* Mutant: the error is not looked at and the status asked for is recorded.
PatchUnsettledRecorded(p) ==
    LET r == patch[p] IN
    /\ r.at = "settle"
    /\ StripeFails \/ intents[r.intent].state # "requires_capture"
    /\ patch' = [patch EXCEPT ![p] =
                   [r EXCEPT !.at = "record",
                             !.result = IF r.target = StatusDelivered
                                        THEN "succeeded" ELSE "canceled"]]
    /\ UNCHANGED << storeVars, intents, dispatch, work >>

\* Stripe is out of reach, or the hold is closed already: logged, no more.
PatchUnsettled(p) ==
    LET r == patch[p] IN
    /\ r.at = "settle"
    /\ StripeFails \/ intents[r.intent].state # "requires_capture"
    /\ patch' = [patch EXCEPT ![p] = AfterSettle(r)]
    /\ UNCHANGED << storeVars, intents, dispatch, work >>

PatchRecord(p) ==
    LET r == patch[p] IN
    /\ r.at = "record"
    /\ \/ UpdateShipmentPayment(r.shipment, r.intent, r.result)
       \/ StoreFails /\ UNCHANGED storeVars
    /\ patch' = [patch EXCEPT ![p] = AfterSettle(r)]
    /\ UNCHANGED << intents, dispatch, work >>

\* ReleaseCarrier of the snapshot's carrier; its error is logged, no more.
PatchRelease(p) ==
    /\ patch[p].at = "release"
    /\ \/ ReleaseCarrier(patch[p].carrier)
       \/ StoreFails /\ UNCHANGED storeVars
    /\ patch' = [patch EXCEPT ![p] = IdlePatch]
    /\ UNCHANGED << intents, dispatch, work >>

PatchContinues(p) ==
    \/ PatchWrite(p)
    \/ PatchSettle(p)
    \/ PatchUnsettled(p)
    \/ PatchRecord(p)
    \/ PatchRelease(p)

-----------------------------------------------------------------------------
(* GET /shipments/{id}/matches, as run by a worker.  A job waits in the      *)
(* channel without effect, so it starts here when a worker takes it up; any  *)
(* shipment may be asked for, whatever its status.                           *)

WorkerTake(w, s) ==
    /\ work[w].at = "idle"
    /\ MayRequest(s)
    /\ ShipmentExists(s)
    /\ work' = [work EXCEPT ![w] = [IdleWork EXCEPT !.at = "mark", !.shipment = s]]
    /\ UNCHANGED << storeVars, intents, dispatch, patch >>

\* No validateTransition here, nor below, and errors are ignored.
WorkerMark(w) ==
    LET r == work[w] IN
    /\ r.at = "mark"
    /\ \/ UpdateShipmentStatus(r.shipment, StatusMatching)
       \/ StoreFails /\ UNCHANGED storeVars
    /\ work' = [work EXCEPT ![w] = [r EXCEPT !.at = "rank"]]
    /\ UNCHANGED << intents, dispatch, patch >>

\* Mutant: a job that finds nobody gives up without a verdict.
WorkerRankGivesUp(w) ==
    /\ work[w].at = "rank"
    /\ work' = [work EXCEPT ![w] =
                  IF \A c \in Fits[@.shipment] : carriers[c] # "available"
                  THEN IdleWork
                  ELSE [@ EXCEPT !.at = "conclude", !.verdict = StatusMatched]]
    /\ UNCHANGED << storeVars, intents, dispatch, patch >>

\* RankCarriers puts feasible carriers first, so the first is feasible when any
\* is.  A failing ListCarriers looks like an empty fleet.
WorkerRank(w) ==
    LET r == work[w]
        feasible == { c \in Fits[r.shipment] : carriers[c] = "available" }
    IN
    /\ r.at = "rank"
    /\ \E verdict \in { StatusMatched, StatusNoMatch } :
          /\ verdict = StatusMatched => feasible # {}
          /\ verdict = StatusNoMatch => feasible = {} \/ StoreFails
          /\ work' = [work EXCEPT ![w] = [r EXCEPT !.at = "conclude",
                                                   !.verdict = verdict]]
    /\ UNCHANGED << storeVars, intents, dispatch, patch >>

WorkerConclude(w) ==
    /\ work[w].at = "conclude"
    /\ \/ UpdateShipmentStatus(work[w].shipment, work[w].verdict)
       \/ StoreFails /\ UNCHANGED storeVars
    /\ work' = [work EXCEPT ![w] = IdleWork]
    /\ UNCHANGED << intents, dispatch, patch >>

WorkerContinues(w) == WorkerMark(w) \/ WorkerRank(w) \/ WorkerConclude(w)

-----------------------------------------------------------------------------

\* The process dies and is started again.  Handlers are gone and nothing
\* resumes them; the database file and Stripe are as they were.
Crash ==
    /\ "crash" \in Faults
    /\ \E s \in Shipments : ~NothingOn(s)
    /\ dispatch' = [d \in Dispatchers |-> IdleDispatch]
    /\ patch' = [p \in Patchers |-> IdlePatch]
    /\ work' = [w \in Workers |-> IdleWork]
    /\ UNCHANGED << storeVars, intents >>

\* Statuses a client may ask for: the known ones and some other string.
ClientStatuses == RowStatuses \cup { "unknown" }

Next ==
    \/ \E c \in Carriers : CreateCarrier(c)
    \/ \E s \in Shipments : CreateShipment(s)
    \/ \E d \in Dispatchers, s \in Shipments, c \in Carriers, price \in Prices :
          DispatchRead(d, s, c, price)
    \/ \E d \in Dispatchers : DispatchContinues(d)
    \/ \E p \in Patchers, s \in Shipments, target \in ClientStatuses :
          PatchRead(p, s, target)
    \/ \E p \in Patchers : PatchContinues(p)
    \/ \E w \in Workers, s \in Shipments : WorkerTake(w, s)
    \/ \E w \in Workers : WorkerContinues(w)
    \/ Crash

Spec == Init /\ [][Next]_vars

\* A goroutine that has started keeps running.  Nobody has to send a request.
Fairness ==
    /\ \A d \in Dispatchers : WF_vars(DispatchContinues(d))
    /\ \A p \in Patchers : WF_vars(PatchContinues(p))
    /\ \A w \in Workers : WF_vars(WorkerContinues(w))

FairSpec == Spec /\ Fairness

-----------------------------------------------------------------------------
(* Safety *)

\* Shipment s is on the road with carrier c.
OnTheRoad(s, c) == /\ shipments[s].status \in ActiveStatuses
                   /\ shipments[s].carrier = c

\* A carrier on the road for one shipment is marked booked and is on the road
\* for no other (handlers.go:220, "no double-booking").  The
\* conditional update in Dispatch keeps two dispatches apart; what could still
\* break it is ReleaseCarrier, called at the end of a cancellation with a
\* carrier read at its beginning.
NoDoubleBooking ==
    \A s \in Shipments, c \in Carriers : OnTheRoad(s, c) =>
        /\ carriers[c] = "booked"
        /\ \A t \in Shipments \ { s } : ~OnTheRoad(t, c)

\* What a cancellation in flight adds: shipment s has a claim on carrier c while
\* it is on the road with it, while a PATCH that has passed its check is about
\* to put it (back) on the road, and until a cancellation that has read c as the
\* carrier of s is done with it.
Claims(s, c) ==
    \/ OnTheRoad(s, c)
    \/ \E p \in Patchers :
          /\ patch[p].shipment = s
          /\ \/ /\ patch[p].at = "write" /\ patch[p].target \in ActiveStatuses
                /\ shipments[s].carrier = c
             \/ /\ patch[p].at # "idle" /\ patch[p].target = StatusCancelled
                /\ patch[p].carrier = c

PendingUnassigned == \A s \in Shipments :
    shipments[s].status \in { "absent", StatusPending } =>
        shipments[s].carrier = NoCarrier

OnePatchEach == \A p, q \in Patchers :
    patch[p].at # "idle" /\ patch[q].shipment = patch[p].shipment => p = q

ClaimsExclusive == \A s \in Shipments, c \in Carriers : Claims(s, c) =>
    /\ carriers[c] = "booked"
    /\ \A t \in Shipments \ { s } : ~Claims(t, c)

CancelledOffRoad == \A p \in Patchers :
    /\ patch[p].at \in { "settle", "record", "release" }
            /\ patch[p].target = StatusCancelled =>
          ~OnTheRoad(patch[p].shipment, patch[p].carrier)
    /\ patch[p].at = "release" => patch[p].target = StatusCancelled

\* Why NoDoubleBooking holds when no two PATCH requests on one shipment overlap:
\* a claim keeps its carrier booked and is the only one on it, from the booking
\* to the last step of the cancellation that releases it, whatever the match
\* workers and other dispatches write meanwhile.
BookingInv ==
    /\ PendingUnassigned
    /\ OnePatchEach
    /\ ClaimsExclusive
    /\ CancelledOffRoad

\* Stripe created intent i for shipment s.
Backs(i, s) == /\ i \in Intents
               /\ intents[i].shipment = s
               /\ intents[i].state # "unused"

\* The payment columns never claim what Stripe does not back: the intent on a
\* row was created for that shipment, a row that says "succeeded" or "canceled"
\* has an intent Stripe holds to be just that, and a row has a payment status
\* exactly when it has an intent.  The columns are written after the call to
\* Stripe, by handlers that may have been overtaken meanwhile (handlers.go:279).
LedgerTruthful ==
    \A s \in Shipments :
        LET row == shipments[s] IN
        /\ row.intent = NoIntent <=> row.paid = ""
        /\ row.intent # NoIntent => Backs(row.intent, s)
        /\ row.paid \in { "succeeded", "canceled" } =>
              intents[row.intent].state = row.paid

DispatchBacked(r) == r.at = "record" => Backs(r.intent, r.shipment)

PatchBacked(r) ==
    /\ r.intent # NoIntent => Backs(r.intent, r.shipment)
    /\ r.at \in { "settle", "record" } => r.intent # NoIntent
    /\ r.at = "record" => /\ r.result \in { "succeeded", "canceled" }
                          /\ intents[r.intent].state = r.result

\* Why LedgerTruthful holds: the intent a handler carries from its read to its
\* write stays the shipment's own, and what it is about to record is final.
LedgerInv ==
    /\ LedgerTruthful
    /\ \A d \in Dispatchers : DispatchBacked(dispatch[d])
    /\ \A p \in Patchers : PatchBacked(patch[p])

\* The hold recorded on a row is for the price agreed on that row, to the cent.
HoldMatchesPrice ==
    \A s \in Shipments :
        LET row == shipments[s]
            off == 10 * intents[row.intent].amount - row.price
        IN row.intent # NoIntent => off \in -5 .. 5

\* A load is held for once, and the money goes where the load has gone: the hold
\* stays open while the load is on its way, that of a delivered load is not let
\* go and that of a cancelled one is not charged (README.md:388-394).  The status
\* is written first and Stripe called after it, from what was read before both.
MoneyFollowsLoad ==
    \A i \in Intents : intents[i].state # "unused" =>
        LET s == intents[i].shipment
            ruledOut == CASE shipments[s].status \in ActiveStatuses ->
                                { "succeeded", "canceled" }
                          [] shipments[s].status = StatusDelivered -> { "canceled" }
                          [] shipments[s].status = StatusCancelled -> { "succeeded" }
                          [] OTHER -> { }
        IN /\ shipments[s].status \notin { "absent", StatusPending }
           /\ intents[i].state \notin ruledOut
           /\ \A j \in Intents : intents[j].shipment = s => j = i

\* What a match job writes, without asking the table (worker.go:47 and 52-56).
Verdicts == { StatusMatching, StatusMatched, StatusNoMatch }

\* A shipment that has left "pending" with no carrier, and with no dispatch
\* past its status check, can never be given one.
Stranded(s) ==
    /\ shipments[s].status \notin { "absent", StatusPending }
    /\ shipments[s].carrier = NoCarrier
    /\ \A d \in Dispatchers : dispatch[d].shipment # s

\* Whatever is asked for afterwards, a stranded shipment stays stranded: the
\* status table has no way back to "pending" and Dispatch is reached through
\* the table only (statemachine.go:36-38, "fails closed, not open").
StrandedForGood == [][\A s \in Shipments : Stranded(s) => Stranded(s)']_vars

-----------------------------------------------------------------------------
(* The service implements Lifecycle, when clients have one request in flight *)
(* per shipment.                                                             *)

\* The hold of a shipment is what Stripe has for it; a lost answer leaves it
\* out of the row.
HoldOf(s) ==
    LET states == { intents[i].state : i \in { j \in Intents :
                                                 intents[j].shipment = s } }
    IN  CASE "succeeded" \in states        -> "captured"
          [] "requires_capture" \in states -> "held"
          [] "canceled" \in states         -> "released"
          [] OTHER                         -> "none"

Abstract == INSTANCE Lifecycle WITH
    status   <- [s \in Shipments |-> shipments[s].status],
    assigned <- [s \in Shipments |-> shipments[s].carrier],
    fleet    <- carriers,
    hold     <- [s \in Shipments |-> HoldOf(s)]

\* Every step of every handler, faults and crashes included, is one event of
\* Lifecycle or none: nobody is charged for a load that is not delivered, no
\* load is held for twice, a carrier is let go only when no other load has it.
ImplementsLifecycle == Abstract!Spec

-----------------------------------------------------------------------------
(* Liveness, where nothing fails *)

\* A load delivered by a carrier is paid for (handlers.go:274-276).
DeliveredIsCharged ==
    \A s \in Shipments :
        (shipments[s].status = StatusDelivered /\ shipments[s].carrier # NoCarrier)
            ~> (\E i \in Intents : intents[i].shipment = s
                                   /\ intents[i].state = "succeeded")

\* The hold of a cancelled load is let go (README.md:393-394).
CancelledIsReleased ==
    \A s \in Shipments, i \in Intents :
        (shipments[s].status = StatusCancelled /\ intents[i].shipment = s)
            ~> intents[i].state = "canceled"

\* A carrier whose loads have all been cancelled does not stay booked
\* (handlers.go:297-300).
CancelledFreesCarrier ==
    \A c \in Carriers :
        LET Idling == /\ carriers[c] = "booked"
                      /\ \A s \in Shipments : shipments[s].carrier = c =>
                             shipments[s].status = StatusCancelled
        IN Idling ~> ~Idling

\* No shipment is left at "matching", from where nothing but the verdict of a
\* match job leads on (worker.go:47-56).
MatchingEnds ==
    \A s \in Shipments :
        shipments[s].status = StatusMatching ~> shipments[s].status # StatusMatching

-----------------------------------------------------------------------------
(* What the liveness properties come to at any one moment: whatever has not  *)
(* happened yet, somebody is still at it.                                    *)

\* When no request for a shipment is in flight nothing is left to be settled: the
\* row names the hold and says of it what Stripe says, a delivered load has been
\* paid for and the hold of a cancelled one let go (handlers.go:274-294).
SettledAtRest ==
    \A s \in Shipments, i \in Intents :
        NothingOn(s) /\ intents[i].shipment = s =>
            /\ shipments[s].intent = i
            /\ shipments[s].paid = intents[i].state
            /\ shipments[s].status = StatusDelivered => intents[i].state = "succeeded"
            /\ shipments[s].status = StatusCancelled => intents[i].state = "canceled"

\* A booked carrier has a load that is not cancelled, or one whose cancellation
\* is still to come to the release (handlers.go:297-306).
BookedHasLoad ==
    \A c \in Carriers : carriers[c] = "booked" =>
        \E s \in Shipments :
            /\ shipments[s].carrier = c
            /\ \/ shipments[s].status # StatusCancelled
               \/ \E p \in Patchers : /\ patch[p].shipment = s
                                      /\ patch[p].at \in { "settle", "record", "release" }

\* A shipment is at "matching" only while a job that will write its verdict is
\* running, however many jobs there are for it (worker.go:47-56).
MatchingHasJob ==
    \A s \in Shipments : shipments[s].status = StatusMatching =>
        \E w \in Workers : /\ work[w].shipment = s
                           /\ work[w].at \in { "rank", "conclude" }

-----------------------------------------------------------------------------
(* Statements of the repository that the program does not live up to *)

\* README.md:13-18: "You ask for matches", then "you dispatch the shipment to a
\* specific carrier": a shipment whose match job found a carrier can be
\* dispatched.
MatchedIsDispatchable ==
    \A s \in Shipments : shipments[s].status = StatusMatched =>
        ValidateTransition(shipments[s].status, StatusDispatched)

\* models.go:21: is_available is "false once booked on an active shipment".  When
\* no request is in flight a booked carrier is on an active shipment, also when
\* two dispatches have raced for that shipment.
BookedOnlyWhileActive ==
    (\A s \in Shipments : NothingOn(s)) =>
        \A c \in Carriers : carriers[c] = "booked" =>
            \E s \in Shipments : OnTheRoad(s, c)

\* README.md:393: "Cancelled (after being dispatched) -> CancelPayment()
\* releases the hold".  No cancelled shipment is left with an open hold when no
\* request is in flight that could still release it.
CancelledHoldReleased ==
    \A s \in Shipments :
        NothingOn(s) /\ shipments[s].status = StatusCancelled =>
            \A i \in Intents : intents[i].shipment = s =>
                intents[i].state # "requires_capture"

\* models.go:26-29: "once dispatched, a specific assigned carrier and an agreed
\* price, not just a status string with nothing backing it".
DispatchedHasCarrier ==
    \A s \in Shipments :
        shipments[s].status \in ActiveStatuses \cup { StatusDelivered } =>
            shipments[s].carrier # NoCarrier

=============================================================================
