------------------------- MODULE CarrierMatchTypes --------------------------
(***************************************************************************)
(* Type correctness of CarrierMatch, for every set of carriers, shipments, *)
(* intents and slots, every price, every fault and every discipline, and   *)
(* the lemmas about the store's methods that its other proofs build on.    *)
(***************************************************************************)
EXTENDS CarrierMatch, TLAPS

-----------------------------------------------------------------------------
(* Type correctness.  A step is typed when the store stays typed, no row     *)
(* disappears under a busy slot, and the slot that moved is typed.           *)

\* Rows that exist go on existing.
RowsKept == \A s \in Shipments : ShipmentExists(s) => ShipmentExists(s)'

\* What every method of the store guarantees.
StoreKept == StoreTypeOK' /\ RowsKept

\* The statuses the program writes are statuses a row may hold.
LEMMA KnownStatuses ==
    /\ { StatusPending, StatusDispatched, StatusMatching, StatusMatched,
         StatusNoMatch } \subseteq RowStatuses
    /\ NextStatuses \subseteq RowStatuses
    /\ "absent" \notin RowStatuses
  BY DEF RowStatuses, NextStatuses, Statuses, StatusPending, StatusDispatched, StatusInTransit,
         StatusDelivered, StatusCancelled, StatusNoMatch, StatusMatching,
         StatusMatched

\* A store that is left alone stays typed.
LEMMA StoreUnchanged ==
  ASSUME StoreTypeOK, UNCHANGED storeVars
  PROVE  StoreKept
  BY DEF StoreTypeOK, storeVars, StoreKept, RowsKept, ShipmentExists

\* Each writing method keeps the store typed.
LEMMA SaveCarrierKept ==
  ASSUME StoreTypeOK, NEW c \in Carriers, SaveCarrier(c)
  PROVE  StoreKept
  BY DEF StoreTypeOK, SaveCarrier, StoreKept, RowsKept, ShipmentExists

LEMMA SaveShipmentKept ==
  ASSUME StoreTypeOK, NEW s \in Shipments, SaveShipment(s)
  PROVE  StoreKept
  <1> DEFINE row == [NoRow EXCEPT !.status = StatusPending]
  <1>1. row \in ShipmentRow /\ row.status # "absent"
    BY KnownStatuses DEF NoRow, ShipmentRow, PaymentStatuses
  <1>2. shipments' = [shipments EXCEPT ![s] = row] /\ UNCHANGED carriers
    BY DEF SaveShipment
  <1> QED
    BY <1>1, <1>2 DEF StoreTypeOK, StoreKept, RowsKept, ShipmentExists

LEMMA UpdateShipmentStatusKept ==
  ASSUME StoreTypeOK, NEW s \in Shipments, NEW status \in RowStatuses,
         UpdateShipmentStatus(s, status)
  PROVE  StoreKept
  <1> DEFINE row == [shipments[s] EXCEPT !.status = status]
  <1>1. shipments[s] \in ShipmentRow
    BY DEF StoreTypeOK
  <1>2. row \in ShipmentRow /\ row.status # "absent"
    BY <1>1, KnownStatuses DEF ShipmentRow
  <1>3. shipments' = [shipments EXCEPT ![s] = row] /\ UNCHANGED carriers
    BY DEF UpdateShipmentStatus
  <1> QED
    BY <1>2, <1>3 DEF StoreTypeOK, StoreKept, RowsKept, ShipmentExists

LEMMA DispatchKept ==
  ASSUME StoreTypeOK, NEW s \in Shipments, NEW c \in Carriers \cup { NoCarrier },
         NEW price \in Prices \cup { 0 }, Dispatch(s, c, price)
  PROVE  StoreKept
  <1> DEFINE row == [shipments[s] EXCEPT !.carrier = c, !.price = price,
                                         !.status = StatusDispatched]
  <1>1. shipments[s] \in ShipmentRow
    BY DEF StoreTypeOK
  <1>2. row \in ShipmentRow /\ row.status # "absent"
    BY <1>1, KnownStatuses DEF ShipmentRow
  <1>3. shipments' = [shipments EXCEPT ![s] = row]
    BY DEF Dispatch
  <1>4. carriers' \in [Carriers -> { "absent", "available", "booked" }]
    BY DEF StoreTypeOK, Dispatch
  <1> QED
    BY <1>2, <1>3, <1>4 DEF StoreTypeOK, StoreKept, RowsKept, ShipmentExists

LEMMA UpdateShipmentPaymentKept ==
  ASSUME StoreTypeOK, NEW s \in Shipments, NEW intent \in Intents \cup { NoIntent },
         NEW paid \in PaymentStatuses, UpdateShipmentPayment(s, intent, paid)
  PROVE  StoreKept
  <1> DEFINE row == [shipments[s] EXCEPT !.intent = intent, !.paid = paid]
  <1>1. shipments[s] \in ShipmentRow
    BY DEF StoreTypeOK
  <1>2. row \in ShipmentRow /\ row.status = shipments[s].status
    BY <1>1 DEF ShipmentRow
  <1>3. shipments' = [shipments EXCEPT ![s] = row] /\ UNCHANGED carriers
    BY DEF UpdateShipmentPayment
  <1> QED
    BY <1>2, <1>3 DEF StoreTypeOK, StoreKept, RowsKept, ShipmentExists

LEMMA ReleaseCarrierKept ==
  ASSUME StoreTypeOK, NEW c, ReleaseCarrier(c)
  PROVE  StoreKept
  BY DEF StoreTypeOK, ReleaseCarrier, StoreKept, RowsKept, ShipmentExists


\* A slot that is left alone, or takes a typed value, stays typed while no row
\* disappears.
LEMMA DispatchUnchanged ==
  ASSUME DispatchOK, RowsKept, UNCHANGED dispatch
  PROVE  DispatchOK'
  BY DEF DispatchOK, RowsKept, Serving, ShipmentExists

LEMMA DispatchMoved ==
  ASSUME DispatchOK, RowsKept, NEW d \in Dispatchers, NEW r \in DispatchSlot,
         Serving(r), r.at # "idle" => r.carrier \in Carriers,
         dispatch' = [dispatch EXCEPT ![d] = r]
  PROVE  DispatchOK'
  BY DEF DispatchOK, RowsKept, Serving, ShipmentExists

LEMMA PatchUnchanged ==
  ASSUME PatchOK, RowsKept, UNCHANGED patch
  PROVE  PatchOK'
  BY DEF PatchOK, RowsKept, Serving, ShipmentExists

LEMMA PatchMoved ==
  ASSUME PatchOK, RowsKept, NEW p \in Patchers, NEW r \in PatchSlot,
         Serving(r), r.at # "idle" => r.target \in NextStatuses,
         patch' = [patch EXCEPT ![p] = r]
  PROVE  PatchOK'
  BY DEF PatchOK, RowsKept, Serving, ShipmentExists

LEMMA WorkUnchanged ==
  ASSUME WorkOK, RowsKept, UNCHANGED work
  PROVE  WorkOK'
  BY DEF WorkOK, RowsKept, Serving, ShipmentExists

LEMMA WorkMoved ==
  ASSUME WorkOK, RowsKept, NEW w \in Workers, NEW r \in WorkSlot,
         Serving(r), r.at = "conclude" => r.verdict # "",
         work' = [work EXCEPT ![w] = r]
  PROVE  WorkOK'
  BY DEF WorkOK, RowsKept, Serving, ShipmentExists

\* The idle slots are typed and serve nothing.
LEMMA IdleSlots ==
    /\ IdleDispatch \in DispatchSlot /\ IdleDispatch.at = "idle" /\ Serving(IdleDispatch)
    /\ IdlePatch \in PatchSlot /\ IdlePatch.at = "idle" /\ Serving(IdlePatch)
    /\ IdleWork \in WorkSlot /\ IdleWork.at = "idle" /\ Serving(IdleWork)
  BY DEF IdleDispatch, IdlePatch, IdleWork, DispatchSlot, PatchSlot, WorkSlot,
         Serving

\* What a handler has left to do is a typed slot for the same shipment, or none.
LEMMA AfterSettleTyped ==
  ASSUME NEW r \in PatchSlot, Serving(r), r.at # "idle", r.target \in NextStatuses
  PROVE  /\ AfterSettle(r) \in PatchSlot
         /\ Serving(AfterSettle(r))
         /\ AfterSettle(r).at # "idle" => AfterSettle(r).target \in NextStatuses
  <1>1. CASE r.target = StatusCancelled /\ r.carrier # NoCarrier
    <2>1. AfterSettle(r) = [r EXCEPT !.at = "release"]
      BY <1>1 DEF AfterSettle
    <2> QED
      BY <2>1 DEF PatchSlot, Serving
  <1>2. CASE ~(r.target = StatusCancelled /\ r.carrier # NoCarrier)
    BY <1>2, IdleSlots DEF AfterSettle
  <1> QED
    BY <1>1, <1>2

LEMMA AfterWriteTyped ==
  ASSUME NEW r \in PatchSlot, Serving(r), r.at # "idle", r.target \in NextStatuses
  PROVE  /\ AfterWrite(r) \in PatchSlot
         /\ Serving(AfterWrite(r))
         /\ AfterWrite(r).at # "idle" => AfterWrite(r).target \in NextStatuses
  <1> DEFINE settles == /\ PaymentsEnabled /\ r.intent # NoIntent
                        /\ r.target \in { StatusDelivered, StatusCancelled }
  <1>1. CASE settles
    <2>1. AfterWrite(r) = [r EXCEPT !.at = "settle"]
      BY <1>1 DEF AfterWrite
    <2> QED
      BY <2>1 DEF PatchSlot, Serving
  <1>2. CASE ~settles
    <2>1. AfterWrite(r) = AfterSettle(r)
      BY <1>2 DEF AfterWrite
    <2> QED
      BY <2>1, AfterSettleTyped
  <1> QED
    BY <1>1, <1>2

\* The conversion to cents is off by half a cent at most, for any price.
LEMMA AmountCentsRounds ==
  ASSUME NEW price \in Int
  PROVE  AmountCents(price) \in Int /\ 10 * AmountCents(price) - price \in -5 .. 5
  <1>1. CASE price >= 0
    BY <1>1 DEF AmountCents
  <1>2. CASE ~(price >= 0)
    BY <1>2 DEF AmountCents
  <1> QED
    BY <1>1, <1>2

\* Stripe's own record stays typed when an intent takes a typed value.
LEMMA IntentMoved ==
  ASSUME StripeTypeOK, NEW i, NEW state \in IntentStates,
         intents' = [intents EXCEPT ![i].state = state]
  PROVE  StripeTypeOK'
  BY DEF StripeTypeOK

-----------------------------------------------------------------------------

LEMMA TypeInit == Init => TypeOK
  <1> SUFFICES ASSUME Init PROVE TypeOK
    OBVIOUS
  <1>1. StoreTypeOK
    BY DEF Init, StoreInit, StoreTypeOK, NoRow, ShipmentRow, PaymentStatuses
  <1>2. StripeTypeOK
    BY DEF Init, StripeInit, StripeTypeOK, IntentStates
  <1>3. DispatchOK /\ PatchOK /\ WorkOK
    BY IdleSlots DEF Init, DispatchOK, PatchOK, WorkOK
  <1> QED
    BY <1>1, <1>2, <1>3 DEF TypeOK


\* Every step keeps the types, one lemma per kind of goroutine.
LEMMA TypeDispatch ==
  ASSUME TypeOK, NEW d \in Dispatchers, DispatchContinues(d)
  PROVE  TypeOK'
  <1> DEFINE r == dispatch[d]
  <1>1. /\ r \in DispatchSlot /\ Serving(r)
        /\ r.at # "idle" => r.carrier \in Carriers
    BY DEF TypeOK, DispatchOK
  <1>2. IdleDispatch \in DispatchSlot /\ IdleDispatch.at = "idle" /\ Serving(IdleDispatch)
    BY IdleSlots
  <1> SUFFICES ASSUME r.at # "idle" => r.shipment \in Shipments PROVE TypeOK'
    BY <1>1 DEF Serving
  <1>3. CASE DispatchBook(d)
    <2>1. StoreKept
      BY <1>1, <1>3, DispatchKept DEF DispatchBook, DispatchSlot, TypeOK
    <2>2. DispatchOK'
      <3>1. [r EXCEPT !.at = "authorize"] \in DispatchSlot
            /\ Serving([r EXCEPT !.at = "authorize"])
            /\ [r EXCEPT !.at = "authorize"].carrier \in Carriers
        BY <1>1, <1>3 DEF DispatchBook, DispatchSlot, Serving
      <3> QED
        BY <1>2, <1>3, <2>1, <3>1, DispatchMoved
        DEF DispatchBook, StoreKept, TypeOK
    <2>3. PatchOK' /\ WorkOK' /\ StripeTypeOK'
      BY <1>3, <2>1, PatchUnchanged, WorkUnchanged
      DEF DispatchBook, StoreKept, TypeOK, StripeTypeOK
    <2> QED
      BY <2>1, <2>2, <2>3 DEF TypeOK, StoreKept
  <1>4. CASE DispatchRefused(d) \/ DispatchUnauthorized(d)
    <2>1. StoreKept
      BY <1>4, StoreUnchanged DEF DispatchRefused, DispatchUnauthorized, TypeOK
    <2>2. DispatchOK' /\ PatchOK' /\ WorkOK' /\ StripeTypeOK'
      BY <1>2, <1>4, <2>1, DispatchMoved, PatchUnchanged, WorkUnchanged
      DEF DispatchRefused, DispatchUnauthorized, StoreKept, TypeOK, StripeTypeOK
    <2> QED
      BY <2>1, <2>2 DEF TypeOK, StoreKept
  <1>5. CASE DispatchAuthorize(d)
    <2>1. StoreKept
      BY <1>5, StoreUnchanged DEF DispatchAuthorize, TypeOK
    <2>2. PICK i \in Intents :
             /\ AuthorizePayment(i, r.shipment, AmountCents(r.price))
             /\ \/ dispatch' = [dispatch EXCEPT ![d] =
                                  [r EXCEPT !.at = "record", !.intent = i]]
                \/ dispatch' = [dispatch EXCEPT ![d] = IdleDispatch]
      BY <1>5 DEF DispatchAuthorize
    <2>3. StripeTypeOK'
      <3>1. AmountCents(r.price) \in Int
        <4>1. r.price \in Prices \cup { 0 }
          BY <1>1 DEF DispatchSlot
        <4>2. Prices \cup { 0 } \subseteq Int
          BY PricesAreAmounts
        <4> QED
          BY <4>1, <4>2, AmountCentsRounds
      <3>2. [state |-> "requires_capture", shipment |-> r.shipment,
             amount |-> AmountCents(r.price)]
              \in [state : IntentStates, shipment : Shipments \cup { NoShipment },
                   amount : Int]
        BY <1>1, <3>1 DEF DispatchSlot, IntentStates
      <3> QED
        BY <2>2, <3>2 DEF AuthorizePayment, StripeTypeOK, TypeOK
    <2>4. DispatchOK'
      <3>1. [r EXCEPT !.at = "record", !.intent = i] \in DispatchSlot
            /\ Serving([r EXCEPT !.at = "record", !.intent = i])
            /\ [r EXCEPT !.at = "record", !.intent = i].carrier \in Carriers
        BY <1>1, <1>5 DEF DispatchAuthorize, DispatchSlot, Serving
      <3> QED
        BY <1>2, <2>1, <2>2, <3>1, DispatchMoved DEF StoreKept, TypeOK
    <2>5. PatchOK' /\ WorkOK'
      BY <1>5, <2>1, PatchUnchanged, WorkUnchanged
      DEF DispatchAuthorize, StoreKept, TypeOK
    <2> QED
      BY <2>1, <2>3, <2>4, <2>5 DEF TypeOK, StoreKept
  <1>6. CASE DispatchRecord(d)
    <2>1. StoreKept
      BY <1>1, <1>6, StoreUnchanged, UpdateShipmentPaymentKept
      DEF DispatchRecord, DispatchSlot, PaymentStatuses, TypeOK
    <2>2. DispatchOK' /\ PatchOK' /\ WorkOK' /\ StripeTypeOK'
      BY <1>2, <1>6, <2>1, DispatchMoved, PatchUnchanged, WorkUnchanged
      DEF DispatchRecord, StoreKept, TypeOK, StripeTypeOK
    <2> QED
      BY <2>1, <2>2 DEF TypeOK, StoreKept
  <1> QED
    BY <1>3, <1>4, <1>5, <1>6 DEF DispatchContinues

LEMMA TypePatch ==
  ASSUME TypeOK, NEW p \in Patchers, PatchContinues(p)
  PROVE  TypeOK'
  <1> DEFINE r == patch[p]
  <1>1. r \in PatchSlot /\ Serving(r) /\ (r.at # "idle" => r.target \in NextStatuses)
    BY DEF TypeOK, PatchOK
  <1>2. r.at # "idle"
    BY DEF PatchContinues, PatchWrite, PatchSettle, PatchUnsettled, PatchRecord,
           PatchRelease
  <1>3. r.shipment \in Shipments /\ r.target \in NextStatuses
    BY <1>1, <1>2 DEF Serving
  <1>4. \A next \in { IdlePatch, AfterSettle(r), AfterWrite(r) } :
           /\ next \in PatchSlot /\ Serving(next)
           /\ next.at # "idle" => next.target \in NextStatuses
    BY <1>1, <1>2, <1>3, IdleSlots, AfterSettleTyped, AfterWriteTyped
  <1>5. CASE PatchWrite(p)
    <2>1. StoreKept
      BY <1>3, <1>5, KnownStatuses, StoreUnchanged, UpdateShipmentStatusKept
      DEF PatchWrite, TypeOK
    <2>2. PatchOK'
      BY <1>4, <1>5, <2>1, PatchMoved DEF PatchWrite, StoreKept, TypeOK
    <2>3. DispatchOK' /\ WorkOK' /\ StripeTypeOK'
      BY <1>5, <2>1, DispatchUnchanged, WorkUnchanged
      DEF PatchWrite, StoreKept, TypeOK, StripeTypeOK
    <2> QED
      BY <2>1, <2>2, <2>3 DEF TypeOK, StoreKept
  <1>6. CASE PatchSettle(p)
    <2>1. StoreKept
      BY <1>6, StoreUnchanged DEF PatchSettle, TypeOK
    <2>2. StripeTypeOK'
      BY <1>6, IntentMoved
      DEF PatchSettle, CapturePayment, CancelPayment, IntentStates, TypeOK
    <2>3. \A result \in { "succeeded", "canceled" } :
             LET next == [r EXCEPT !.at = "record", !.result = result]
             IN  /\ next \in PatchSlot /\ Serving(next)
                 /\ next.target \in NextStatuses
      BY <1>1, <1>2, <1>3 DEF PatchSlot, Serving
    <2>4. PatchOK'
      <3>1. CASE patch' = [patch EXCEPT ![p] = AfterSettle(r)]
        BY <1>4, <2>1, <3>1, PatchMoved DEF StoreKept, TypeOK
      <3>2. CASE \E result \in { "succeeded", "canceled" } :
                   patch' = [patch EXCEPT ![p] =
                               [r EXCEPT !.at = "record", !.result = result]]
        BY <2>1, <2>3, <3>2, PatchMoved DEF StoreKept, TypeOK
      <3> QED
        BY <1>6, <3>1, <3>2 DEF PatchSettle
    <2>5. DispatchOK' /\ WorkOK'
      BY <1>6, <2>1, DispatchUnchanged, WorkUnchanged
      DEF PatchSettle, StoreKept, TypeOK
    <2> QED
      BY <2>1, <2>2, <2>4, <2>5 DEF TypeOK, StoreKept
  <1>7. CASE PatchUnsettled(p) \/ PatchRecord(p) \/ PatchRelease(p)
    <2>1. StoreKept
      <3>1. r.intent \in Intents \cup { NoIntent } /\ r.result \in PaymentStatuses
        BY <1>1 DEF PatchSlot, PaymentStatuses
      <3> QED
        BY <1>3, <1>7, <3>1, StoreUnchanged, UpdateShipmentPaymentKept,
           ReleaseCarrierKept
        DEF PatchUnsettled, PatchRecord, PatchRelease, TypeOK
    <2>2. PatchOK'
      BY <1>4, <1>7, <2>1, PatchMoved
      DEF PatchUnsettled, PatchRecord, PatchRelease, StoreKept, TypeOK
    <2>3. DispatchOK' /\ WorkOK' /\ StripeTypeOK'
      BY <1>7, <2>1, DispatchUnchanged, WorkUnchanged
      DEF PatchUnsettled, PatchRecord, PatchRelease, StoreKept, TypeOK,
          StripeTypeOK
    <2> QED
      BY <2>1, <2>2, <2>3 DEF TypeOK, StoreKept
  <1> QED
    BY <1>5, <1>6, <1>7 DEF PatchContinues


LEMMA TypeWork ==
  ASSUME TypeOK, NEW w \in Workers, WorkerContinues(w)
  PROVE  TypeOK'
  <1> DEFINE r == work[w]
  <1>1. r \in WorkSlot /\ Serving(r) /\ (r.at = "conclude" => r.verdict # "")
    BY DEF TypeOK, WorkOK
  <1>2. r.at # "idle"
    BY DEF WorkerContinues, WorkerMark, WorkerRank, WorkerConclude
  <1>3. r.shipment \in Shipments
    BY <1>1, <1>2 DEF Serving
  <1>4. StoreKept
    <2>1. CASE WorkerMark(w)
      BY <1>3, <2>1, KnownStatuses, StoreUnchanged, UpdateShipmentStatusKept
      DEF WorkerMark, TypeOK
    <2>2. CASE WorkerRank(w)
      BY <2>2, StoreUnchanged DEF WorkerRank, TypeOK
    <2>3. CASE WorkerConclude(w)
      <3>1. r.verdict \in RowStatuses
        BY <1>1, <2>3, KnownStatuses DEF WorkerConclude, WorkSlot
      <3> QED
        BY <1>3, <2>3, <3>1, StoreUnchanged, UpdateShipmentStatusKept
        DEF WorkerConclude, TypeOK
    <2> QED
      BY <2>1, <2>2, <2>3 DEF WorkerContinues
  <1>5. WorkOK'
    <2>1. CASE WorkerMark(w)
      <3>1. [r EXCEPT !.at = "rank"] \in WorkSlot /\ Serving([r EXCEPT !.at = "rank"])
        BY <1>1, <1>2 DEF WorkSlot, Serving
      <3> QED
        BY <1>1, <1>4, <2>1, <3>1, WorkMoved DEF WorkerMark, WorkSlot, StoreKept, TypeOK
    <2>2. CASE WorkerRank(w)
      <3>1. PICK verdict \in { StatusMatched, StatusNoMatch } :
               work' = [work EXCEPT ![w] = [r EXCEPT !.at = "conclude",
                                                     !.verdict = verdict]]
        BY <2>2 DEF WorkerRank
      <3> DEFINE next == [r EXCEPT !.at = "conclude", !.verdict = verdict]
      <3>2. next \in WorkSlot /\ Serving(next) /\ next.verdict # ""
        BY <1>1, <1>2 DEF WorkSlot, Serving, StatusMatched, StatusNoMatch
      <3> QED
        BY <1>4, <3>1, <3>2, WorkMoved DEF StoreKept, TypeOK
    <2>3. CASE WorkerConclude(w)
      BY <1>4, <2>3, IdleSlots, WorkMoved DEF WorkerConclude, StoreKept, TypeOK
    <2> QED
      BY <2>1, <2>2, <2>3 DEF WorkerContinues
  <1>6. DispatchOK' /\ PatchOK' /\ StripeTypeOK'
    BY <1>4, DispatchUnchanged, PatchUnchanged
    DEF WorkerContinues, WorkerMark, WorkerRank, WorkerConclude, StoreKept,
        TypeOK, StripeTypeOK
  <1> QED
    BY <1>4, <1>5, <1>6 DEF TypeOK, StoreKept

\* A request that starts, a row that is created, a crash.
LEMMA TypeStart ==
  ASSUME TypeOK, NEW s \in Shipments,
         \/ \E d \in Dispatchers, c \in Carriers, price \in Prices :
               DispatchRead(d, s, c, price)
         \/ \E p \in Patchers, target \in ClientStatuses : PatchRead(p, s, target)
         \/ \E w \in Workers : WorkerTake(w, s)
  PROVE  TypeOK'
  <1>1. StoreKept
    BY StoreUnchanged DEF TypeOK, DispatchRead, PatchRead, WorkerTake
  <1>2. shipments[s] \in ShipmentRow
    BY DEF TypeOK, StoreTypeOK
  <1>3. ASSUME NEW d \in Dispatchers, NEW c \in Carriers, NEW price \in Prices,
               DispatchRead(d, s, c, price)
        PROVE  TypeOK'
    <2> DEFINE next == [IdleDispatch EXCEPT !.at = "book", !.shipment = s,
                                            !.carrier = c, !.price = price]
    <2>1. next \in DispatchSlot /\ Serving(next) /\ next.carrier \in Carriers
      BY <1>3 DEF DispatchRead, IdleDispatch, DispatchSlot, Serving
    <2>2. DispatchOK'
      BY <1>1, <1>3, <2>1, DispatchMoved DEF DispatchRead, StoreKept, TypeOK
    <2> QED
      BY <1>1, <1>3, <2>2, PatchUnchanged, WorkUnchanged
      DEF DispatchRead, StoreKept, TypeOK, StripeTypeOK
  <1>4. ASSUME NEW p \in Patchers, NEW target \in ClientStatuses,
               PatchRead(p, s, target)
        PROVE  TypeOK'
    <2> DEFINE next == [IdlePatch EXCEPT !.at = "write", !.shipment = s,
                                         !.target = target,
                                         !.carrier = shipments[s].carrier,
                                         !.intent = shipments[s].intent]
    <2>1. target \in NextStatuses
      BY <1>4 DEF PatchRead, ValidateTransition, AllowedTransitions, NextStatuses, Statuses,
                      StatusPending, StatusDispatched, StatusInTransit,
                      StatusDelivered, StatusCancelled, StatusNoMatch
    <2>2. next \in PatchSlot /\ Serving(next) /\ next.target \in NextStatuses
      BY <1>2, <1>4, <2>1 DEF PatchRead, IdlePatch, PatchSlot, ShipmentRow, Serving
    <2>3. PatchOK'
      BY <1>1, <1>4, <2>2, PatchMoved DEF PatchRead, StoreKept, TypeOK
    <2> QED
      BY <1>1, <1>4, <2>3, DispatchUnchanged, WorkUnchanged
      DEF PatchRead, StoreKept, TypeOK, StripeTypeOK
  <1>5. ASSUME NEW w \in Workers, WorkerTake(w, s)
        PROVE  TypeOK'
    <2> DEFINE next == [IdleWork EXCEPT !.at = "mark", !.shipment = s]
    <2>1. next \in WorkSlot /\ Serving(next) /\ next.at # "conclude"
      BY <1>5 DEF WorkerTake, IdleWork, WorkSlot, Serving
    <2>2. WorkOK'
      BY <1>1, <1>5, <2>1, WorkMoved DEF WorkerTake, StoreKept, TypeOK
    <2> QED
      BY <1>1, <1>5, <2>2, DispatchUnchanged, PatchUnchanged
      DEF WorkerTake, StoreKept, TypeOK, StripeTypeOK
  <1> QED
    BY <1>3, <1>4, <1>5

LEMMA TypeCreate ==
  ASSUME TypeOK,
         (\E c \in Carriers : CreateCarrier(c)) \/ (\E s \in Shipments : CreateShipment(s))
  PROVE  TypeOK'
  <1>1. StoreKept
    BY SaveCarrierKept, SaveShipmentKept DEF TypeOK, CreateCarrier, CreateShipment
  <1> QED
    BY <1>1, DispatchUnchanged, PatchUnchanged, WorkUnchanged
    DEF TypeOK, CreateCarrier, CreateShipment, slotVars, StoreKept, StripeTypeOK

LEMMA TypeCrash ==
  ASSUME TypeOK, Crash
  PROVE  TypeOK'
  <1>1. StoreKept
    BY StoreUnchanged DEF TypeOK, Crash
  <1>2. DispatchOK' /\ PatchOK' /\ WorkOK'
    BY IdleSlots DEF Crash, DispatchOK, PatchOK, WorkOK, Serving
  <1> QED
    BY <1>1, <1>2 DEF TypeOK, Crash, StoreKept, StripeTypeOK

LEMMA TypeStutter ==
  ASSUME TypeOK, UNCHANGED vars
  PROVE  TypeOK'
  <1>1. StoreKept
    BY StoreUnchanged DEF TypeOK, vars, storeVars
  <1> QED
    BY <1>1, DispatchUnchanged, PatchUnchanged, WorkUnchanged
    DEF TypeOK, vars, StoreKept, StripeTypeOK

LEMMA TypeStep == TypeOK /\ [Next]_vars => TypeOK'
  BY TypeCreate, TypeStart, TypeDispatch, TypePatch, TypeWork, TypeCrash,
     TypeStutter
  DEF Next

\* No sequence of requests, faults and crashes stores a status the program does
\* not know, an assignment to a carrier that is not one, or leaves a goroutine
\* serving a shipment that is not there.
THEOREM TypeCorrect == Spec => []TypeOK
  BY TypeInit, TypeStep, PTL DEF Spec

=============================================================================
