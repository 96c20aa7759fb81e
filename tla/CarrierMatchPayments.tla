------------------------ MODULE CarrierMatchPayments ------------------------
(***************************************************************************)
(* The money columns of CarrierMatch, in two parts.                        *)
(*                                                                         *)
(* The ledger: Stripe never takes back an answer that is final and never   *)
(* hands an intent over to another shipment, so what a row or a handler    *)
(* knows of its intent stays true while others move, whatever clients do.  *)
(*                                                                         *)
(* The price: the amount held for a shipment is the price agreed on its    *)
(* row.  Two columns written by two store calls, with Stripe's in between: *)
(* they stay in step because a dispatch is alone on its shipment from its  *)
(* check to its last write, which is what the discipline "requests" says   *)
(* of the clients and nothing in the code enforces.                        *)
(***************************************************************************)
EXTENDS CarrierMatchTypes

\* An intent Stripe has created keeps its shipment, and its state once final.
IntentsKept ==
    \A i \in Intents : intents[i].state # "unused" =>
        /\ intents'[i].shipment = intents[i].shipment
        /\ intents'[i].state # "unused"
        /\ intents[i].state \in { "succeeded", "canceled" } =>
              intents'[i].state = intents[i].state

\* Backs in the next state, of an intent and a shipment read in this one.
BacksNext(i, s) == /\ i \in Intents
                   /\ intents'[i].shipment = s
                   /\ intents'[i].state # "unused"

\* The payment columns of every row are left as they are.
MoneyKept ==
    \A s \in Shipments : /\ shipments'[s].intent = shipments[s].intent
                         /\ shipments'[s].paid = shipments[s].paid

\* Each call on Stripe keeps what is known of its intents.
LEMMA IntentsUnchanged == UNCHANGED intents => IntentsKept
  BY DEF IntentsKept

LEMMA AuthorizeKeeps ==
  ASSUME StripeTypeOK, NEW i \in Intents, NEW s \in Shipments, NEW amount,
         AuthorizePayment(i, s, amount)
  PROVE  IntentsKept /\ Backs(i, s)'
  BY DEF StripeTypeOK, AuthorizePayment, IntentsKept, Backs

LEMMA CloseKeeps ==
  ASSUME StripeTypeOK, NEW i \in Intents,
         NEW state \in { "succeeded", "canceled" },
         intents[i].state = "requires_capture",
         intents' = [intents EXCEPT ![i].state = state]
  PROVE  IntentsKept /\ intents'[i].state = state
  BY DEF StripeTypeOK, IntentsKept

\* Rows and slots that do not move stay truthful.
LEMMA LedgerKept ==
  ASSUME LedgerTruthful, IntentsKept, MoneyKept
  PROVE  LedgerTruthful'
  <1> SUFFICES ASSUME NEW s \in Shipments
               PROVE  LET row == shipments'[s] IN
                      /\ row.intent = NoIntent <=> row.paid = ""
                      /\ row.intent # NoIntent => BacksNext(row.intent, s)
                      /\ row.paid \in { "succeeded", "canceled" } =>
                            intents'[row.intent].state = row.paid
    BY DEF LedgerTruthful, Backs, BacksNext
  <1> DEFINE row == shipments[s]
  <1>1. shipments'[s].intent = row.intent /\ shipments'[s].paid = row.paid
    BY DEF MoneyKept
  <1>2. /\ row.intent = NoIntent <=> row.paid = ""
        /\ row.intent # NoIntent => Backs(row.intent, s)
        /\ row.paid \in { "succeeded", "canceled" } =>
              intents[row.intent].state = row.paid
    BY DEF LedgerTruthful
  <1>3. row.intent # NoIntent => BacksNext(row.intent, s)
    BY <1>2 DEF Backs, BacksNext, IntentsKept
  <1>4. ASSUME row.paid \in { "succeeded", "canceled" }
        PROVE  intents'[row.intent].state = row.paid
    <2>1. row.intent \in Intents /\ intents[row.intent].state # "unused"
      BY <1>2, <1>4 DEF Backs
    <2> QED
      BY <1>2, <1>4, <2>1 DEF IntentsKept
  <1> QED
    BY <1>1, <1>2, <1>3, <1>4

LEMMA BackedKept ==
  ASSUME IntentsKept
  PROVE  /\ \A r : DispatchBacked(r) => DispatchBacked(r)'
         /\ \A r : PatchBacked(r) => PatchBacked(r)'
  BY DEF IntentsKept, DispatchBacked, PatchBacked, Backs

\* A row that takes an intent which is its own, with a status Stripe backs, is
\* truthful.
LEMMA LedgerRecorded ==
  ASSUME TypeOK, LedgerTruthful, UNCHANGED intents, NEW s \in Shipments, NEW i,
         NEW paid \in PaymentStatuses \ { "" }, Backs(i, s),
         paid \in { "succeeded", "canceled" } => intents[i].state = paid,
         UpdateShipmentPayment(s, i, paid)
  PROVE  LedgerTruthful'
  <1> DEFINE row == [shipments[s] EXCEPT !.intent = i, !.paid = paid]
  <1>1. shipments[s] \in ShipmentRow
    BY DEF TypeOK, StoreTypeOK
  <1>2. row.intent = i /\ row.paid = paid
    BY <1>1 DEF ShipmentRow
  <1>3. shipments' = [shipments EXCEPT ![s] = row]
    BY DEF UpdateShipmentPayment
  <1>4. \A t \in Shipments \ { s } : shipments'[t] = shipments[t]
    BY <1>3 DEF TypeOK, StoreTypeOK
  <1>5. shipments'[s] = row
    BY <1>3 DEF TypeOK, StoreTypeOK
  <1>6. i # NoIntent
    BY IdsDisjoint DEF Backs
  <1> SUFFICES ASSUME NEW t \in Shipments
               PROVE  LET tr == shipments'[t] IN
                      /\ tr.intent = NoIntent <=> tr.paid = ""
                      /\ tr.intent # NoIntent => Backs(tr.intent, t)
                      /\ tr.paid \in { "succeeded", "canceled" } =>
                            intents[tr.intent].state = tr.paid
    BY DEF LedgerTruthful, Backs
  <1>7. CASE t = s
    BY <1>2, <1>5, <1>6, <1>7
  <1>8. CASE t # s
    BY <1>4, <1>8 DEF LedgerTruthful
  <1> QED
    BY <1>7, <1>8

\* The methods that do not write the payment columns.
LEMMA MoneyUntouched ==
  ASSUME StoreTypeOK,
         \/ UNCHANGED shipments
         \/ \E s \in Shipments : \E status : UpdateShipmentStatus(s, status)
         \/ \E s \in Shipments : \E c, price : Dispatch(s, c, price)
  PROVE  MoneyKept
  <1>1. \A s \in Shipments : shipments[s] \in ShipmentRow
    BY DEF StoreTypeOK
  <1>2. ASSUME NEW s \in Shipments, NEW row,
               row.intent = shipments[s].intent, row.paid = shipments[s].paid,
               shipments' = [shipments EXCEPT ![s] = row]
        PROVE  MoneyKept
    BY <1>2 DEF MoneyKept, StoreTypeOK
  <1>3. ASSUME NEW s \in Shipments, NEW status, UpdateShipmentStatus(s, status)
        PROVE  MoneyKept
    <2> DEFINE row == [shipments[s] EXCEPT !.status = status]
    <2>1. row.intent = shipments[s].intent /\ row.paid = shipments[s].paid
      BY <1>1 DEF ShipmentRow
    <2> QED
      BY <1>2, <1>3, <2>1 DEF UpdateShipmentStatus
  <1>4. ASSUME NEW s \in Shipments, NEW c, NEW price, Dispatch(s, c, price)
        PROVE  MoneyKept
    <2> DEFINE row == [shipments[s] EXCEPT !.carrier = c, !.price = price,
                                           !.status = StatusDispatched]
    <2>1. row.intent = shipments[s].intent /\ row.paid = shipments[s].paid
      BY <1>1 DEF ShipmentRow
    <2> QED
      BY <1>2, <1>4, <2>1 DEF Dispatch
  <1> QED
    BY <1>3, <1>4 DEF MoneyKept


\* Slots that take a backed value leave the slots backed.
LEMMA DispatchBackedMoved ==
  ASSUME DispatchOK, IntentsKept, \A d \in Dispatchers : DispatchBacked(dispatch[d]),
         NEW e \in Dispatchers, NEW r, DispatchBacked(r)',
         dispatch' = [dispatch EXCEPT ![e] = r]
  PROVE  (\A d \in Dispatchers : DispatchBacked(dispatch[d]))'
  <1> SUFFICES ASSUME NEW d \in Dispatchers PROVE DispatchBacked(dispatch[d])'
    OBVIOUS
  <1>1. CASE d = e
    <2>1. dispatch'[d] = r
      BY <1>1 DEF DispatchOK
    <2> QED
      BY <2>1 DEF DispatchBacked, Backs
  <1>2. CASE d # e
    <2>1. dispatch'[d] = dispatch[d]
      BY <1>2 DEF DispatchOK
    <2> QED
      BY <2>1 DEF DispatchBacked, Backs, IntentsKept
  <1> QED
    BY <1>1, <1>2

LEMMA PatchBackedMoved ==
  ASSUME PatchOK, IntentsKept, \A p \in Patchers : PatchBacked(patch[p]),
         NEW q \in Patchers, NEW r, PatchBacked(r)',
         patch' = [patch EXCEPT ![q] = r]
  PROVE  (\A p \in Patchers : PatchBacked(patch[p]))'
  <1> SUFFICES ASSUME NEW p \in Patchers PROVE PatchBacked(patch[p])'
    OBVIOUS
  <1>1. CASE p = q
    <2>1. patch'[p] = r
      BY <1>1 DEF PatchOK
    <2> QED
      BY <2>1 DEF PatchBacked, Backs
  <1>2. CASE p # q
    <2>1. patch'[p] = patch[p]
      BY <1>2 DEF PatchOK
    <2> QED
      BY <2>1 DEF PatchBacked, Backs, IntentsKept
  <1> QED
    BY <1>1, <1>2

LEMMA BackedUnmoved ==
  ASSUME IntentsKept
  PROVE  /\ (\A d \in Dispatchers : DispatchBacked(dispatch[d])) /\ UNCHANGED dispatch
               => (\A d \in Dispatchers : DispatchBacked(dispatch[d]))'
         /\ (\A p \in Patchers : PatchBacked(patch[p])) /\ UNCHANGED patch
               => (\A p \in Patchers : PatchBacked(patch[p]))'
  BY DEF IntentsKept, DispatchBacked, PatchBacked, Backs

\* The idle slots claim nothing.
LEMMA IdleBacked ==
    /\ IdleDispatch.intent = NoIntent /\ DispatchBacked(IdleDispatch)'
    /\ IdlePatch.intent = NoIntent /\ PatchBacked(IdlePatch)'
  BY DEF IdleDispatch, IdlePatch, DispatchBacked, PatchBacked

LEMMA LedgerInit == Init => LedgerInv
  <1> SUFFICES ASSUME Init PROVE LedgerInv
    OBVIOUS
  <1>1. \A s \in Shipments : shipments[s].intent = NoIntent /\ shipments[s].paid = ""
    BY DEF Init, StoreInit, NoRow
  <1>2. LedgerTruthful
    BY <1>1 DEF LedgerTruthful
  <1>3. \A d \in Dispatchers : DispatchBacked(dispatch[d])
    BY DEF Init, IdleDispatch, DispatchBacked
  <1>4. \A p \in Patchers : PatchBacked(patch[p])
    BY DEF Init, IdlePatch, PatchBacked
  <1> QED
    BY <1>2, <1>3, <1>4 DEF LedgerInv

\* Every step keeps the ledger invariant.
LEMMA LedgerDispatch ==
  ASSUME TypeOK, LedgerInv, NEW d \in Dispatchers, DispatchContinues(d)
  PROVE  LedgerInv'
  <1> PICK r : r = dispatch[d]
    OBVIOUS
  <1> USE DEF LedgerInv
  <1>1. r \in DispatchSlot /\ r.shipment \in Shipments
    BY DEF TypeOK, DispatchOK, Serving, DispatchContinues, DispatchBook,
           DispatchRefused, DispatchAuthorize, DispatchUnauthorized, DispatchRecord
  <1>2. CASE DispatchBook(d)
    <2>1. IntentsKept /\ MoneyKept
      BY <1>1, <1>2, IntentsUnchanged, MoneyUntouched DEF DispatchBook, TypeOK
    <2>2. DispatchBacked([r EXCEPT !.at = "authorize"])'
      BY <1>1 DEF DispatchSlot, DispatchBacked
    <2> QED
      BY <1>2, <2>1, <2>2, LedgerKept, IdleBacked, DispatchBackedMoved,
         BackedUnmoved
      DEF DispatchBook, TypeOK
  <1>3. CASE DispatchRefused(d) \/ DispatchUnauthorized(d)
    <2>1. IntentsKept /\ MoneyKept
      BY <1>3, IntentsUnchanged, MoneyUntouched
      DEF DispatchRefused, DispatchUnauthorized, storeVars, TypeOK
    <2> QED
      BY <1>3, <2>1, LedgerKept, IdleBacked, DispatchBackedMoved, BackedUnmoved
      DEF DispatchRefused, DispatchUnauthorized, TypeOK
  <1>4. CASE DispatchAuthorize(d)
    <2>1. PICK i \in Intents :
             /\ AuthorizePayment(i, r.shipment, AmountCents(r.price))
             /\ \/ dispatch' = [dispatch EXCEPT ![d] =
                                  [r EXCEPT !.at = "record", !.intent = i]]
                \/ dispatch' = [dispatch EXCEPT ![d] = IdleDispatch]
      BY <1>4 DEF DispatchAuthorize
    <2>2. IntentsKept /\ BacksNext(i, r.shipment)
      BY <1>1, <2>1, AuthorizeKeeps DEF TypeOK, Backs, BacksNext
    <2>3. MoneyKept
      BY <1>4, MoneyUntouched DEF DispatchAuthorize, storeVars, TypeOK
    <2>4. (\A e \in Dispatchers : DispatchBacked(dispatch[e]))'
      <3>1. CASE dispatch' = [dispatch EXCEPT ![d] = IdleDispatch]
        BY <2>2, <3>1, IdleBacked, DispatchBackedMoved DEF TypeOK
      <3>2. CASE dispatch' = [dispatch EXCEPT ![d] =
                                [r EXCEPT !.at = "record", !.intent = i]]
        <4> DEFINE next == [r EXCEPT !.at = "record", !.intent = i]
        <4>1. next.intent = i /\ next.shipment = r.shipment
          BY <1>1 DEF DispatchSlot
        <4>2. ASSUME NEW n, n.intent = i, n.shipment = r.shipment
              PROVE  DispatchBacked(n)'
          BY <2>2, <4>2 DEF DispatchBacked, Backs, BacksNext
        <4> QED
          BY <2>2, <3>2, <4>1, <4>2, DispatchBackedMoved DEF TypeOK
      <3> QED
        BY <2>1, <3>1, <3>2
    <2> QED
      BY <1>4, <2>2, <2>3, <2>4, LedgerKept, BackedUnmoved DEF DispatchAuthorize
  <1>5. CASE DispatchRecord(d)
    <2>1. IntentsKept
      BY <1>5, IntentsUnchanged DEF DispatchRecord
    <2>2. Backs(r.intent, r.shipment)
      BY <1>5 DEF DispatchRecord, DispatchBacked
    <2>3. LedgerTruthful'
      <3>1. CASE UpdateShipmentPayment(r.shipment, r.intent, "requires_capture")
        BY <1>1, <1>5, <2>2, <3>1, LedgerRecorded
        DEF DispatchRecord, PaymentStatuses
      <3>2. CASE UNCHANGED storeVars
        BY <2>1, <3>2, MoneyUntouched, LedgerKept DEF storeVars, TypeOK
      <3> QED
        BY <1>5, <3>1, <3>2 DEF DispatchRecord
    <2> QED
      BY <1>5, <2>1, <2>3, IdleBacked, DispatchBackedMoved, BackedUnmoved
      DEF DispatchRecord, TypeOK
  <1> QED
    BY <1>2, <1>3, <1>4, <1>5 DEF DispatchContinues


LEMMA LedgerPatch ==
  ASSUME TypeOK, LedgerInv, NEW p \in Patchers, PatchContinues(p)
  PROVE  LedgerInv'
  <1> PICK r : r = patch[p]
    OBVIOUS
  <1> USE DEF LedgerInv
  <1>1. r \in PatchSlot /\ r.shipment \in Shipments
    BY DEF TypeOK, PatchOK, Serving, PatchContinues, PatchWrite, PatchSettle,
           PatchUnsettled, PatchRecord, PatchRelease
  <1>2. PatchBacked(r)
    OBVIOUS
  <1>3. ASSUME IntentsKept
        PROVE  PatchBacked(AfterSettle(r))' /\ PatchBacked(AfterWrite(r))'
    <2>1. ASSUME NEW n, n.intent = r.intent, n.shipment = r.shipment,
                 n.at = "release" \/ (n.at = "settle" /\ r.intent # NoIntent)
          PROVE  PatchBacked(n)'
      BY <1>2, <1>3, <2>1 DEF PatchBacked, Backs, IntentsKept
    <2>2. PICK rel : rel = [r EXCEPT !.at = "release"]
      OBVIOUS
    <2>3. PICK set : set = [r EXCEPT !.at = "settle"]
      OBVIOUS
    <2>4. PatchBacked(rel)' /\ PatchBacked(IdlePatch)'
      <3>1. rel.at = "release" /\ rel.intent = r.intent /\ rel.shipment = r.shipment
        BY <1>1, <2>2 DEF PatchSlot
      <3> QED
        BY <2>1, <3>1, IdleBacked
    <2>5. r.intent # NoIntent => PatchBacked(set)'
      <3>1. set.at = "settle" /\ set.intent = r.intent /\ set.shipment = r.shipment
        BY <1>1, <2>3 DEF PatchSlot
      <3> QED
        BY <2>1, <3>1
    <2>6. AfterSettle(r) = rel \/ AfterSettle(r) = IdlePatch
      BY <2>2 DEF AfterSettle
    <2>7. \/ r.intent # NoIntent /\ AfterWrite(r) = set
          \/ AfterWrite(r) = AfterSettle(r)
      BY <2>3 DEF AfterWrite
    <2> QED
      BY <2>4, <2>5, <2>6, <2>7
  <1>4. CASE PatchWrite(p)
    <2>1. IntentsKept /\ MoneyKept
      BY <1>1, <1>4, IntentsUnchanged, MoneyUntouched
      DEF PatchWrite, storeVars, TypeOK
    <2> QED
      BY <1>3, <1>4, <2>1, LedgerKept, IdleBacked, PatchBackedMoved, BackedUnmoved
      DEF PatchWrite, TypeOK
  <1>5. CASE PatchSettle(p)
    <2>1. r.intent \in Intents
      BY <1>2, <1>5 DEF PatchSettle, PatchBacked, Backs
    <2>2. PICK result \in { "succeeded", "canceled" } :
             /\ intents[r.intent].state = "requires_capture"
             /\ intents' = [intents EXCEPT ![r.intent].state = result]
             /\ \/ patch' = [patch EXCEPT ![p] =
                               [r EXCEPT !.at = "record", !.result = result]]
                \/ patch' = [patch EXCEPT ![p] = AfterSettle(r)]
      BY <1>5 DEF PatchSettle, CapturePayment, CancelPayment
    <2>3. IntentsKept /\ intents'[r.intent].state = result
      BY <2>1, <2>2, CloseKeeps DEF TypeOK
    <2>4. MoneyKept
      BY <1>5, MoneyUntouched DEF PatchSettle, storeVars, TypeOK
    <2>5. (\A q \in Patchers : PatchBacked(patch[q]))'
      <3>1. CASE patch' = [patch EXCEPT ![p] = AfterSettle(r)]
        BY <1>3, <2>3, <3>1, PatchBackedMoved DEF TypeOK
      <3>2. CASE patch' = [patch EXCEPT ![p] =
                             [r EXCEPT !.at = "record", !.result = result]]
        <4> DEFINE next == [r EXCEPT !.at = "record", !.result = result]
        <4>1. /\ next.intent = r.intent /\ next.shipment = r.shipment
              /\ next.result = result
          BY <1>1 DEF PatchSlot
        <4>2. BacksNext(r.intent, r.shipment) /\ r.intent # NoIntent
          BY <1>2, <1>5, <2>3 DEF PatchSettle, PatchBacked, Backs, BacksNext, IntentsKept
        <4>3. ASSUME NEW n, n.intent = r.intent, n.shipment = r.shipment,
                     n.result = result
              PROVE  PatchBacked(n)'
          BY <2>3, <4>2, <4>3 DEF PatchBacked, Backs, BacksNext
        <4> QED
          BY <2>3, <3>2, <4>1, <4>3, PatchBackedMoved DEF TypeOK
      <3> QED
        BY <2>2, <3>1, <3>2
    <2> QED
      BY <1>5, <2>3, <2>4, <2>5, LedgerKept, BackedUnmoved DEF PatchSettle
  <1>6. CASE PatchUnsettled(p)
    <2>1. IntentsKept /\ MoneyKept
      BY <1>6, IntentsUnchanged, MoneyUntouched
      DEF PatchUnsettled, storeVars, TypeOK
    <2> QED
      BY <1>3, <1>6, <2>1, LedgerKept, PatchBackedMoved, BackedUnmoved
      DEF PatchUnsettled, TypeOK
  <1>7. CASE PatchRecord(p)
    <2>1. IntentsKept
      BY <1>7, IntentsUnchanged DEF PatchRecord
    <2>2. /\ Backs(r.intent, r.shipment)
          /\ r.result \in { "succeeded", "canceled" }
          /\ intents[r.intent].state = r.result
      BY <1>2, <1>7 DEF PatchRecord, PatchBacked
    <2>3. LedgerTruthful'
      <3>1. CASE UpdateShipmentPayment(r.shipment, r.intent, r.result)
        <4>1. r.result \in PaymentStatuses \ { "" }
          BY <2>2 DEF PaymentStatuses
        <4> QED
          BY <1>1, <1>7, <2>2, <3>1, <4>1, LedgerRecorded DEF PatchRecord
      <3>2. CASE UNCHANGED storeVars
        BY <2>1, <3>2, MoneyUntouched, LedgerKept DEF storeVars, TypeOK
      <3> QED
        BY <1>7, <3>1, <3>2 DEF PatchRecord
    <2> QED
      BY <1>3, <1>7, <2>1, <2>3, PatchBackedMoved, BackedUnmoved
      DEF PatchRecord, TypeOK
  <1>8. CASE PatchRelease(p)
    <2>1. IntentsKept /\ MoneyKept
      BY <1>8, IntentsUnchanged, MoneyUntouched
      DEF PatchRelease, ReleaseCarrier, storeVars, TypeOK
    <2> QED
      BY <1>8, <2>1, LedgerKept, IdleBacked, PatchBackedMoved, BackedUnmoved
      DEF PatchRelease, TypeOK
  <1> QED
    BY <1>4, <1>5, <1>6, <1>7, <1>8 DEF PatchContinues

\* The match workers, creation, the start of a request and a crash leave the
\* payment columns and Stripe alone.
LEMMA LedgerOther ==
  ASSUME TypeOK, LedgerInv,
         \/ \E w \in Workers : WorkerContinues(w)
         \/ \E w \in Workers, s \in Shipments : WorkerTake(w, s)
         \/ \E c \in Carriers : CreateCarrier(c)
         \/ UNCHANGED vars
  PROVE  LedgerInv'
  <1>1. UNCHANGED << intents, dispatch, patch >>
    BY DEF WorkerContinues, WorkerMark, WorkerRank, WorkerConclude, WorkerTake,
           CreateCarrier, slotVars, vars
  <1>2. MoneyKept
    <2>1. ASSUME NEW w \in Workers, WorkerContinues(w)
          PROVE  MoneyKept
      <3>1. work[w].shipment \in Shipments
        BY <2>1 DEF TypeOK, WorkOK, Serving, WorkerContinues, WorkerMark,
                    WorkerRank, WorkerConclude
      <3> QED
        BY <2>1, <3>1, MoneyUntouched
        DEF WorkerContinues, WorkerMark, WorkerRank, WorkerConclude, storeVars, TypeOK
    <2>2. CASE UNCHANGED shipments
      BY <2>2, MoneyUntouched DEF TypeOK
    <2> QED
      BY <2>1, <2>2 DEF WorkerTake, CreateCarrier, SaveCarrier, storeVars, vars
  <1> QED
    BY <1>1, <1>2, IntentsUnchanged, LedgerKept, BackedUnmoved DEF LedgerInv

LEMMA LedgerCreateShipment ==
  ASSUME TypeOK, LedgerInv, NEW s \in Shipments, CreateShipment(s)
  PROVE  LedgerInv'
  <1>1. UNCHANGED << intents, dispatch, patch >>
    BY DEF CreateShipment, slotVars
  <1>2. /\ shipments'[s].intent = NoIntent /\ shipments'[s].paid = ""
        /\ \A t \in Shipments \ { s } : shipments'[t] = shipments[t]
    BY DEF CreateShipment, SaveShipment, NoRow, TypeOK, StoreTypeOK
  <1>3. LedgerTruthful'
    <2> SUFFICES ASSUME NEW t \in Shipments
                 PROVE  LET row == shipments'[t] IN
                        /\ row.intent = NoIntent <=> row.paid = ""
                        /\ row.intent # NoIntent => BacksNext(row.intent, t)
                        /\ row.paid \in { "succeeded", "canceled" } =>
                              intents'[row.intent].state = row.paid
      BY DEF LedgerTruthful, Backs, BacksNext
    <2>1. CASE t = s
      BY <1>2, <2>1
    <2>2. CASE t # s
      BY <1>1, <1>2, <2>2 DEF LedgerInv, LedgerTruthful, Backs, BacksNext
    <2> QED
      BY <2>1, <2>2
  <1> QED
    BY <1>1, <1>3, IntentsUnchanged, BackedUnmoved DEF LedgerInv

LEMMA LedgerStart ==
  ASSUME TypeOK, LedgerInv, NEW s \in Shipments,
         \/ \E d \in Dispatchers, c \in Carriers, price \in Prices :
               DispatchRead(d, s, c, price)
         \/ \E p \in Patchers, target \in ClientStatuses : PatchRead(p, s, target)
  PROVE  LedgerInv'
  <1>1. IntentsKept /\ MoneyKept
    BY IntentsUnchanged, MoneyUntouched DEF DispatchRead, PatchRead, storeVars, TypeOK
  <1>2. LedgerTruthful'
    BY <1>1, LedgerKept DEF LedgerInv
  <1>3. ASSUME NEW d \in Dispatchers, NEW c \in Carriers, NEW price \in Prices,
               DispatchRead(d, s, c, price)
        PROVE  LedgerInv'
    <2> DEFINE next == [IdleDispatch EXCEPT !.at = "book", !.shipment = s,
                                            !.carrier = c, !.price = price]
    <2>1. next.at = "book"
      BY DEF IdleDispatch
    <2>2. DispatchBacked(next)'
      BY <2>1 DEF DispatchBacked
    <2> QED
      BY <1>1, <1>2, <1>3, <2>2, DispatchBackedMoved, BackedUnmoved
      DEF DispatchRead, LedgerInv, TypeOK
  <1>4. ASSUME NEW p \in Patchers, NEW target \in ClientStatuses,
               PatchRead(p, s, target)
        PROVE  LedgerInv'
    <2> DEFINE next == [IdlePatch EXCEPT !.at = "write", !.shipment = s,
                                         !.target = target,
                                         !.carrier = shipments[s].carrier,
                                         !.intent = shipments[s].intent]
    <2>1. next.at = "write" /\ next.shipment = s /\ next.intent = shipments[s].intent
      BY DEF IdlePatch
    <2>2. shipments[s].intent # NoIntent => BacksNext(shipments[s].intent, s)
      BY <1>1 DEF LedgerInv, LedgerTruthful, Backs, BacksNext, IntentsKept
    <2>3. ASSUME NEW n, n.at = "write", n.shipment = s, n.intent = shipments[s].intent
          PROVE  PatchBacked(n)'
      BY <2>2, <2>3 DEF PatchBacked, Backs, BacksNext
    <2> QED
      BY <1>1, <1>2, <1>4, <2>1, <2>3, PatchBackedMoved, BackedUnmoved
      DEF PatchRead, LedgerInv, TypeOK
  <1> QED
    BY <1>3, <1>4

LEMMA LedgerCrash ==
  ASSUME TypeOK, LedgerInv, Crash
  PROVE  LedgerInv'
  <1>1. IntentsKept /\ MoneyKept
    BY IntentsUnchanged, MoneyUntouched DEF Crash, storeVars, TypeOK
  <1>2. (\A d \in Dispatchers : DispatchBacked(dispatch[d]))'
    BY DEF Crash, IdleDispatch, DispatchBacked
  <1>3. (\A p \in Patchers : PatchBacked(patch[p]))'
    BY DEF Crash, IdlePatch, PatchBacked
  <1> QED
    BY <1>1, <1>2, <1>3, LedgerKept DEF LedgerInv

LEMMA LedgerStep == TypeOK /\ LedgerInv /\ [Next]_vars => LedgerInv'
  BY LedgerDispatch, LedgerPatch, LedgerOther, LedgerCreateShipment, LedgerStart,
     LedgerCrash
  DEF Next

\* What a handler carries from its read of a row to its write of the payment
\* columns is the row's own, with no discipline of the clients and every fault.
THEOREM LedgerInvCorrect == Spec => []LedgerInv
  <1> QED
    BY TypeInit, TypeStep, LedgerInit, LedgerStep, PTL DEF Spec

\* Under every interleaving, with every fault and without any discipline of the
\* clients, the payment columns claim nothing Stripe does not back.
THEOREM LedgerCorrect == Spec => []LedgerTruthful
  <1>1. LedgerInv => LedgerTruthful
    BY DEF LedgerInv
  <1> QED
    BY <1>1, LedgerInvCorrect, PTL

-----------------------------------------------------------------------------
(* The price.                                                                *)

\* Stripe has been asked for intent i, for a price, to the cent.
Held(i, price) == /\ i \in Intents
                  /\ intents[i].state # "unused"
                  /\ intents[i].amount = AmountCents(price)

HeldKept == \A i \in Intents : intents[i].state # "unused" =>
    /\ intents'[i].state # "unused"
    /\ intents'[i].amount = intents[i].amount

Early == { "absent", StatusPending }

\* A shipment that can still be dispatched has no hold.
EarlyUnheld == \A s \in Shipments :
    shipments[s].status \in Early => shipments[s].intent = NoIntent

RowsHeld == \A s \in Shipments :
    shipments[s].intent # NoIntent => Held(shipments[s].intent, shipments[s].price)

\* A dispatch shares its shipment with no other dispatch and with no PATCH.
DispatchAlone(d) == dispatch[d].at # "idle" =>
    /\ \A e \in Dispatchers : dispatch[e].shipment = dispatch[d].shipment => e = d
    /\ \A p \in Patchers : patch[p].shipment # dispatch[d].shipment

\* What a dispatch has still to do fits the row.
DispatchPriced(r) == r.at # "idle" =>
    /\ shipments[r.shipment].intent = NoIntent
    /\ r.at # "book" => /\ shipments[r.shipment].price = r.price
                        /\ shipments[r.shipment].status \notin Early
    /\ r.at = "record" => Held(r.intent, r.price)

\* The intent a PATCH has read is the row's, until it is done.
PatchCurrent(r) == r.at # "idle" => r.intent = shipments[r.shipment].intent

PriceInv ==
    /\ EarlyUnheld
    /\ RowsHeld
    /\ \A d \in Dispatchers : DispatchAlone(d)
    /\ \A d \in Dispatchers : DispatchPriced(dispatch[d])
    /\ \A p \in Patchers : PatchCurrent(patch[p])

-----------------------------------------------------------------------------
(* Steps that leave the two columns alone.                                   *)

ColumnsKept == \A s \in Shipments :
    /\ shipments'[s].intent = shipments[s].intent
    /\ shipments[s].status # "absent" => shipments'[s].price = shipments[s].price
    /\ shipments'[s].status \in Early => shipments[s].status \in Early

LEMMA UnchangedKeeps == UNCHANGED shipments => ColumnsKept
  BY DEF ColumnsKept

LEMMA UnchangedHeld == UNCHANGED intents => HeldKept
  BY DEF HeldKept

LEMMA LateStatuses ==
    \A status \in NextStatuses \cup { StatusMatching, StatusMatched, StatusNoMatch } :
        status \notin Early
  BY DEF NextStatuses, Statuses, StatusPending, StatusDispatched, StatusInTransit,
         StatusDelivered, StatusCancelled, StatusNoMatch, StatusMatching,
         StatusMatched, Early

\* A status a handler or a match job writes is never one to dispatch from.
LEMMA StatusKeeps ==
  ASSUME StoreTypeOK, NEW s \in Shipments,
         NEW status \in NextStatuses \cup { StatusMatching, StatusMatched, StatusNoMatch },
         UpdateShipmentStatus(s, status)
  PROVE  ColumnsKept
  <1> DEFINE row == [shipments[s] EXCEPT !.status = status]
  <1>1. shipments[s] \in ShipmentRow
    BY DEF StoreTypeOK
  <1>2. /\ row.intent = shipments[s].intent /\ row.price = shipments[s].price
        /\ row.status = status
    BY <1>1 DEF ShipmentRow
  <1>3. shipments'[s] = row /\ \A t \in Shipments \ { s } : shipments'[t] = shipments[t]
    BY DEF UpdateShipmentStatus, StoreTypeOK
  <1>4. status \notin Early
    BY LateStatuses
  <1> QED
    BY <1>2, <1>3, <1>4 DEF ColumnsKept

\* A hold that stays as it is backs what it backed.
LEMMA HeldStays ==
  ASSUME HeldKept, NEW i, NEW price, Held(i, price)
  PROVE  /\ i \in Intents
         /\ intents'[i].state # "unused"
         /\ intents'[i].amount = AmountCents(price)
  BY DEF HeldKept, Held

LEMMA RowsKeptPriced ==
  ASSUME EarlyUnheld, RowsHeld, ColumnsKept, HeldKept
  PROVE  EarlyUnheld' /\ RowsHeld'
  <1>1. EarlyUnheld'
    BY DEF EarlyUnheld, ColumnsKept
  <1>2. ASSUME NEW s \in Shipments, shipments'[s].intent # NoIntent
        PROVE  /\ shipments'[s].intent \in Intents
               /\ intents'[shipments'[s].intent].state # "unused"
               /\ intents'[shipments'[s].intent].amount = AmountCents(shipments'[s].price)
    <2>1. shipments'[s].intent = shipments[s].intent
      BY DEF ColumnsKept
    <2>2. shipments[s].status # "absent"
      BY <1>2, <2>1 DEF EarlyUnheld, Early
    <2>3. shipments'[s].price = shipments[s].price
      BY <2>2 DEF ColumnsKept
    <2>4. Held(shipments[s].intent, shipments[s].price)
      BY <1>2, <2>1 DEF RowsHeld
    <2> QED
      BY <2>1, <2>3, <2>4, HeldStays
  <1>3. RowsHeld'
    BY <1>2 DEF RowsHeld, Held
  <1> QED
    BY <1>1, <1>3

\* What is left to do of a dispatch or a PATCH goes on fitting its row.
LEMMA DispatchStays ==
  ASSUME ColumnsKept, HeldKept, NEW r, Serving(r), DispatchPriced(r)
  PROVE  DispatchPriced(r)'
  <1> SUFFICES ASSUME r.at # "idle"
               PROVE  /\ shipments'[r.shipment].intent = NoIntent
                      /\ r.at # "book" =>
                            /\ shipments'[r.shipment].price = r.price
                            /\ shipments'[r.shipment].status \notin Early
                      /\ r.at = "record" =>
                            /\ r.intent \in Intents
                            /\ intents'[r.intent].state # "unused"
                            /\ intents'[r.intent].amount = AmountCents(r.price)
    BY DEF DispatchPriced, Held
  <1>1. r.shipment \in Shipments /\ shipments[r.shipment].status # "absent"
    BY DEF Serving, ShipmentExists
  <1>2. /\ shipments'[r.shipment].intent = shipments[r.shipment].intent
        /\ shipments'[r.shipment].price = shipments[r.shipment].price
        /\ shipments'[r.shipment].status \in Early =>
              shipments[r.shipment].status \in Early
    BY <1>1 DEF ColumnsKept
  <1>3. r.at = "record" => Held(r.intent, r.price)
    BY DEF DispatchPriced
  <1> QED
    BY <1>2, <1>3, HeldStays DEF DispatchPriced

LEMMA PatchStays ==
  ASSUME ColumnsKept, NEW r, Serving(r), PatchCurrent(r)
  PROVE  PatchCurrent(r)'
  BY DEF ColumnsKept, Serving, PatchCurrent

\* When one slot moves the others stay alone and as they were.
LEMMA DispatchesMoved ==
  ASSUME DispatchOK, NEW d \in Dispatchers, NEW n,
         dispatch' = [dispatch EXCEPT ![d] = n], DispatchPriced(n)',
         \A e \in Dispatchers \ { d } : \A r : r = dispatch[e] => DispatchPriced(r)'
  PROVE  (\A e \in Dispatchers : DispatchPriced(dispatch[e]))'
  <1> SUFFICES ASSUME NEW e \in Dispatchers PROVE DispatchPriced(dispatch[e])'
    OBVIOUS
  <1>1. CASE e = d
    <2>1. dispatch'[e] = n
      BY <1>1 DEF DispatchOK
    <2> QED
      BY <2>1 DEF DispatchPriced, Held
  <1>2. CASE e # d
    <2>1. dispatch'[e] = dispatch[e]
      BY <1>2 DEF DispatchOK
    <2>2. PICK r : r = dispatch[e]
      OBVIOUS
    <2>3. DispatchPriced(r)'
      BY <1>2, <2>2
    <2> QED
      BY <2>1, <2>2, <2>3 DEF DispatchPriced, Held
  <1> QED
    BY <1>1, <1>2

LEMMA DispatchesApart ==
  ASSUME DispatchOK, \A e \in Dispatchers : DispatchAlone(e),
         NEW d \in Dispatchers, NEW n,
         dispatch' = [dispatch EXCEPT ![d] = n], UNCHANGED patch,
         \/ n.at = "idle" /\ n.shipment = NoShipment
         \/ dispatch[d].at # "idle" /\ n.shipment = dispatch[d].shipment
  PROVE  (\A e \in Dispatchers : DispatchAlone(e))'
  <1> SUFFICES ASSUME NEW e \in Dispatchers, dispatch'[e].at # "idle"
               PROVE  /\ \A f \in Dispatchers :
                           dispatch'[f].shipment = dispatch'[e].shipment => f = e
                      /\ \A p \in Patchers : patch[p].shipment # dispatch'[e].shipment
    BY DEF DispatchAlone
  <1>1. dispatch'[d] = n /\ \A f \in Dispatchers \ { d } : dispatch'[f] = dispatch[f]
    BY DEF DispatchOK
  <1>2. dispatch[e].at # "idle" /\ dispatch'[e].shipment = dispatch[e].shipment
    BY <1>1
  <1>3. dispatch[e].shipment # NoShipment
    BY <1>2, IdsDisjoint DEF DispatchOK, Serving
  <1>4. DispatchAlone(e)
    OBVIOUS
  <1> QED
    BY <1>1, <1>2, <1>3, <1>4 DEF DispatchAlone

LEMMA PatchesMoved ==
  ASSUME PatchOK, NEW p \in Patchers, NEW n,
         patch' = [patch EXCEPT ![p] = n], PatchCurrent(n)',
         \A q \in Patchers \ { p } : \A r : r = patch[q] => PatchCurrent(r)'
  PROVE  (\A q \in Patchers : PatchCurrent(patch[q]))'
  <1> SUFFICES ASSUME NEW q \in Patchers PROVE PatchCurrent(patch[q])'
    OBVIOUS
  <1>1. CASE q = p
    <2>1. patch'[q] = n
      BY <1>1 DEF PatchOK
    <2> QED
      BY <2>1 DEF PatchCurrent
  <1>2. CASE q # p
    <2>1. patch'[q] = patch[q]
      BY <1>2 DEF PatchOK
    <2>2. PICK r : r = patch[q]
      OBVIOUS
    <2>3. PatchCurrent(r)'
      BY <1>2, <2>2
    <2> QED
      BY <2>1, <2>2, <2>3 DEF PatchCurrent
  <1> QED
    BY <1>1, <1>2

LEMMA PatchesApart ==
  ASSUME DispatchOK, PatchOK, \A e \in Dispatchers : DispatchAlone(e),
         NEW p \in Patchers, NEW n,
         patch' = [patch EXCEPT ![p] = n], UNCHANGED dispatch,
         n.shipment \in { NoShipment, patch[p].shipment }
  PROVE  (\A e \in Dispatchers : DispatchAlone(e))'
  <1> SUFFICES ASSUME NEW e \in Dispatchers, dispatch[e].at # "idle",
                      NEW q \in Patchers
               PROVE  patch'[q].shipment # dispatch[e].shipment
    BY DEF DispatchAlone
  <1>1. patch'[p] = n /\ \A r \in Patchers \ { p } : patch'[r] = patch[r]
    BY DEF PatchOK
  <1>2. dispatch[e].shipment # NoShipment
    BY IdsDisjoint DEF DispatchOK, Serving
  <1>3. DispatchAlone(e)
    OBVIOUS
  <1> QED
    BY <1>1, <1>2, <1>3 DEF DispatchAlone

-----------------------------------------------------------------------------
(* The invariant under the three shapes of a step that keeps the columns.    *)

LEMMA OthersStay ==
  ASSUME TypeOK, PriceInv, ColumnsKept, HeldKept
  PROVE  /\ EarlyUnheld' /\ RowsHeld'
         /\ \A e \in Dispatchers : \A r : r = dispatch[e] => DispatchPriced(r)'
         /\ \A q \in Patchers : \A r : r = patch[q] => PatchCurrent(r)'
  <1>1. EarlyUnheld' /\ RowsHeld'
    BY RowsKeptPriced DEF PriceInv
  <1>2. ASSUME NEW e \in Dispatchers, NEW r, r = dispatch[e]
        PROVE  DispatchPriced(r)'
    <2>1. Serving(r) /\ DispatchPriced(r)
      BY <1>2 DEF PriceInv, TypeOK, DispatchOK
    <2> QED
      BY <2>1, DispatchStays
  <1>3. ASSUME NEW q \in Patchers, NEW r, r = patch[q]
        PROVE  PatchCurrent(r)'
    <2>1. Serving(r) /\ PatchCurrent(r)
      BY <1>3 DEF PriceInv, TypeOK, PatchOK
    <2> QED
      BY <2>1, PatchStays
  <1> QED
    BY <1>1, <1>2, <1>3

LEMMA SlotsUnmoved ==
    /\ /\ UNCHANGED dispatch
       /\ \A e \in Dispatchers : \A r : r = dispatch[e] => DispatchPriced(r)'
       => (\A e \in Dispatchers : DispatchPriced(dispatch[e]))'
    /\ /\ UNCHANGED patch
       /\ \A q \in Patchers : \A r : r = patch[q] => PatchCurrent(r)'
       => (\A q \in Patchers : PatchCurrent(patch[q]))'
  <1>1. ASSUME UNCHANGED dispatch, NEW e \in Dispatchers,
               \A r : r = dispatch[e] => DispatchPriced(r)'
        PROVE  DispatchPriced(dispatch[e])'
    <2>1. PICK r : r = dispatch[e]
      OBVIOUS
    <2>2. DispatchPriced(r)'
      BY <1>1, <2>1
    <2> QED
      BY <1>1, <2>1, <2>2 DEF DispatchPriced, Held
  <1>2. ASSUME UNCHANGED patch, NEW q \in Patchers,
               \A r : r = patch[q] => PatchCurrent(r)'
        PROVE  PatchCurrent(patch[q])'
    <2>1. PICK r : r = patch[q]
      OBVIOUS
    <2>2. PatchCurrent(r)'
      BY <1>2, <2>1
    <2> QED
      BY <1>2, <2>1, <2>2 DEF PatchCurrent
  <1> QED
    BY <1>1, <1>2

LEMMA PriceCalm ==
  ASSUME TypeOK, PriceInv, ColumnsKept, HeldKept, UNCHANGED << dispatch, patch >>
  PROVE  PriceInv'
  <1>1. (\A d \in Dispatchers : DispatchAlone(d))'
    BY DEF PriceInv, DispatchAlone
  <1> QED
    BY <1>1, OthersStay, SlotsUnmoved DEF PriceInv

LEMMA PriceDispatchMoves ==
  ASSUME TypeOK, PriceInv, ColumnsKept, HeldKept, UNCHANGED patch,
         NEW d \in Dispatchers, NEW n,
         dispatch' = [dispatch EXCEPT ![d] = n], DispatchPriced(n)',
         \/ n.at = "idle" /\ n.shipment = NoShipment
         \/ dispatch[d].at # "idle" /\ n.shipment = dispatch[d].shipment
  PROVE  PriceInv'
  <1>1. DispatchOK /\ \A e \in Dispatchers : DispatchAlone(e)
    BY DEF TypeOK, PriceInv
  <1>2. (\A e \in Dispatchers : DispatchAlone(e))'
    BY <1>1, DispatchesApart
  <1>3. (\A e \in Dispatchers : DispatchPriced(dispatch[e]))'
    BY <1>1, OthersStay, DispatchesMoved
  <1> QED
    BY <1>2, <1>3, OthersStay, SlotsUnmoved DEF PriceInv

LEMMA PricePatchMoves ==
  ASSUME TypeOK, PriceInv, ColumnsKept, HeldKept, UNCHANGED dispatch,
         NEW p \in Patchers, NEW n,
         patch' = [patch EXCEPT ![p] = n], PatchCurrent(n)',
         n.shipment \in { NoShipment, patch[p].shipment }
  PROVE  PriceInv'
  <1>1. DispatchOK /\ PatchOK /\ \A e \in Dispatchers : DispatchAlone(e)
    BY DEF TypeOK, PriceInv
  <1>2. (\A e \in Dispatchers : DispatchAlone(e))'
    BY <1>1, PatchesApart
  <1>3. (\A q \in Patchers : PatchCurrent(patch[q]))'
    BY <1>1, OthersStay, PatchesMoved
  <1> QED
    BY <1>2, <1>3, OthersStay, SlotsUnmoved DEF PriceInv

-----------------------------------------------------------------------------
(* Every step keeps the invariant.                                           *)

LEMMA IdlePriced == DispatchPriced(IdleDispatch)' /\ PatchCurrent(IdlePatch)'
  BY DEF DispatchPriced, PatchCurrent, IdleDispatch, IdlePatch

LEMMA PriceInit == Init => PriceInv
  <1> SUFFICES ASSUME Init PROVE PriceInv
    OBVIOUS
  <1>1. \A s \in Shipments : shipments[s].intent = NoIntent
    BY DEF Init, StoreInit, NoRow
  <1>2. EarlyUnheld /\ RowsHeld
    BY <1>1 DEF EarlyUnheld, RowsHeld
  <1>3. \A d \in Dispatchers : DispatchAlone(d) /\ DispatchPriced(dispatch[d])
    BY DEF Init, IdleDispatch, DispatchAlone, DispatchPriced
  <1>4. \A p \in Patchers : PatchCurrent(patch[p])
    BY DEF Init, IdlePatch, PatchCurrent
  <1> QED
    BY <1>2, <1>3, <1>4 DEF PriceInv

LEMMA PriceCreate ==
  ASSUME TypeOK, PriceInv,
         (\E c \in Carriers : CreateCarrier(c)) \/ (\E s \in Shipments : CreateShipment(s))
  PROVE  PriceInv'
  <1>1. HeldKept /\ UNCHANGED << dispatch, patch >>
    BY UnchangedHeld DEF CreateCarrier, CreateShipment, slotVars
  <1>2. ASSUME NEW s \in Shipments, CreateShipment(s)
        PROVE  ColumnsKept
    <2>1. /\ shipments[s].status = "absent" /\ shipments'[s].intent = NoIntent
          /\ \A t \in Shipments \ { s } : shipments'[t] = shipments[t]
      BY <1>2 DEF CreateShipment, SaveShipment, ShipmentExists, NoRow, TypeOK,
                  StoreTypeOK
    <2>2. shipments[s].intent = NoIntent
      BY <2>1 DEF PriceInv, EarlyUnheld, Early
    <2> QED
      BY <2>1, <2>2 DEF ColumnsKept, Early
  <1>3. ColumnsKept
    BY <1>2, UnchangedKeeps DEF CreateCarrier, SaveCarrier
  <1> QED
    BY <1>1, <1>3, PriceCalm

LEMMA PriceWork ==
  ASSUME TypeOK, PriceInv, NEW w \in Workers,
         WorkerContinues(w) \/ \E s \in Shipments : WorkerTake(w, s)
  PROVE  PriceInv'
  <1>1. HeldKept /\ UNCHANGED << dispatch, patch >>
    BY UnchangedHeld DEF WorkerContinues, WorkerTake, WorkerMark, WorkerRank,
                         WorkerConclude
  <1>2. /\ work[w] \in WorkSlot
        /\ work[w].at # "idle" => work[w].shipment \in Shipments
        /\ work[w].at = "conclude" => work[w].verdict # ""
    BY DEF TypeOK, WorkOK, Serving
  <1>3. work[w].at = "conclude" => work[w].verdict \in { StatusMatched, StatusNoMatch }
    BY <1>2 DEF WorkSlot
  <1>4. ColumnsKept
    <2>1. CASE WorkerMark(w)
      BY <1>2, <2>1, StatusKeeps, UnchangedKeeps DEF WorkerMark, storeVars, TypeOK
    <2>2. CASE WorkerConclude(w)
      BY <1>2, <1>3, <2>2, StatusKeeps, UnchangedKeeps
      DEF WorkerConclude, storeVars, TypeOK
    <2>3. CASE WorkerRank(w) \/ \E s \in Shipments : WorkerTake(w, s)
      BY <2>3, UnchangedKeeps DEF WorkerRank, WorkerTake, storeVars
    <2> QED
      BY <2>1, <2>2, <2>3 DEF WorkerContinues
  <1> QED
    BY <1>1, <1>4, PriceCalm

\* A dispatch starts alone on its shipment, which has no hold.
LEMMA PriceDispatchStarts ==
  ASSUME TypeOK, PriceInv, Discipline = "requests",
         NEW d \in Dispatchers, NEW s \in Shipments, NEW c \in Carriers,
         NEW price \in Prices, DispatchRead(d, s, c, price)
  PROVE  PriceInv'
  <1> PICK n : n = [IdleDispatch EXCEPT !.at = "book", !.shipment = s,
                                        !.carrier = c, !.price = price]
    OBVIOUS
  <1>1. n.at = "book" /\ n.shipment = s
    BY DEF IdleDispatch
  <1>2. /\ dispatch' = [dispatch EXCEPT ![d] = n]
        /\ UNCHANGED << shipments, intents, patch >>
    BY DEF DispatchRead, storeVars
  <1>3. ColumnsKept /\ HeldKept
    BY <1>2, UnchangedKeeps, UnchangedHeld
  <1>4. shipments[s].status = StatusPending
    BY DEF DispatchRead, ValidateTransition, AllowedTransitions, StatusPending,
           StatusDispatched, StatusInTransit, StatusDelivered, StatusCancelled,
           StatusNoMatch
  <1>5. DispatchPriced(n)'
    BY <1>1, <1>2, <1>4 DEF DispatchPriced, PriceInv, EarlyUnheld, Early
  <1>6. (\A e \in Dispatchers : DispatchPriced(dispatch[e]))'
    BY <1>2, <1>3, <1>5, OthersStay, DispatchesMoved DEF TypeOK
  <1>7. /\ \A e \in Dispatchers : dispatch[e].shipment # s
        /\ \A p \in Patchers : patch[p].shipment # s
    BY DEF DispatchRead, MayRequest, NothingOn, NoPatchOn
  <1>8. dispatch'[d] = n /\ \A e \in Dispatchers \ { d } : dispatch'[e] = dispatch[e]
    BY <1>2 DEF TypeOK, DispatchOK
  <1>9. (\A e \in Dispatchers : DispatchAlone(e))'
    <2> SUFFICES ASSUME NEW e \in Dispatchers, dispatch'[e].at # "idle"
                 PROVE  /\ \A f \in Dispatchers :
                             dispatch'[f].shipment = dispatch'[e].shipment => f = e
                        /\ \A p \in Patchers :
                             patch[p].shipment # dispatch'[e].shipment
      BY <1>2 DEF DispatchAlone
    <2>1. CASE e = d
      BY <1>1, <1>7, <1>8, <2>1
    <2>2. CASE e # d
      <3>1. dispatch'[e] = dispatch[e]
        BY <1>8, <2>2
      <3>2. /\ \A f \in Dispatchers :
                  dispatch[f].shipment = dispatch[e].shipment => f = e
            /\ \A p \in Patchers : patch[p].shipment # dispatch[e].shipment
        BY <3>1 DEF PriceInv, DispatchAlone
      <3>3. dispatch'[d].shipment # dispatch[e].shipment
        BY <1>1, <1>7, <1>8
      <3> QED
        BY <1>8, <3>1, <3>2, <3>3
    <2> QED
      BY <2>1, <2>2
  <1> QED
    BY <1>2, <1>3, <1>6, <1>9, OthersStay, SlotsUnmoved DEF PriceInv

LEMMA PricePatchStarts ==
  ASSUME TypeOK, PriceInv, Discipline = "requests",
         NEW p \in Patchers, NEW s \in Shipments, NEW target, PatchRead(p, s, target)
  PROVE  PriceInv'
  <1> PICK n : n = [IdlePatch EXCEPT !.at = "write", !.shipment = s,
                                     !.target = target,
                                     !.carrier = shipments[s].carrier,
                                     !.intent = shipments[s].intent]
    OBVIOUS
  <1>1. n.at = "write" /\ n.shipment = s /\ n.intent = shipments[s].intent
    BY DEF IdlePatch
  <1>2. /\ patch' = [patch EXCEPT ![p] = n]
        /\ UNCHANGED << shipments, intents, dispatch >>
    BY DEF PatchRead, storeVars
  <1>3. ColumnsKept /\ HeldKept
    BY <1>2, UnchangedKeeps, UnchangedHeld
  <1>4. PatchCurrent(n)'
    BY <1>1, <1>2 DEF PatchCurrent
  <1>5. (\A q \in Patchers : PatchCurrent(patch[q]))'
    BY <1>2, <1>3, <1>4, OthersStay, PatchesMoved DEF TypeOK
  <1>6. \A e \in Dispatchers : dispatch[e].shipment # s
    BY DEF PatchRead, MayPatch, MayRequest, NothingOn
  <1>7. patch'[p] = n /\ \A q \in Patchers \ { p } : patch'[q] = patch[q]
    BY <1>2 DEF TypeOK, PatchOK
  <1>8. (\A e \in Dispatchers : DispatchAlone(e))'
    BY <1>1, <1>2, <1>6, <1>7 DEF PriceInv, DispatchAlone
  <1> QED
    BY <1>2, <1>3, <1>5, <1>8, OthersStay, SlotsUnmoved DEF PriceInv

\* The booking writes the price on a row without a hold, and leaves as much.
LEMMA PriceBook ==
  ASSUME TypeOK, PriceInv, NEW d \in Dispatchers, DispatchBook(d)
  PROVE  PriceInv'
  <1> PICK r : r = dispatch[d]
    OBVIOUS
  <1>1. /\ r \in DispatchSlot /\ r.at = "book" /\ r.shipment \in Shipments
        /\ shipments[r.shipment] \in ShipmentRow
        /\ shipments[r.shipment].intent = NoIntent
    BY DEF DispatchBook, TypeOK, DispatchOK, StoreTypeOK, Serving, PriceInv,
           DispatchPriced
  <1>2. HeldKept /\ UNCHANGED << intents, patch >>
    BY UnchangedHeld DEF DispatchBook
  <1> DEFINE row == [shipments[r.shipment] EXCEPT !.carrier = r.carrier,
                                                  !.price = r.price,
                                                  !.status = StatusDispatched]
  <1>3. /\ row.intent = NoIntent /\ row.price = r.price
        /\ row.status = StatusDispatched
    BY <1>1 DEF ShipmentRow
  <1>4. /\ shipments'[r.shipment] = row
        /\ \A t \in Shipments \ { r.shipment } : shipments'[t] = shipments[t]
    BY <1>1 DEF DispatchBook, Dispatch, TypeOK, StoreTypeOK
  <1>5. /\ shipments'[r.shipment].intent = NoIntent
        /\ shipments'[r.shipment].price = r.price
        /\ shipments'[r.shipment].status \notin Early
    BY <1>3, <1>4, LateStatuses
    DEF NextStatuses, Statuses, StatusDispatched, StatusPending
  <1> HIDE DEF row
  <1>6. EarlyUnheld'
    BY <1>4, <1>5 DEF PriceInv, EarlyUnheld
  <1>7. RowsHeld'
    BY <1>2, <1>4, <1>5 DEF PriceInv, RowsHeld, Held
  <1>8. \A q \in Patchers : \A n : n = patch[q] => PatchCurrent(n)'
    <2> SUFFICES ASSUME NEW q \in Patchers, patch[q].at # "idle"
                 PROVE  patch[q].intent = shipments'[patch[q].shipment].intent
      BY DEF PatchCurrent
    <2>1. patch[q].shipment \in Shipments
      BY DEF TypeOK, PatchOK, Serving
    <2> QED
      BY <1>1, <1>4, <1>5, <2>1 DEF PriceInv, PatchCurrent
  <1>9. \A e \in Dispatchers \ { d } : \A n : n = dispatch[e] => DispatchPriced(n)'
    <2> SUFFICES ASSUME NEW e \in Dispatchers \ { d }, NEW n, n = dispatch[e],
                        n.at # "idle"
                 PROVE  DispatchPriced(n)'
      BY DEF DispatchPriced
    <2>1. n.shipment \in Shipments /\ n.shipment # r.shipment
      BY <1>1 DEF TypeOK, DispatchOK, Serving, PriceInv, DispatchAlone
    <2>2. shipments'[n.shipment] = shipments[n.shipment]
      BY <1>4, <2>1
    <2>3. DispatchPriced(n)
      BY DEF PriceInv
    <2> QED
      BY <1>2, <2>2, <2>3 DEF DispatchPriced, Held
  <1>10. ASSUME NEW n, dispatch' = [dispatch EXCEPT ![d] = n], DispatchPriced(n)',
                \/ n.at = "idle" /\ n.shipment = NoShipment
                \/ n.shipment = r.shipment
         PROVE  PriceInv'
    <2>1. (\A e \in Dispatchers : DispatchPriced(dispatch[e]))'
      BY <1>9, <1>10, DispatchesMoved DEF TypeOK
    <2>2. (\A e \in Dispatchers : DispatchAlone(e))'
      BY <1>1, <1>2, <1>10, DispatchesApart DEF TypeOK, PriceInv
    <2> QED
      BY <1>2, <1>6, <1>7, <1>8, <2>1, <2>2, SlotsUnmoved DEF PriceInv
  <1>11. PICK n : n = [r EXCEPT !.at = "authorize"]
    OBVIOUS
  <1>12. n.at = "authorize" /\ n.shipment = r.shipment /\ n.price = r.price
    BY <1>1, <1>11 DEF DispatchSlot
  <1>13. DispatchPriced(n)'
    BY <1>5, <1>12 DEF DispatchPriced
  <1>14. IdleDispatch.at = "idle" /\ IdleDispatch.shipment = NoShipment
    BY DEF IdleDispatch
  <1>15. \/ dispatch' = [dispatch EXCEPT ![d] = n]
         \/ dispatch' = [dispatch EXCEPT ![d] = IdleDispatch]
    BY <1>11 DEF DispatchBook
  <1> QED
    BY <1>10, <1>12, <1>13, <1>14, <1>15, IdlePriced

\* What is recorded is the hold of a dispatch for the row's own price.
LEMMA PriceRecord ==
  ASSUME TypeOK, PriceInv, NEW d \in Dispatchers, DispatchRecord(d)
  PROVE  PriceInv'
  <1> PICK r : r = dispatch[d]
    OBVIOUS
  <1>1. /\ r.at = "record" /\ r.shipment \in Shipments
        /\ shipments[r.shipment] \in ShipmentRow
        /\ shipments[r.shipment].status # "absent"
    BY DEF DispatchRecord, TypeOK, DispatchOK, StoreTypeOK, Serving, ShipmentExists
  <1>2. /\ shipments[r.shipment].intent = NoIntent
        /\ shipments[r.shipment].price = r.price
        /\ Held(r.intent, r.price)
    BY <1>1 DEF PriceInv, DispatchPriced
  <1>3. /\ HeldKept /\ UNCHANGED << intents, patch >>
        /\ dispatch' = [dispatch EXCEPT ![d] = IdleDispatch]
    BY UnchangedHeld DEF DispatchRecord
  <1>4. IdleDispatch.at = "idle" /\ IdleDispatch.shipment = NoShipment
    BY DEF IdleDispatch
  <1>5. CASE UNCHANGED storeVars
    BY <1>3, <1>4, <1>5, UnchangedKeeps, IdlePriced, PriceDispatchMoves DEF storeVars
  <1>6. CASE UpdateShipmentPayment(r.shipment, r.intent, "requires_capture")
    <2> DEFINE row == [shipments[r.shipment] EXCEPT !.intent = r.intent,
                                                    !.paid = "requires_capture"]
    <2>1. /\ row.intent = r.intent /\ row.price = r.price
          /\ row.status = shipments[r.shipment].status
      BY <1>1, <1>2 DEF ShipmentRow
    <2>2. /\ shipments'[r.shipment] = row
          /\ \A t \in Shipments \ { r.shipment } : shipments'[t] = shipments[t]
      BY <1>1, <1>6 DEF UpdateShipmentPayment, TypeOK, StoreTypeOK
    <2> HIDE DEF row
    <2>3. shipments[r.shipment].status \notin Early
      BY <1>1 DEF PriceInv, DispatchPriced
    <2>4. EarlyUnheld'
      BY <2>1, <2>2, <2>3 DEF PriceInv, EarlyUnheld
    <2>5. RowsHeld'
      BY <1>2, <1>3, <2>1, <2>2 DEF PriceInv, RowsHeld, Held
    <2>6. DispatchAlone(d)
      BY DEF PriceInv
    <2>7. \A q \in Patchers : \A n : n = patch[q] => PatchCurrent(n)'
      <3> SUFFICES ASSUME NEW q \in Patchers, patch[q].at # "idle"
                   PROVE  patch[q].intent = shipments'[patch[q].shipment].intent
        BY DEF PatchCurrent
      <3>1. patch[q].shipment \in Shipments /\ patch[q].shipment # r.shipment
        BY <1>1, <2>6 DEF TypeOK, PatchOK, Serving, DispatchAlone
      <3> QED
        BY <2>2, <3>1 DEF PriceInv, PatchCurrent
    <2>8. \A e \in Dispatchers \ { d } : \A n : n = dispatch[e] => DispatchPriced(n)'
      <3> SUFFICES ASSUME NEW e \in Dispatchers \ { d }, NEW n, n = dispatch[e],
                          n.at # "idle"
                   PROVE  DispatchPriced(n)'
        BY DEF DispatchPriced
      <3>1. n.shipment \in Shipments /\ n.shipment # r.shipment
        BY <1>1, <2>6 DEF TypeOK, DispatchOK, Serving, DispatchAlone
      <3>2. shipments'[n.shipment] = shipments[n.shipment]
        BY <2>2, <3>1
      <3>3. DispatchPriced(n)
        BY DEF PriceInv
      <3> QED
        BY <1>3, <3>2, <3>3 DEF DispatchPriced, Held
    <2>9. (\A e \in Dispatchers : DispatchPriced(dispatch[e]))'
      BY <1>3, <2>8, IdlePriced, DispatchesMoved DEF TypeOK
    <2>10. (\A e \in Dispatchers : DispatchAlone(e))'
      BY <1>3, <1>4, DispatchesApart DEF TypeOK, PriceInv
    <2> QED
      BY <1>3, <2>4, <2>5, <2>7, <2>9, <2>10, SlotsUnmoved DEF PriceInv
  <1> QED
    BY <1>5, <1>6 DEF DispatchRecord

LEMMA PriceDispatch ==
  ASSUME TypeOK, PriceInv, NEW d \in Dispatchers, DispatchContinues(d)
  PROVE  PriceInv'
  <1> PICK r : r = dispatch[d]
    OBVIOUS
  <1>1. r \in DispatchSlot /\ Serving(r) /\ DispatchPriced(r)
    BY DEF TypeOK, DispatchOK, PriceInv
  <1>2. IdleDispatch.at = "idle" /\ IdleDispatch.shipment = NoShipment
    BY DEF IdleDispatch
  <1>3. CASE DispatchRefused(d) \/ DispatchUnauthorized(d)
    BY <1>2, <1>3, UnchangedKeeps, UnchangedHeld, IdlePriced, PriceDispatchMoves
    DEF DispatchRefused, DispatchUnauthorized, storeVars
  <1>4. CASE DispatchAuthorize(d)
    <2>1. r.at = "authorize" /\ UNCHANGED << shipments, patch >>
      BY <1>4 DEF DispatchAuthorize, storeVars
    <2>2. PICK i \in Intents :
             /\ AuthorizePayment(i, r.shipment, AmountCents(r.price))
             /\ \/ dispatch' = [dispatch EXCEPT ![d] =
                                  [r EXCEPT !.at = "record", !.intent = i]]
                \/ dispatch' = [dispatch EXCEPT ![d] = IdleDispatch]
      BY <1>4 DEF DispatchAuthorize
    <2>3. PICK n : n = [r EXCEPT !.at = "record", !.intent = i]
      OBVIOUS
    <2>4. /\ n.at = "record" /\ n.intent = i
          /\ n.shipment = r.shipment /\ n.price = r.price
      BY <1>1, <2>3 DEF DispatchSlot
    <2>5. /\ HeldKept
          /\ intents'[i].state # "unused" /\ intents'[i].amount = AmountCents(r.price)
      BY <2>2 DEF TypeOK, StripeTypeOK, AuthorizePayment, HeldKept
    <2>6. DispatchPriced(n)'
      BY <1>1, <2>1, <2>4, <2>5 DEF DispatchPriced, Held
    <2>7. ColumnsKept
      BY <2>1, UnchangedKeeps
    <2>8. CASE dispatch' = [dispatch EXCEPT ![d] = n]
      BY <2>1, <2>4, <2>5, <2>6, <2>7, <2>8, PriceDispatchMoves
    <2>9. CASE dispatch' = [dispatch EXCEPT ![d] = IdleDispatch]
      BY <1>2, <2>1, <2>5, <2>7, <2>9, IdlePriced, PriceDispatchMoves
    <2> QED
      BY <2>2, <2>3, <2>8, <2>9
  <1> QED
    BY <1>3, <1>4, PriceBook, PriceRecord DEF DispatchContinues

LEMMA PricePatch ==
  ASSUME TypeOK, PriceInv, NEW p \in Patchers, PatchContinues(p)
  PROVE  PriceInv'
  <1> PICK r : r = patch[p]
    OBVIOUS
  <1>1. /\ r \in PatchSlot /\ Serving(r) /\ PatchCurrent(r)
        /\ r.at # "idle" => r.target \in NextStatuses
    BY DEF TypeOK, PatchOK, PriceInv
  <1>2. r.at # "idle" /\ UNCHANGED dispatch
    BY DEF PatchContinues, PatchWrite, PatchSettle, PatchUnsettled, PatchRecord,
           PatchRelease
  <1>3. /\ r.shipment \in Shipments /\ r.intent = shipments[r.shipment].intent
        /\ shipments[r.shipment] \in ShipmentRow
    BY <1>1, <1>2 DEF Serving, PatchCurrent, TypeOK, StoreTypeOK
  <1>4. HeldKept
    <2>1. CASE PatchSettle(p)
      BY <2>1 DEF PatchSettle, CapturePayment, CancelPayment, HeldKept, TypeOK,
                  StripeTypeOK
    <2>2. CASE ~PatchSettle(p)
      BY <2>2, UnchangedHeld
      DEF PatchContinues, PatchWrite, PatchUnsettled, PatchRecord, PatchRelease
    <2> QED
      BY <2>1, <2>2
  <1>5. ColumnsKept
    <2>1. CASE PatchWrite(p)
      BY <1>1, <1>2, <1>3, <2>1, StatusKeeps, UnchangedKeeps
      DEF PatchWrite, storeVars, TypeOK
    <2>2. CASE PatchRecord(p)
      <3>1. CASE UNCHANGED storeVars
        BY <3>1, UnchangedKeeps DEF storeVars
      <3>2. CASE UpdateShipmentPayment(r.shipment, r.intent, r.result)
        <4> DEFINE row == [shipments[r.shipment] EXCEPT !.intent = r.intent,
                                                        !.paid = r.result]
        <4>1. /\ row.intent = shipments[r.shipment].intent
              /\ row.price = shipments[r.shipment].price
              /\ row.status = shipments[r.shipment].status
          BY <1>3 DEF ShipmentRow
        <4>2. /\ shipments'[r.shipment] = row
              /\ \A t \in Shipments \ { r.shipment } : shipments'[t] = shipments[t]
          BY <1>3, <3>2 DEF UpdateShipmentPayment, TypeOK, StoreTypeOK
        <4> QED
          BY <4>1, <4>2 DEF ColumnsKept
      <3> QED
        BY <2>2, <3>1, <3>2 DEF PatchRecord
    <2>3. CASE PatchSettle(p) \/ PatchUnsettled(p) \/ PatchRelease(p)
      BY <2>3, UnchangedKeeps
      DEF PatchSettle, PatchUnsettled, PatchRelease, ReleaseCarrier, storeVars
    <2> QED
      BY <2>1, <2>2, <2>3 DEF PatchContinues
  <1>6. IdlePatch.shipment = NoShipment
    BY DEF IdlePatch
  <1>7. ASSUME NEW n, patch' = [patch EXCEPT ![p] = n],
               \/ n = IdlePatch
               \/ n.shipment = r.shipment /\ n.intent = r.intent
        PROVE  PriceInv'
    <2>1. PatchCurrent(n)'
      BY <1>3, <1>5, <1>7, IdlePriced DEF PatchCurrent, ColumnsKept
    <2> QED
      BY <1>2, <1>4, <1>5, <1>6, <1>7, <2>1, PricePatchMoves
  <1>8. ASSUME NEW at, NEW result
        PROVE  LET n == [r EXCEPT !.at = at, !.result = result]
                   m == [r EXCEPT !.at = at]
               IN /\ n.shipment = r.shipment /\ n.intent = r.intent
                  /\ m.shipment = r.shipment /\ m.intent = r.intent
    BY <1>1 DEF PatchSlot
  <1>9. PICK rel, set :
           rel = [r EXCEPT !.at = "release"] /\ set = [r EXCEPT !.at = "settle"]
    OBVIOUS
  <1>10. /\ rel.shipment = r.shipment /\ rel.intent = r.intent
         /\ set.shipment = r.shipment /\ set.intent = r.intent
    BY <1>8, <1>9
  <1>11. /\ AfterSettle(r) \in { rel, IdlePatch }
         /\ AfterWrite(r) \in { set, rel, IdlePatch }
    BY <1>9 DEF AfterSettle, AfterWrite
  <1>12. \E n : /\ patch' = [patch EXCEPT ![p] = n]
                /\ \/ n = IdlePatch
                   \/ n.shipment = r.shipment /\ n.intent = r.intent
    <2>1. CASE PatchSettle(p)
      <3>1. PICK result : \/ patch' = [patch EXCEPT ![p] = [r EXCEPT !.at = "record",
                                                                   !.result = result]]
                          \/ patch' = [patch EXCEPT ![p] = AfterSettle(r)]
        BY <2>1 DEF PatchSettle
      <3>2. PICK n : n = [r EXCEPT !.at = "record", !.result = result]
        OBVIOUS
      <3>3. n.shipment = r.shipment /\ n.intent = r.intent
        BY <1>8, <3>2
      <3>4. CASE patch' = [patch EXCEPT ![p] = n]
        BY <3>3, <3>4
      <3>5. CASE patch' = [patch EXCEPT ![p] = AfterSettle(r)]
        BY <1>10, <1>11, <3>5
      <3> QED
        BY <3>1, <3>2, <3>4, <3>5
    <2>2. CASE PatchWrite(p)
      BY <1>10, <1>11, <2>2 DEF PatchWrite
    <2>3. CASE PatchUnsettled(p) \/ PatchRecord(p) \/ PatchRelease(p)
      BY <1>10, <1>11, <2>3 DEF PatchUnsettled, PatchRecord, PatchRelease
    <2> QED
      BY <2>1, <2>2, <2>3 DEF PatchContinues
  <1> QED
    BY <1>7, <1>12

LEMMA PriceCrash ==
  ASSUME TypeOK, PriceInv, Crash
  PROVE  PriceInv'
  <1>1. ColumnsKept /\ HeldKept
    BY UnchangedKeeps, UnchangedHeld DEF Crash, storeVars
  <1>2. (\A d \in Dispatchers : DispatchAlone(d) /\ DispatchPriced(dispatch[d]))'
    BY DEF Crash, IdleDispatch, DispatchAlone, DispatchPriced
  <1>3. (\A p \in Patchers : PatchCurrent(patch[p]))'
    BY DEF Crash, IdlePatch, PatchCurrent
  <1> QED
    BY <1>1, <1>2, <1>3, OthersStay DEF PriceInv

LEMMA PriceStep ==
  ASSUME Discipline = "requests", TypeOK, PriceInv, [Next]_vars
  PROVE  PriceInv'
  <1>1. CASE UNCHANGED vars
    BY <1>1, UnchangedKeeps, UnchangedHeld, PriceCalm DEF vars
  <1> QED
    BY <1>1, PriceCreate, PriceDispatchStarts, PriceDispatch, PricePatchStarts,
       PricePatch, PriceWork, PriceCrash
    DEF Next

\* Of a row that has one, the hold is for the price on the row.
LEMMA PriceInvMatches == TypeOK /\ PriceInv => HoldMatchesPrice
  <1> SUFFICES ASSUME TypeOK, PriceInv, NEW s \in Shipments,
                      shipments[s].intent # NoIntent
               PROVE  10 * intents[shipments[s].intent].amount - shipments[s].price
                        \in -5 .. 5
    BY DEF HoldMatchesPrice
  <1>1. shipments[s].price \in Int
    <2>1. shipments[s] \in ShipmentRow
      BY DEF TypeOK, StoreTypeOK
    <2>2. shipments[s].price \in Prices \cup { 0 }
      BY <2>1 DEF ShipmentRow
    <2>3. ASSUME NEW x \in Prices \cup { 0 } PROVE x \in Int
      BY PricesAreAmounts
    <2> QED
      BY <2>2, <2>3
  <1>2. intents[shipments[s].intent].amount = AmountCents(shipments[s].price)
    BY DEF PriceInv, RowsHeld, Held
  <1> QED
    BY <1>1, <1>2, AmountCentsRounds

\* When clients have one request in flight per shipment, the hold recorded on a
\* row is for the price agreed on it, to the cent, whatever fails or crashes
\* (handlers.go:227-240, payment.go:109).
THEOREM HoldMatchesPriceCorrect ==
  ASSUME Discipline = "requests"
  PROVE  Spec => []HoldMatchesPrice
  <1>1. TypeOK /\ PriceInv /\ [Next]_vars => PriceInv'
    BY PriceStep
  <1> QED
    BY <1>1, TypeInit, TypeStep, PriceInit, PriceInvMatches, PTL DEF Spec

=============================================================================
