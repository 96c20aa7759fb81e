----------------------- MODULE CarrierMatchLifecycle -----------------------
(***************************************************************************)
(* The life of a shipment: proofs, for every instance, that the service    *)
(* implements Lifecycle when clients have one request in flight per        *)
(* shipment, and that a shipment which has left "pending" without a        *)
(* carrier never gets one, whatever they do.                               *)
(*                                                                         *)
(* A handler acts on what it has read, several calls later.  The           *)
(* refinement holds because what it read is still so: the status it has    *)
(* checked is the row's until it writes, the carrier it has read is the    *)
(* row's until it is released, and the hold it settles is the only one of  *)
(* the shipment.  FitInv says that much; that the carrier it releases is   *)
(* on no other load is BookingInv, that the hold is the shipment's own is  *)
(* LedgerInv, and that a dispatch is alone is part of PriceInv.            *)
(***************************************************************************)
EXTENDS CarrierMatchBooking, CarrierMatchPayments

-----------------------------------------------------------------------------
(* Stranded shipments.  The argument is one step long once types are known:  *)
(* a dispatch passes its status check only on a "pending" row, nobody writes *)
(* "pending" over an existing row, and only a dispatch past its check        *)
(* assigns a carrier.                                                        *)

\* Shipment s is past "pending" and has no carrier.
Bare(s) == /\ shipments[s].carrier = NoCarrier
           /\ shipments[s].status \notin { "absent", StatusPending }

\* No dispatch past its status check is about to give s one.
NotServed(s) == \A d \in Dispatchers : dispatch[d].shipment # s

\* No status a handler or a worker writes is "pending" or "absent".
LEMMA NeverPendingAgain ==
    /\ \A status \in NextStatuses : status \notin { "absent", StatusPending }
    /\ { StatusMatching, StatusMatched, StatusNoMatch }
          \cap { "absent", StatusPending } = {}
  BY DEF NextStatuses, Statuses, StatusPending, StatusDispatched,
         StatusInTransit, StatusDelivered, StatusCancelled, StatusNoMatch,
         StatusMatching, StatusMatched

\* A dispatch can start only on a shipment that is "pending".
LEMMA DispatchFromPending ==
  ASSUME NEW status, ValidateTransition(status, StatusDispatched)
  PROVE  status = StatusPending
  BY DEF ValidateTransition, AllowedTransitions, StatusPending,
         StatusDispatched, StatusInTransit, StatusDelivered, StatusCancelled,
         StatusNoMatch

\* The store's writes other than a dispatch of s leave s bare.
LEMMA BareKept ==
  ASSUME StoreTypeOK, NEW s \in Shipments, Bare(s),
         \/ UNCHANGED shipments
         \/ \E t \in Shipments : SaveShipment(t)
         \/ \E t \in Shipments, status \in NextStatuses
                                  \cup { StatusMatching, StatusMatched } :
               UpdateShipmentStatus(t, status)
         \/ \E t \in Shipments \ { s } : \E c, price : Dispatch(t, c, price)
         \/ \E t \in Shipments : \E intent, paid :
               UpdateShipmentPayment(t, intent, paid)
  PROVE  Bare(s)'
  <1>1. shipments[s] \in ShipmentRow
    BY DEF StoreTypeOK
  <1>2. ASSUME NEW t \in Shipments \ { s }, NEW row,
               shipments' = [shipments EXCEPT ![t] = row]
        PROVE  Bare(s)'
    BY <1>2 DEF Bare, StoreTypeOK
  <1>3. ASSUME NEW row, row.carrier = shipments[s].carrier,
               row.status \notin { "absent", StatusPending },
               shipments' = [shipments EXCEPT ![s] = row]
        PROVE  Bare(s)'
    BY <1>3 DEF Bare, StoreTypeOK
  <1>4. CASE UNCHANGED shipments
    BY <1>4 DEF Bare
  <1>5. ASSUME NEW t \in Shipments, SaveShipment(t)
        PROVE  Bare(s)'
    <2>1. t # s
      BY <1>5 DEF SaveShipment, ShipmentExists, Bare
    <2> QED
      BY <1>2, <1>5, <2>1 DEF SaveShipment
  <1>6. ASSUME NEW t \in Shipments,
               NEW status \in NextStatuses \cup { StatusMatching, StatusMatched },
               UpdateShipmentStatus(t, status)
        PROVE  Bare(s)'
    <2> DEFINE row == [shipments[t] EXCEPT !.status = status]
    <2>1. shipments' = [shipments EXCEPT ![t] = row]
      BY <1>6 DEF UpdateShipmentStatus
    <2>2. CASE t = s
      <3>1. /\ row.carrier = shipments[s].carrier
            /\ row.status \notin { "absent", StatusPending }
        BY <1>1, <2>2, NeverPendingAgain DEF ShipmentRow
      <3> HIDE DEF row
      <3> QED
        BY <1>3, <2>1, <2>2, <3>1
    <2>3. CASE t # s
      BY <1>2, <2>1, <2>3
    <2> QED
      BY <2>2, <2>3
  <1>7. ASSUME NEW t \in Shipments \ { s }, NEW c, NEW price, Dispatch(t, c, price)
        PROVE  Bare(s)'
    BY <1>2, <1>7 DEF Dispatch
  <1>8. ASSUME NEW t \in Shipments, NEW intent, NEW paid,
               UpdateShipmentPayment(t, intent, paid)
        PROVE  Bare(s)'
    <2> DEFINE row == [shipments[t] EXCEPT !.intent = intent, !.paid = paid]
    <2>1. shipments' = [shipments EXCEPT ![t] = row]
      BY <1>8 DEF UpdateShipmentPayment
    <2>2. CASE t = s
      <3>1. /\ row.carrier = shipments[s].carrier
            /\ row.status \notin { "absent", StatusPending }
        BY <1>1, <2>2 DEF ShipmentRow, Bare
      <3> HIDE DEF row
      <3> QED
        BY <1>3, <2>1, <2>2, <3>1
    <2>3. CASE t # s
      BY <1>2, <2>1, <2>3
    <2> QED
      BY <2>2, <2>3
  <1> QED
    BY <1>4, <1>5, <1>6, <1>7, <1>8

-----------------------------------------------------------------------------

\* The slots of a dispatch that starts on another shipment, goes on or ends.
LEMMA NotServedMoved ==
  ASSUME DispatchOK, NEW s \in Shipments, NotServed(s), NEW d \in Dispatchers,
         NEW r, r.shipment # s, dispatch' = [dispatch EXCEPT ![d] = r]
  PROVE  NotServed(s)'
  BY DEF DispatchOK, NotServed

\* One step of a handler or a worker keeps a stranded shipment stranded.
LEMMA StrandedDispatch ==
  ASSUME TypeOK, NEW s \in Shipments, Stranded(s),
         NEW d \in Dispatchers, DispatchContinues(d)
  PROVE  Stranded(s)'
  <1> PICK r : r = dispatch[d]
    OBVIOUS
  <1>1. /\ r \in DispatchSlot /\ r.shipment \in Shipments \ { s }
        /\ IdleDispatch.shipment # s
    BY IdsDisjoint
    DEF TypeOK, DispatchOK, Serving, Stranded, DispatchContinues, DispatchBook,
        DispatchRefused, DispatchAuthorize, DispatchUnauthorized,
        DispatchRecord, IdleDispatch
  <1>2. Bare(s)'
    <2>1. \/ UNCHANGED shipments
          \/ Dispatch(r.shipment, r.carrier, r.price)
          \/ UpdateShipmentPayment(r.shipment, r.intent, "requires_capture")
      BY DEF DispatchContinues, DispatchBook, DispatchRefused,
             DispatchAuthorize, DispatchUnauthorized, DispatchRecord, storeVars
    <2> QED
      BY <1>1, <2>1, BareKept DEF TypeOK, Stranded, Bare
  <1>3. NotServed(s)'
    <2>1. \E n : n.shipment # s /\ dispatch' = [dispatch EXCEPT ![d] = n]
      <3>1. \A i : [r EXCEPT !.at = "record", !.intent = i].shipment # s
        BY <1>1 DEF DispatchSlot
      <3>2. [r EXCEPT !.at = "authorize"].shipment # s
        BY <1>1 DEF DispatchSlot
      <3> QED
        BY <1>1, <3>1, <3>2
        DEF DispatchContinues, DispatchBook, DispatchRefused,
            DispatchAuthorize, DispatchUnauthorized, DispatchRecord
    <2> QED
      BY <2>1, NotServedMoved DEF TypeOK, Stranded, NotServed
  <1> QED
    BY <1>2, <1>3 DEF Stranded, Bare, NotServed

LEMMA StrandedPatch ==
  ASSUME TypeOK, NEW s \in Shipments, Stranded(s),
         NEW p \in Patchers, PatchContinues(p)
  PROVE  Stranded(s)'
  <1> PICK r : r = patch[p]
    OBVIOUS
  <1>1. r.shipment \in Shipments /\ r.target \in NextStatuses
    BY DEF TypeOK, PatchOK, Serving, PatchContinues, PatchWrite, PatchSettle,
           PatchUnsettled, PatchRecord, PatchRelease
  <1>2. /\ \/ UNCHANGED shipments
           \/ UpdateShipmentStatus(r.shipment, r.target)
           \/ UpdateShipmentPayment(r.shipment, r.intent, r.result)
        /\ UNCHANGED dispatch
    BY DEF PatchContinues, PatchWrite, PatchSettle, PatchUnsettled,
           PatchRecord, PatchRelease, ReleaseCarrier, storeVars
  <1>3. Bare(s)'
    BY <1>1, <1>2, BareKept DEF TypeOK, Stranded, Bare
  <1> QED
    BY <1>2, <1>3 DEF Stranded, Bare

LEMMA StrandedWork ==
  ASSUME TypeOK, NEW s \in Shipments, Stranded(s),
         NEW w \in Workers, WorkerContinues(w)
  PROVE  Stranded(s)'
  <1> PICK r : r = work[w]
    OBVIOUS
  <1>1. /\ r.shipment \in Shipments
        /\ r.at = "conclude" => r.verdict \in { StatusMatched, StatusNoMatch }
    BY DEF TypeOK, WorkOK, WorkSlot, Serving, WorkerContinues, WorkerMark,
           WorkerRank, WorkerConclude
  <1>2. StatusNoMatch \in NextStatuses
    BY DEF NextStatuses, Statuses, StatusPending, StatusNoMatch
  <1>3. /\ \/ UNCHANGED shipments
           \/ UpdateShipmentStatus(r.shipment, StatusMatching)
           \/ r.at = "conclude" /\ UpdateShipmentStatus(r.shipment, r.verdict)
        /\ UNCHANGED dispatch
    BY DEF WorkerContinues, WorkerMark, WorkerRank, WorkerConclude, storeVars
  <1>4. Bare(s)'
    BY <1>1, <1>2, <1>3, BareKept DEF TypeOK, Stranded, Bare
  <1> QED
    BY <1>3, <1>4 DEF Stranded, Bare

\* A request that starts, a row that is created, a crash.
LEMMA StrandedStart ==
  ASSUME TypeOK, NEW s \in Shipments, Stranded(s),
         NEW d \in Dispatchers, NEW t \in Shipments, NEW c \in Carriers,
         NEW price \in Prices, DispatchRead(d, t, c, price)
  PROVE  Stranded(s)'
  <1>1. t # s
    BY DispatchFromPending DEF DispatchRead, Stranded
  <1> DEFINE next == [IdleDispatch EXCEPT !.at = "book", !.shipment = t,
                                          !.carrier = c, !.price = price]
  <1>2. next.shipment # s
    BY <1>1 DEF IdleDispatch
  <1>3. NotServed(s)'
    BY <1>2, NotServedMoved DEF DispatchRead, TypeOK, Stranded, NotServed
  <1> QED
    BY <1>3 DEF DispatchRead, Stranded, NotServed, storeVars

LEMMA StrandedOtherwise ==
  ASSUME TypeOK, NEW s \in Shipments, Stranded(s),
         \/ \E c \in Carriers : CreateCarrier(c)
         \/ \E t \in Shipments : CreateShipment(t)
         \/ \E p \in Patchers, t \in Shipments, target \in ClientStatuses :
               PatchRead(p, t, target)
         \/ \E w \in Workers, t \in Shipments : WorkerTake(w, t)
         \/ Crash
         \/ UNCHANGED vars
  PROVE  Stranded(s)'
  <1>1. Bare(s)'
    BY BareKept
    DEF CreateCarrier, SaveCarrier, CreateShipment, PatchRead, WorkerTake,
        Crash, vars, storeVars, TypeOK, Stranded, Bare
  <1>2. CASE Crash
    BY <1>1, <1>2, IdsDisjoint DEF Crash, Stranded, Bare, IdleDispatch
  <1>3. CASE UNCHANGED dispatch
    BY <1>1, <1>3 DEF Stranded, Bare
  <1> QED
    BY <1>2, <1>3
    DEF CreateCarrier, CreateShipment, PatchRead, WorkerTake, vars, slotVars

LEMMA StrandedStep ==
  ASSUME TypeOK, [Next]_vars, NEW s \in Shipments, Stranded(s)
  PROVE  Stranded(s)'
  BY StrandedDispatch, StrandedPatch, StrandedWork, StrandedStart,
     StrandedOtherwise
  DEF Next

\* A shipment that was screened, or PATCHed, before it was dispatched is lost to
\* dispatching for good: no interleaving, fault or crash brings it back.
THEOREM StrandedCorrect == Spec => StrandedForGood
  <1>1. TypeOK /\ [Next]_vars => [\A s \in Shipments : Stranded(s) => Stranded(s)']_vars
    BY StrandedStep
  <1> QED
    BY <1>1, TypeCorrect, PTL DEF Spec, StrandedForGood

-----------------------------------------------------------------------------
(* What the refinement rests on.                                             *)

\* Stripe has an intent for shipment s.
Owned(s) == \E i \in Intents : intents[i].shipment = s

UnusedUnowned == \A i \in Intents :
    intents[i].state = "unused" <=> intents[i].shipment = NoShipment

OneHoldEach == \A i, j \in Intents :
    intents[i].shipment = intents[j].shipment /\ intents[i].shipment # NoShipment
        => i = j

\* A shipment that can still be dispatched has no hold at Stripe either.
EarlyUnowned == \A s \in Shipments : shipments[s].status \in Early => ~Owned(s)

\* A match job shares its shipment with no dispatch and with no PATCH.
WorkAlone == \A w \in Workers : work[w].at # "idle" =>
    /\ \A d \in Dispatchers : dispatch[d].shipment # work[w].shipment
    /\ \A p \in Patchers : patch[p].shipment # work[w].shipment

\* The row is as a dispatch in flight has read or left it.
DispatchFits(r) ==
    /\ r.at = "book" => shipments[r.shipment].status = StatusPending
    /\ r.at = "authorize" => /\ shipments[r.shipment].status = StatusDispatched
                             /\ shipments[r.shipment].carrier = r.carrier
                             /\ ~Owned(r.shipment)

\* The row is as a PATCH in flight has read or left it.
PatchFits(r) ==
    /\ r.at = "write" => ValidateTransition(shipments[r.shipment].status, r.target)
    /\ r.at \in { "settle", "record", "release" } =>
           shipments[r.shipment].status = r.target
    /\ r.at # "idle" => shipments[r.shipment].carrier = r.carrier

FitInv ==
    /\ UnusedUnowned
    /\ OneHoldEach
    /\ EarlyUnowned
    /\ WorkAlone
    /\ \A d \in Dispatchers : DispatchFits(dispatch[d])
    /\ \A p \in Patchers : PatchFits(patch[p])

LifecycleInv == TypeOK /\ BookingInv /\ LedgerInv /\ PriceInv /\ FitInv

-----------------------------------------------------------------------------
(* What a step does to the loads.                                            *)

\* Shipment t is to Lifecycle, and to the handlers that serve it, as it was.
SameLoad(t) ==
    /\ shipments'[t].status = shipments[t].status
    /\ shipments'[t].carrier = shipments[t].carrier
    /\ \A i \in Intents : intents'[i].shipment = t <=> intents[i].shipment = t

\* Nothing is new at Stripe.
OwnersKept == \A i \in Intents :
    /\ intents'[i].shipment = intents[i].shipment
    /\ intents'[i].state = "unused" <=> intents[i].state = "unused"

LEMMA OwnersUnchanged == UNCHANGED intents => OwnersKept
  BY DEF OwnersKept

\* The store's methods, seen from one row.
LEMMA StatusWritten ==
  ASSUME StoreTypeOK, NEW s \in Shipments, NEW status,
         UpdateShipmentStatus(s, status)
  PROVE  /\ shipments'[s].status = status
         /\ shipments'[s].carrier = shipments[s].carrier
         /\ \A t \in Shipments \ { s } : shipments'[t] = shipments[t]
         /\ UNCHANGED carriers
  <1> DEFINE row == [shipments[s] EXCEPT !.status = status]
  <1>1. row.status = status /\ row.carrier = shipments[s].carrier
    BY DEF StoreTypeOK, ShipmentRow
  <1> QED
    BY <1>1 DEF UpdateShipmentStatus, StoreTypeOK

LEMMA PaymentWritten ==
  ASSUME StoreTypeOK, NEW s \in Shipments, NEW i, NEW paid,
         UpdateShipmentPayment(s, i, paid)
  PROVE  /\ \A t \in Shipments : /\ shipments'[t].status = shipments[t].status
                                 /\ shipments'[t].carrier = shipments[t].carrier
         /\ UNCHANGED carriers
  <1> DEFINE row == [shipments[s] EXCEPT !.intent = i, !.paid = paid]
  <1>1. row.status = shipments[s].status /\ row.carrier = shipments[s].carrier
    BY DEF StoreTypeOK, ShipmentRow
  <1> QED
    BY <1>1 DEF UpdateShipmentPayment, StoreTypeOK

LEMMA BookWritten ==
  ASSUME StoreTypeOK, NEW s \in Shipments, NEW c, NEW price, Dispatch(s, c, price)
  PROVE  /\ shipments'[s].status = StatusDispatched
         /\ shipments'[s].carrier = c
         /\ \A t \in Shipments \ { s } : shipments'[t] = shipments[t]
  <1> DEFINE row == [shipments[s] EXCEPT !.carrier = c, !.price = price,
                                         !.status = StatusDispatched]
  <1>1. row.status = StatusDispatched /\ row.carrier = c
    BY DEF StoreTypeOK, ShipmentRow
  <1> QED
    BY <1>1 DEF Dispatch, StoreTypeOK

-----------------------------------------------------------------------------
(* What no slot serves, or is left alone, goes on fitting.                   *)

\* Only a new shipment becomes one that can be dispatched.
EarlyKept == \A s \in Shipments :
    shipments'[s].status \in Early => shipments[s].status \in Early

\* Slots that go on with the shipment they serve, or end.
SlotsOnward ==
    /\ \A d \in Dispatchers :
          dispatch'[d].shipment \in { NoShipment, dispatch[d].shipment }
    /\ \A p \in Patchers :
          patch'[p].shipment \in { NoShipment, patch[p].shipment }
    /\ \A w \in Workers : work'[w].at # "idle" =>
          work[w].at # "idle" /\ work'[w].shipment = work[w].shipment

LEMMA WorkAloneOnward ==
  ASSUME TypeOK, WorkAlone, SlotsOnward
  PROVE  WorkAlone'
  <1> SUFFICES ASSUME NEW w \in Workers, work'[w].at # "idle"
               PROVE  /\ \A d \in Dispatchers :
                           dispatch'[d].shipment # work'[w].shipment
                      /\ \A p \in Patchers :
                           patch'[p].shipment # work'[w].shipment
    BY DEF WorkAlone
  <1>1. work[w].at # "idle" /\ work'[w].shipment = work[w].shipment
    BY DEF SlotsOnward
  <1>2. work[w].shipment \in Shipments
    BY <1>1 DEF TypeOK, WorkOK, Serving
  <1> QED
    BY <1>1, <1>2, IdsDisjoint DEF WorkAlone, SlotsOnward

LEMMA HoldsKept ==
  ASSUME UnusedUnowned, OneHoldEach, EarlyUnowned, OwnersKept, EarlyKept
  PROVE  UnusedUnowned' /\ OneHoldEach' /\ EarlyUnowned'
  <1>1. UnusedUnowned'
    BY DEF UnusedUnowned, OwnersKept
  <1>2. OneHoldEach'
    BY DEF OneHoldEach, OwnersKept
  <1>3. EarlyUnowned'
    BY DEF EarlyUnowned, Owned, OwnersKept, EarlyKept
  <1> QED
    BY <1>1, <1>2, <1>3

LEMMA DispatchFitsStay ==
  ASSUME NEW r, DispatchFits(r), r.at # "idle" => SameLoad(r.shipment)
  PROVE  DispatchFits(r)'
  BY DEF DispatchFits, SameLoad, Owned

LEMMA PatchFitsStay ==
  ASSUME NEW r, PatchFits(r), r.at # "idle" => SameLoad(r.shipment)
  PROVE  PatchFits(r)'
  BY DEF PatchFits, SameLoad

\* The slots of handlers whose shipments are left alone.
LEMMA DispatchesFitStill ==
  ASSUME \A e \in Dispatchers : DispatchFits(dispatch[e]),
         NEW D, D \subseteq Dispatchers,
         \A e \in D : /\ dispatch'[e] = dispatch[e]
                      /\ dispatch[e].at # "idle" => SameLoad(dispatch[e].shipment)
  PROVE  \A e \in D : DispatchFits(dispatch[e])'
  <1> SUFFICES ASSUME NEW e \in D PROVE DispatchFits(dispatch[e])'
    OBVIOUS
  <1>1. PICK r : r = dispatch[e]
    OBVIOUS
  <1>2. DispatchFits(r)'
    BY <1>1, DispatchFitsStay
  <1> QED
    BY <1>1, <1>2 DEF DispatchFits, Owned

LEMMA PatchesFitStill ==
  ASSUME \A q \in Patchers : PatchFits(patch[q]),
         NEW P, P \subseteq Patchers,
         \A q \in P : /\ patch'[q] = patch[q]
                      /\ patch[q].at # "idle" => SameLoad(patch[q].shipment)
  PROVE  \A q \in P : PatchFits(patch[q])'
  <1> SUFFICES ASSUME NEW q \in P PROVE PatchFits(patch[q])'
    OBVIOUS
  <1>1. PICK r : r = patch[q]
    OBVIOUS
  <1>2. PatchFits(r)'
    BY <1>1, PatchFitsStay
  <1> QED
    BY <1>1, <1>2 DEF PatchFits

\* An idle slot fits.
LEMMA IdleFits == DispatchFits(IdleDispatch)' /\ PatchFits(IdlePatch)'
  BY DEF DispatchFits, PatchFits, IdleDispatch, IdlePatch

LEMMA DispatchesFitMoved ==
  ASSUME DispatchOK, \A e \in Dispatchers : DispatchFits(dispatch[e]),
         NEW d \in Dispatchers, NEW n, dispatch' = [dispatch EXCEPT ![d] = n],
         DispatchFits(n)',
         \A e \in Dispatchers \ { d } :
            dispatch[e].at # "idle" => SameLoad(dispatch[e].shipment)
  PROVE  (\A e \in Dispatchers : DispatchFits(dispatch[e]))'
  <1>1. dispatch'[d] = n /\ \A e \in Dispatchers \ { d } : dispatch'[e] = dispatch[e]
    BY DEF DispatchOK
  <1>2. \A e \in Dispatchers \ { d } : DispatchFits(dispatch[e])'
    BY <1>1, DispatchesFitStill
  <1>3. DispatchFits(dispatch[d])'
    BY <1>1 DEF DispatchFits, Owned
  <1> QED
    BY <1>2, <1>3

LEMMA PatchesFitMoved ==
  ASSUME PatchOK, \A q \in Patchers : PatchFits(patch[q]),
         NEW p \in Patchers, NEW n, patch' = [patch EXCEPT ![p] = n],
         PatchFits(n)',
         \A q \in Patchers \ { p } :
            patch[q].at # "idle" => SameLoad(patch[q].shipment)
  PROVE  (\A q \in Patchers : PatchFits(patch[q]))'
  <1>1. patch'[p] = n /\ \A q \in Patchers \ { p } : patch'[q] = patch[q]
    BY DEF PatchOK
  <1>2. \A q \in Patchers \ { p } : PatchFits(patch[q])'
    BY <1>1, PatchesFitStill
  <1>3. PatchFits(patch[p])'
    BY <1>1 DEF PatchFits
  <1> QED
    BY <1>2, <1>3

-----------------------------------------------------------------------------
(* A step of one slot touches no load but its own, which no other slot       *)
(* serves.                                                                   *)

LEMMA FitDispatchMoves ==
  ASSUME TypeOK, PriceInv, FitInv, NEW d \in Dispatchers,
         dispatch[d].at # "idle", NEW n,
         dispatch' = [dispatch EXCEPT ![d] = n], UNCHANGED << patch, work >>,
         n.shipment \in { NoShipment, dispatch[d].shipment }, DispatchFits(n)',
         \A t \in Shipments \ { dispatch[d].shipment } : SameLoad(t),
         UnusedUnowned' /\ OneHoldEach' /\ EarlyUnowned'
  PROVE  FitInv'
  <1>1. \A e \in Dispatchers \ { d } :
           dispatch[e].at # "idle" => SameLoad(dispatch[e].shipment)
    BY DEF PriceInv, DispatchAlone, TypeOK, DispatchOK, Serving
  <1>2. (\A e \in Dispatchers : DispatchFits(dispatch[e]))'
    BY <1>1, DispatchesFitMoved DEF FitInv, TypeOK
  <1>3. \A q \in Patchers : patch[q].at # "idle" => SameLoad(patch[q].shipment)
    BY DEF PriceInv, DispatchAlone, TypeOK, PatchOK, Serving
  <1>4. \A q \in Patchers : PatchFits(patch[q])'
    BY <1>3, PatchesFitStill DEF FitInv
  <1>5. SlotsOnward
    BY DEF SlotsOnward, TypeOK, DispatchOK
  <1> QED
    BY <1>2, <1>4, <1>5, WorkAloneOnward DEF FitInv

LEMMA FitPatchMoves ==
  ASSUME TypeOK, BookingInv, PriceInv, FitInv, NEW p \in Patchers,
         patch[p].at # "idle", NEW n,
         patch' = [patch EXCEPT ![p] = n], UNCHANGED << dispatch, work >>,
         n.shipment \in { NoShipment, patch[p].shipment }, PatchFits(n)',
         \A t \in Shipments \ { patch[p].shipment } : SameLoad(t),
         OwnersKept, EarlyKept
  PROVE  FitInv'
  <1>1. \A q \in Patchers \ { p } :
           patch[q].at # "idle" => SameLoad(patch[q].shipment)
    BY DEF BookingInv, OnePatchEach, TypeOK, PatchOK, Serving
  <1>2. (\A q \in Patchers : PatchFits(patch[q]))'
    BY <1>1, PatchesFitMoved DEF FitInv, TypeOK
  <1>3. \A e \in Dispatchers : dispatch[e].at # "idle" => SameLoad(dispatch[e].shipment)
    BY DEF PriceInv, DispatchAlone, TypeOK, DispatchOK, Serving
  <1>4. \A e \in Dispatchers : DispatchFits(dispatch[e])'
    BY <1>3, DispatchesFitStill DEF FitInv
  <1>5. SlotsOnward
    BY DEF SlotsOnward, TypeOK, PatchOK
  <1> QED
    BY <1>2, <1>4, <1>5, WorkAloneOnward, HoldsKept DEF FitInv

LEMMA FitWorkMoves ==
  ASSUME TypeOK, FitInv, NEW w \in Workers, work[w].at # "idle", NEW n,
         work' = [work EXCEPT ![w] = n], UNCHANGED << dispatch, patch >>,
         n.at # "idle" => n.shipment = work[w].shipment,
         \A t \in Shipments \ { work[w].shipment } : SameLoad(t),
         OwnersKept, EarlyKept
  PROVE  FitInv'
  <1>1. \A e \in Dispatchers : dispatch[e].at # "idle" => SameLoad(dispatch[e].shipment)
    BY DEF FitInv, WorkAlone, TypeOK, DispatchOK, Serving
  <1>2. \A q \in Patchers : patch[q].at # "idle" => SameLoad(patch[q].shipment)
    BY DEF FitInv, WorkAlone, TypeOK, PatchOK, Serving
  <1>3. /\ \A e \in Dispatchers : DispatchFits(dispatch[e])'
        /\ \A q \in Patchers : PatchFits(patch[q])'
    BY <1>1, <1>2, DispatchesFitStill, PatchesFitStill DEF FitInv
  <1>4. SlotsOnward
    BY DEF SlotsOnward, TypeOK, WorkOK
  <1> QED
    BY <1>3, <1>4, WorkAloneOnward, HoldsKept DEF FitInv

-----------------------------------------------------------------------------
(* Every step of the service keeps the invariant.                            *)

LEMMA FitInit == Init => FitInv
  <1> SUFFICES ASSUME Init PROVE FitInv
    OBVIOUS
  <1>1. UnusedUnowned /\ OneHoldEach
    BY DEF Init, StripeInit, UnusedUnowned, OneHoldEach
  <1>2. EarlyUnowned
    BY IdsDisjoint DEF Init, StripeInit, EarlyUnowned, Owned
  <1>3. \A d \in Dispatchers : DispatchFits(dispatch[d])
    BY DEF Init, IdleDispatch, DispatchFits
  <1>4. \A p \in Patchers : PatchFits(patch[p])
    BY DEF Init, IdlePatch, PatchFits
  <1>5. WorkAlone
    BY DEF Init, IdleWork, WorkAlone
  <1> QED
    BY <1>1, <1>2, <1>3, <1>4, <1>5 DEF FitInv

\* A row that is created is served by nobody yet.
LEMMA FitCreate ==
  ASSUME TypeOK, FitInv,
         (\E c \in Carriers : CreateCarrier(c)) \/ (\E s \in Shipments : CreateShipment(s))
  PROVE  FitInv'
  <1>1. UNCHANGED << intents, dispatch, patch, work >>
    BY DEF CreateCarrier, CreateShipment, slotVars
  <1>2. \A t \in Shipments : /\ ShipmentExists(t) => shipments'[t] = shipments[t]
                             /\ ~ShipmentExists(t) => shipments[t].status = "absent"
    BY DEF CreateCarrier, SaveCarrier, CreateShipment, SaveShipment, ShipmentExists,
           TypeOK, StoreTypeOK
  <1>3. \A t \in Shipments : ShipmentExists(t) => SameLoad(t)
    BY <1>1, <1>2 DEF ShipmentExists, SameLoad
  <1>4. EarlyKept
    BY <1>2 DEF ShipmentExists, EarlyKept, Early
  <1>5. \A e \in Dispatchers : DispatchFits(dispatch[e])'
    BY <1>1, <1>3, DispatchesFitStill DEF FitInv, TypeOK, DispatchOK, Serving
  <1>6. \A q \in Patchers : PatchFits(patch[q])'
    BY <1>1, <1>3, PatchesFitStill DEF FitInv, TypeOK, PatchOK, Serving
  <1>7. SlotsOnward
    BY <1>1 DEF SlotsOnward
  <1> QED
    BY <1>1, <1>4, <1>5, <1>6, <1>7, OwnersUnchanged, HoldsKept, WorkAloneOnward
    DEF FitInv

LEMMA FitWork ==
  ASSUME TypeOK, FitInv, NEW w \in Workers, WorkerContinues(w)
  PROVE  FitInv'
  <1> PICK r : r = work[w]
    OBVIOUS
  <1>1. /\ r \in WorkSlot /\ r.at # "idle" /\ r.shipment \in Shipments
        /\ r.at = "conclude" => r.verdict \in { StatusMatched, StatusNoMatch }
    BY DEF TypeOK, WorkOK, WorkSlot, Serving, WorkerContinues, WorkerMark,
           WorkerRank, WorkerConclude
  <1>2. /\ OwnersKept
        /\ UNCHANGED << intents, dispatch, patch >>
    BY OwnersUnchanged DEF WorkerContinues, WorkerMark, WorkerRank, WorkerConclude
  <1>3. \/ UNCHANGED storeVars
        \/ \E status \in { StatusMatching, StatusMatched, StatusNoMatch } :
              UpdateShipmentStatus(r.shipment, status)
    BY <1>1 DEF WorkerContinues, WorkerMark, WorkerRank, WorkerConclude
  <1>4. /\ \A t \in Shipments \ { r.shipment } : SameLoad(t)
        /\ EarlyKept
    <2>1. CASE UNCHANGED storeVars
      BY <1>2, <2>1 DEF storeVars, SameLoad, EarlyKept
    <2>2. ASSUME NEW status \in { StatusMatching, StatusMatched, StatusNoMatch },
                 UpdateShipmentStatus(r.shipment, status)
          PROVE  /\ \A t \in Shipments \ { r.shipment } : SameLoad(t)
                 /\ EarlyKept
      BY <1>1, <1>2, <2>2, StatusWritten, LateStatuses
      DEF TypeOK, SameLoad, EarlyKept
    <2> QED
      BY <1>3, <2>1, <2>2
  <1>5. PICK n : /\ work' = [work EXCEPT ![w] = n]
                 /\ n.at # "idle" => n.shipment = r.shipment
    <2>1. PICK m : m = [r EXCEPT !.at = "rank"]
      OBVIOUS
    <2>2. m.shipment = r.shipment
      BY <1>1, <2>1 DEF WorkSlot
    <2>3. CASE WorkerMark(w)
      BY <2>1, <2>2, <2>3 DEF WorkerMark
    <2>4. CASE WorkerRank(w)
      <3>1. PICK verdict : work' = [work EXCEPT ![w] = [r EXCEPT !.at = "conclude",
                                                                 !.verdict = verdict]]
        BY <2>4 DEF WorkerRank
      <3>2. PICK n : n = [r EXCEPT !.at = "conclude", !.verdict = verdict]
        OBVIOUS
      <3>3. n.shipment = r.shipment
        BY <1>1, <3>2 DEF WorkSlot
      <3> QED
        BY <3>1, <3>2, <3>3
    <2>5. CASE WorkerConclude(w)
      <3>1. work' = [work EXCEPT ![w] = IdleWork] /\ IdleWork.at = "idle"
        BY <2>5 DEF WorkerConclude, IdleWork
      <3> QED
        BY <3>1
    <2> QED
      BY <2>3, <2>4, <2>5 DEF WorkerContinues
  <1> QED
    BY <1>1, <1>2, <1>4, <1>5, FitWorkMoves

LEMMA DispatchedIsLate == StatusDispatched \notin Early
  BY DEF Early, StatusDispatched, StatusPending

\* What a hold placed for a shipment without one does to Stripe's records.
LEMMA PlacedHold ==
  ASSUME StripeTypeOK, FitInv, NEW i \in Intents, NEW s \in Shipments, NEW amount,
         ~Owned(s), AuthorizePayment(i, s, amount)
  PROVE  /\ intents'[i].shipment = s /\ intents'[i].state = "requires_capture"
         /\ intents[i].shipment = NoShipment
         /\ \A j \in Intents \ { i } : intents'[j] = intents[j]
         /\ UnusedUnowned' /\ OneHoldEach'
         /\ \A t \in Shipments \ { s } : \A j \in Intents :
               intents'[j].shipment = t <=> intents[j].shipment = t
  <1>1. /\ intents'[i].shipment = s /\ intents'[i].state = "requires_capture"
        /\ intents[i].shipment = NoShipment
        /\ \A j \in Intents \ { i } : intents'[j] = intents[j]
    BY DEF StripeTypeOK, AuthorizePayment, FitInv, UnusedUnowned
  <1>2. UnusedUnowned'
    BY <1>1, IdsDisjoint DEF FitInv, UnusedUnowned
  <1>3. OneHoldEach'
    BY <1>1 DEF FitInv, OneHoldEach, Owned
  <1> QED
    BY <1>1, <1>2, <1>3, IdsDisjoint

LEMMA FitDispatch ==
  ASSUME TypeOK, PriceInv, FitInv, NEW d \in Dispatchers, DispatchContinues(d)
  PROVE  FitInv'
  <1> PICK r : r = dispatch[d]
    OBVIOUS
  <1>1. /\ r \in DispatchSlot /\ r.at # "idle" /\ r.shipment \in Shipments
        /\ DispatchFits(r) /\ shipments[r.shipment].status # "absent"
        /\ UNCHANGED << patch, work >>
    BY DEF TypeOK, DispatchOK, Serving, ShipmentExists, FitInv, DispatchContinues,
           DispatchBook, DispatchRefused, DispatchAuthorize, DispatchUnauthorized,
           DispatchRecord
  <1>2. IdleDispatch.shipment = NoShipment
    BY DEF IdleDispatch
  <1>3. CASE DispatchBook(d)
    <2>1. /\ r.at = "book" /\ UNCHANGED intents
          /\ Dispatch(r.shipment, r.carrier, r.price)
      BY <1>3 DEF DispatchBook
    <2>2. /\ shipments'[r.shipment].status = StatusDispatched
          /\ shipments'[r.shipment].carrier = r.carrier
          /\ \A t \in Shipments \ { r.shipment } : shipments'[t] = shipments[t]
      BY <1>1, <2>1, BookWritten DEF TypeOK
    <2>3. /\ \A t \in Shipments \ { r.shipment } : SameLoad(t)
          /\ EarlyKept
      BY <2>1, <2>2, DispatchedIsLate DEF SameLoad, EarlyKept
    <2>4. UnusedUnowned' /\ OneHoldEach' /\ EarlyUnowned'
      BY <2>1, <2>3, OwnersUnchanged, HoldsKept DEF FitInv
    <2>5. PICK n : n = [r EXCEPT !.at = "authorize"]
      OBVIOUS
    <2>6. n.at = "authorize" /\ n.shipment = r.shipment /\ n.carrier = r.carrier
      BY <1>1, <2>5 DEF DispatchSlot
    <2>7. ~Owned(r.shipment)
      BY <1>1, <2>1 DEF FitInv, EarlyUnowned, DispatchFits, Early
    <2>8. DispatchFits(n)'
      BY <2>1, <2>2, <2>6, <2>7 DEF DispatchFits, Owned
    <2>9. CASE dispatch' = [dispatch EXCEPT ![d] = n]
      BY <1>1, <2>3, <2>4, <2>6, <2>8, <2>9, FitDispatchMoves
    <2>10. CASE dispatch' = [dispatch EXCEPT ![d] = IdleDispatch]
      BY <1>1, <1>2, <2>3, <2>4, <2>10, IdleFits, FitDispatchMoves
    <2> QED
      BY <1>3, <2>5, <2>9, <2>10 DEF DispatchBook
  <1>4. CASE DispatchAuthorize(d)
    <2>1. PICK i \in Intents :
             /\ AuthorizePayment(i, r.shipment, AmountCents(r.price))
             /\ \/ dispatch' = [dispatch EXCEPT ![d] =
                                  [r EXCEPT !.at = "record", !.intent = i]]
                \/ dispatch' = [dispatch EXCEPT ![d] = IdleDispatch]
      BY <1>4 DEF DispatchAuthorize
    <2>2. r.at = "authorize" /\ UNCHANGED shipments
      BY <1>4 DEF DispatchAuthorize, storeVars
    <2>3. shipments[r.shipment].status = StatusDispatched /\ ~Owned(r.shipment)
      BY <1>1, <2>2 DEF DispatchFits
    <2>4. /\ UnusedUnowned' /\ OneHoldEach'
          /\ \A t \in Shipments \ { r.shipment } : \A j \in Intents :
                intents'[j].shipment = t <=> intents[j].shipment = t
      BY <1>1, <2>1, <2>3, PlacedHold DEF TypeOK
    <2>5. \A t \in Shipments \ { r.shipment } : SameLoad(t)
      BY <2>2, <2>4 DEF SameLoad
    <2>6. EarlyUnowned'
      BY <2>2, <2>3, <2>4, DispatchedIsLate DEF FitInv, EarlyUnowned, Owned
    <2>7. PICK n : n = [r EXCEPT !.at = "record", !.intent = i]
      OBVIOUS
    <2>8. n.at = "record" /\ n.shipment = r.shipment
      BY <1>1, <2>7 DEF DispatchSlot
    <2>9. DispatchFits(n)'
      BY <2>8 DEF DispatchFits
    <2>10. CASE dispatch' = [dispatch EXCEPT ![d] = n]
      BY <1>1, <2>4, <2>5, <2>6, <2>8, <2>9, <2>10, FitDispatchMoves
    <2>11. CASE dispatch' = [dispatch EXCEPT ![d] = IdleDispatch]
      BY <1>1, <1>2, <2>4, <2>5, <2>6, <2>11, IdleFits, FitDispatchMoves
    <2> QED
      BY <2>1, <2>7, <2>10, <2>11
  <1>5. CASE DispatchRefused(d) \/ DispatchUnauthorized(d) \/ DispatchRecord(d)
    <2>1. /\ UNCHANGED intents /\ dispatch' = [dispatch EXCEPT ![d] = IdleDispatch]
          /\ \/ UNCHANGED storeVars
             \/ UpdateShipmentPayment(r.shipment, r.intent, "requires_capture")
      BY <1>5 DEF DispatchRefused, DispatchUnauthorized, DispatchRecord
    <2>2. \A t \in Shipments : /\ shipments'[t].status = shipments[t].status
                               /\ shipments'[t].carrier = shipments[t].carrier
      BY <1>1, <2>1, PaymentWritten DEF storeVars, TypeOK
    <2>3. (\A t \in Shipments : SameLoad(t)) /\ EarlyKept
      BY <2>1, <2>2 DEF SameLoad, EarlyKept
    <2>4. UnusedUnowned' /\ OneHoldEach' /\ EarlyUnowned'
      BY <2>1, <2>3, OwnersUnchanged, HoldsKept DEF FitInv
    <2> QED
      BY <1>1, <1>2, <2>1, <2>3, <2>4, IdleFits, FitDispatchMoves
  <1> QED
    BY <1>3, <1>4, <1>5 DEF DispatchContinues

\* A PATCH past its check ends, or goes on with what it has read.
LEMMA PatchGoesOn ==
  ASSUME TypeOK, NEW p \in Patchers, PatchContinues(p)
  PROVE  \E n : /\ patch' = [patch EXCEPT ![p] = n]
               /\ \/ n = IdlePatch
                  \/ /\ n.at \in { "settle", "record", "release" }
                     /\ n.shipment = patch[p].shipment
                     /\ n.target = patch[p].target
                     /\ n.carrier = patch[p].carrier
  <1> PICK r : r = patch[p]
    OBVIOUS
  <1> DEFINE Onward(n) == /\ n.at \in { "settle", "record", "release" }
                          /\ n.shipment = r.shipment
                          /\ n.target = r.target /\ n.carrier = r.carrier
  <1>1. r \in PatchSlot
    BY DEF TypeOK, PatchOK
  <1>2. PICK rel, set :
           rel = [r EXCEPT !.at = "release"] /\ set = [r EXCEPT !.at = "settle"]
    OBVIOUS
  <1>3. Onward(rel) /\ Onward(set)
    BY <1>1, <1>2 DEF PatchSlot
  <1>4. /\ AfterSettle(r) \in { rel, IdlePatch }
        /\ AfterWrite(r) \in { set, rel, IdlePatch }
    BY <1>2 DEF AfterSettle, AfterWrite
  <1>5. ASSUME NEW result
        PROVE  Onward([r EXCEPT !.at = "record", !.result = result])
    BY <1>1 DEF PatchSlot
  <1> HIDE DEF Onward
  <1>6. \E n : patch' = [patch EXCEPT ![p] = n] /\ (n = IdlePatch \/ Onward(n))
    <2>1. CASE PatchSettle(p)
      <3>1. PICK result : \/ patch' = [patch EXCEPT ![p] = [r EXCEPT !.at = "record",
                                                                   !.result = result]]
                          \/ patch' = [patch EXCEPT ![p] = AfterSettle(r)]
        BY <2>1 DEF PatchSettle
      <3>2. PICK n : n = [r EXCEPT !.at = "record", !.result = result]
        OBVIOUS
      <3>3. Onward(n)
        BY <1>5, <3>2
      <3>4. CASE patch' = [patch EXCEPT ![p] = n]
        BY <3>3, <3>4
      <3>5. CASE patch' = [patch EXCEPT ![p] = AfterSettle(r)]
        BY <1>3, <1>4, <3>5
      <3> QED
        BY <3>1, <3>2, <3>4, <3>5
    <2>2. CASE PatchWrite(p)
      BY <1>3, <1>4, <2>2 DEF PatchWrite
    <2>3. CASE PatchUnsettled(p) \/ PatchRecord(p) \/ PatchRelease(p)
      BY <1>3, <1>4, <2>3 DEF PatchUnsettled, PatchRecord, PatchRelease
    <2> QED
      BY <2>1, <2>2, <2>3 DEF PatchContinues
  <1> QED
    BY <1>6 DEF Onward

LEMMA FitPatch ==
  ASSUME TypeOK, BookingInv, PriceInv, FitInv, NEW p \in Patchers, PatchContinues(p)
  PROVE  FitInv'
  <1> PICK r : r = patch[p]
    OBVIOUS
  <1>1. /\ r \in PatchSlot /\ r.at # "idle" /\ r.shipment \in Shipments
        /\ r.target \in NextStatuses /\ PatchFits(r)
        /\ UNCHANGED << dispatch, work >>
    BY DEF TypeOK, PatchOK, Serving, FitInv, PatchContinues, PatchWrite,
           PatchSettle, PatchUnsettled, PatchRecord, PatchRelease
  <1>2. PICK n : /\ patch' = [patch EXCEPT ![p] = n]
                 /\ \/ n = IdlePatch
                    \/ /\ n.at \in { "settle", "record", "release" }
                       /\ n.shipment = r.shipment
                       /\ n.target = r.target /\ n.carrier = r.carrier
    BY PatchGoesOn
  <1>3. n.shipment \in { NoShipment, r.shipment }
    <2>1. IdlePatch.shipment = NoShipment
      BY DEF IdlePatch
    <2> QED
      BY <1>2, <2>1
  <1>4. OwnersKept
    <2>1. CASE PatchSettle(p)
      BY <2>1 DEF PatchSettle, CapturePayment, CancelPayment, OwnersKept, TypeOK,
                  StripeTypeOK
    <2>2. CASE ~PatchSettle(p)
      BY <2>2, OwnersUnchanged
      DEF PatchContinues, PatchWrite, PatchUnsettled, PatchRecord, PatchRelease
    <2> QED
      BY <2>1, <2>2
  <1>5. /\ \A t \in Shipments \ { r.shipment } : SameLoad(t)
        /\ EarlyKept
        /\ n # IdlePatch => /\ shipments'[r.shipment].status = r.target
                            /\ shipments'[r.shipment].carrier = r.carrier
    <2>1. CASE PatchWrite(p) /\ UpdateShipmentStatus(r.shipment, r.target)
      <3>1. r.at = "write"
        BY <2>1 DEF PatchWrite
      <3>2. /\ shipments'[r.shipment].status = r.target
            /\ shipments'[r.shipment].carrier = shipments[r.shipment].carrier
            /\ \A t \in Shipments \ { r.shipment } : shipments'[t] = shipments[t]
        BY <1>1, <2>1, StatusWritten DEF TypeOK
      <3> QED
        BY <1>1, <1>4, <3>2, LateStatuses DEF SameLoad, OwnersKept, EarlyKept, PatchFits
    <2>2. CASE PatchWrite(p) /\ UNCHANGED storeVars /\ patch' = [patch EXCEPT ![p] = IdlePatch]
      <3>1. n = IdlePatch
        BY <1>2, <2>2 DEF TypeOK, PatchOK
      <3> QED
        BY <1>4, <2>2, <3>1 DEF SameLoad, OwnersKept, EarlyKept, storeVars
    <2>3. CASE PatchSettle(p) \/ PatchUnsettled(p) \/ PatchRecord(p) \/ PatchRelease(p)
      <3>1. r.at \in { "settle", "record", "release" }
        BY <2>3 DEF PatchSettle, PatchUnsettled, PatchRecord, PatchRelease
      <3>2. \/ UNCHANGED shipments
            \/ UpdateShipmentPayment(r.shipment, r.intent, r.result)
        BY <2>3 DEF PatchSettle, PatchUnsettled, PatchRecord, PatchRelease,
                    ReleaseCarrier, storeVars
      <3>3. \A t \in Shipments : /\ shipments'[t].status = shipments[t].status
                                 /\ shipments'[t].carrier = shipments[t].carrier
        BY <1>1, <3>2, PaymentWritten DEF TypeOK
      <3> QED
        BY <1>1, <1>4, <3>1, <3>3 DEF SameLoad, OwnersKept, EarlyKept, PatchFits
    <2> QED
      BY <2>1, <2>2, <2>3 DEF PatchContinues, PatchWrite
  <1>6. PatchFits(n)'
    <2>1. CASE n = IdlePatch
      BY <2>1 DEF PatchFits, IdlePatch
    <2>2. CASE n # IdlePatch
      BY <1>2, <1>5, <2>2 DEF PatchFits
    <2> QED
      BY <2>1, <2>2
  <1> QED
    BY <1>1, <1>2, <1>3, <1>4, <1>5, <1>6, FitPatchMoves

LEMMA FitCrash ==
  ASSUME TypeOK, FitInv, Crash
  PROVE  FitInv'
  <1>1. OwnersKept /\ EarlyKept
    BY OwnersUnchanged DEF Crash, storeVars, EarlyKept
  <1>2. \A d \in Dispatchers : DispatchFits(dispatch[d])'
    BY DEF Crash, IdleDispatch, DispatchFits
  <1>3. \A p \in Patchers : PatchFits(patch[p])'
    BY DEF Crash, IdlePatch, PatchFits
  <1>4. WorkAlone'
    BY DEF Crash, IdleWork, WorkAlone
  <1> QED
    BY <1>1, <1>2, <1>3, <1>4, HoldsKept DEF FitInv

LEMMA FitDispatchStarts ==
  ASSUME TypeOK, FitInv, Discipline = "requests",
         NEW d \in Dispatchers, NEW s \in Shipments, NEW c \in Carriers,
         NEW price \in Prices, DispatchRead(d, s, c, price)
  PROVE  FitInv'
  <1> PICK n : n = [IdleDispatch EXCEPT !.at = "book", !.shipment = s,
                                        !.carrier = c, !.price = price]
    OBVIOUS
  <1>1. n.at = "book" /\ n.shipment = s
    BY DEF IdleDispatch
  <1>2. /\ dispatch' = [dispatch EXCEPT ![d] = n]
        /\ UNCHANGED << shipments, intents, patch, work >>
    BY DEF DispatchRead, storeVars
  <1>3. (\A t \in Shipments : SameLoad(t)) /\ EarlyKept /\ OwnersKept
    BY <1>2, OwnersUnchanged DEF SameLoad, EarlyKept
  <1>4. DispatchFits(n)'
    BY <1>1, <1>2, DispatchFromPending DEF DispatchRead, DispatchFits
  <1>5. (\A e \in Dispatchers : DispatchFits(dispatch[e]))'
    BY <1>2, <1>3, <1>4, DispatchesFitMoved DEF FitInv, TypeOK, DispatchOK, Serving
  <1>6. \A q \in Patchers : PatchFits(patch[q])'
    BY <1>2, <1>3, PatchesFitStill DEF FitInv, TypeOK, PatchOK, Serving
  <1>7. /\ \A w \in Workers : work[w].shipment # s
        /\ dispatch'[d] = n /\ \A e \in Dispatchers \ { d } : dispatch'[e] = dispatch[e]
    BY <1>2 DEF DispatchRead, MayRequest, NothingOn, TypeOK, DispatchOK
  <1>8. WorkAlone'
    BY <1>1, <1>2, <1>7 DEF FitInv, WorkAlone
  <1> QED
    BY <1>3, <1>5, <1>6, <1>8, HoldsKept DEF FitInv

LEMMA FitPatchStarts ==
  ASSUME TypeOK, FitInv, Discipline = "requests",
         NEW p \in Patchers, NEW s \in Shipments, NEW target, PatchRead(p, s, target)
  PROVE  FitInv'
  <1> PICK n : n = [IdlePatch EXCEPT !.at = "write", !.shipment = s,
                                     !.target = target,
                                     !.carrier = shipments[s].carrier,
                                     !.intent = shipments[s].intent]
    OBVIOUS
  <1>1. /\ n.at = "write" /\ n.shipment = s /\ n.target = target
        /\ n.carrier = shipments[s].carrier
    BY DEF IdlePatch
  <1>2. /\ patch' = [patch EXCEPT ![p] = n]
        /\ UNCHANGED << shipments, intents, dispatch, work >>
    BY DEF PatchRead, storeVars
  <1>3. (\A t \in Shipments : SameLoad(t)) /\ EarlyKept /\ OwnersKept
    BY <1>2, OwnersUnchanged DEF SameLoad, EarlyKept
  <1>4. PatchFits(n)'
    BY <1>1, <1>2 DEF PatchRead, PatchFits
  <1>5. (\A q \in Patchers : PatchFits(patch[q]))'
    BY <1>2, <1>3, <1>4, PatchesFitMoved DEF FitInv, TypeOK, PatchOK, Serving
  <1>6. \A e \in Dispatchers : DispatchFits(dispatch[e])'
    BY <1>2, <1>3, DispatchesFitStill DEF FitInv, TypeOK, DispatchOK, Serving
  <1>7. /\ \A w \in Workers : work[w].shipment # s
        /\ patch'[p] = n /\ \A q \in Patchers \ { p } : patch'[q] = patch[q]
    BY <1>2 DEF PatchRead, MayPatch, MayRequest, NothingOn, TypeOK, PatchOK
  <1>8. WorkAlone'
    BY <1>1, <1>2, <1>7 DEF FitInv, WorkAlone
  <1> QED
    BY <1>3, <1>5, <1>6, <1>8, HoldsKept DEF FitInv

LEMMA FitWorkStarts ==
  ASSUME TypeOK, FitInv, Discipline = "requests",
         NEW w \in Workers, NEW s \in Shipments, WorkerTake(w, s)
  PROVE  FitInv'
  <1> PICK n : n = [IdleWork EXCEPT !.at = "mark", !.shipment = s]
    OBVIOUS
  <1>1. n.shipment = s
    BY DEF IdleWork
  <1>2. /\ work' = [work EXCEPT ![w] = n]
        /\ UNCHANGED << shipments, intents, dispatch, patch >>
    BY DEF WorkerTake, storeVars
  <1>3. (\A t \in Shipments : SameLoad(t)) /\ EarlyKept /\ OwnersKept
    BY <1>2, OwnersUnchanged DEF SameLoad, EarlyKept
  <1>4. /\ \A e \in Dispatchers : DispatchFits(dispatch[e])'
        /\ \A q \in Patchers : PatchFits(patch[q])'
    BY <1>2, <1>3, DispatchesFitStill, PatchesFitStill
    DEF FitInv, TypeOK, DispatchOK, PatchOK, Serving
  <1>5. /\ \A d \in Dispatchers : dispatch[d].shipment # s
        /\ \A p \in Patchers : patch[p].shipment # s
        /\ work'[w] = n /\ \A v \in Workers \ { w } : work'[v] = work[v]
    BY <1>2 DEF WorkerTake, MayRequest, NothingOn, NoPatchOn, TypeOK, WorkOK
  <1>6. WorkAlone'
    BY <1>1, <1>2, <1>5 DEF FitInv, WorkAlone
  <1> QED
    BY <1>3, <1>4, <1>6, HoldsKept DEF FitInv

LEMMA FitStep ==
  ASSUME Discipline = "requests", TypeOK, BookingInv, PriceInv, FitInv, [Next]_vars
  PROVE  FitInv'
  <1>1. CASE UNCHANGED vars
    <2>1. \A t \in Shipments : SameLoad(t)
      BY <1>1 DEF vars, SameLoad
    <2>2. /\ \A e \in Dispatchers : DispatchFits(dispatch[e])'
          /\ \A q \in Patchers : PatchFits(patch[q])'
      BY <1>1, <2>1, DispatchesFitStill, PatchesFitStill
      DEF vars, FitInv, TypeOK, DispatchOK, PatchOK, Serving
    <2>3. OwnersKept /\ EarlyKept /\ SlotsOnward
      BY <1>1, OwnersUnchanged DEF vars, EarlyKept, SlotsOnward
    <2> QED
      BY <2>2, <2>3, HoldsKept, WorkAloneOnward DEF FitInv
  <1> QED
    BY <1>1, FitCreate, FitDispatchStarts, FitDispatch, FitPatchStarts, FitPatch,
       FitWorkStarts, FitWork, FitCrash
    DEF Next

LEMMA LifecycleInvInit == Init => LifecycleInv
  BY TypeInit, BookingInit, LedgerInit, PriceInit, FitInit DEF LifecycleInv

LEMMA LifecycleInvStep ==
  ASSUME Discipline = "requests", LifecycleInv, [Next]_vars
  PROVE  LifecycleInv'
  BY TypeStep, BookingStep, LedgerStep, PriceStep, FitStep DEF LifecycleInv

-----------------------------------------------------------------------------
(* The state of Lifecycle, and what a step does to it.                       *)

StatusView  == [s \in Shipments |-> shipments[s].status]
CarrierView == [s \in Shipments |-> shipments[s].carrier]
HoldView    == [s \in Shipments |-> HoldOf(s)]

Stutters == UNCHANGED << StatusView, CarrierView, carriers, HoldView >>

\* HoldOf, of any record of Stripe's.
HoldIn(table, s) ==
    LET states == { table[i].state : i \in { j \in Intents :
                                               table[j].shipment = s } }
    IN  CASE "succeeded" \in states        -> "captured"
          [] "requires_capture" \in states -> "held"
          [] "canceled" \in states         -> "released"
          [] OTHER                         -> "none"

LEMMA HoldOfIsHoldIn ==
  ASSUME NEW s
  PROVE  HoldOf(s) = HoldIn(intents, s) /\ HoldOf(s)' = HoldIn(intents', s)
  BY DEF HoldOf, HoldIn

LEMMA HoldNone ==
  ASSUME NEW table, NEW s, \A i \in Intents : table[i].shipment # s
  PROVE  HoldIn(table, s) = "none"
  BY DEF HoldIn

\* A shipment with one intent: the hold is where that intent is.
LEMMA HoldOne ==
  ASSUME NEW table, NEW s, NEW i \in Intents, table[i].shipment = s,
         \A j \in Intents : table[j].shipment = s => j = i
  PROVE  /\ table[i].state = "requires_capture" => HoldIn(table, s) = "held"
         /\ table[i].state = "succeeded" => HoldIn(table, s) = "captured"
         /\ table[i].state = "canceled" => HoldIn(table, s) = "released"
  <1>1. { table[k].state : k \in { j \in Intents : table[j].shipment = s } }
           = { table[i].state }
    OBVIOUS
  <1> QED
    BY <1>1 DEF HoldIn

LEMMA HoldSame ==
  ASSUME NEW table, NEW old, NEW s,
         \A j \in Intents : table[j].shipment = s \/ old[j].shipment = s =>
            table[j] = old[j]
  PROVE  HoldIn(table, s) = HoldIn(old, s)
  <1>1. { table[k].state : k \in { j \in Intents : table[j].shipment = s } }
           = { old[k].state : k \in { j \in Intents : old[j].shipment = s } }
    OBVIOUS
  <1> QED
    BY <1>1 DEF HoldIn

\* A step that leaves Stripe alone leaves every hold alone.
LEMMA HoldsUnchanged == UNCHANGED intents => UNCHANGED HoldView
  BY DEF HoldView, HoldOf

\* A step that moves the intents of one shipment moves its hold alone.
LEMMA HoldMoves ==
  ASSUME NEW s \in Shipments, NEW i \in Intents,
         \A j \in Intents \ { i } : intents'[j] = intents[j],
         intents[i].shipment \in { NoShipment, s }, intents'[i].shipment = s,
         \A j \in Intents \ { i } : intents[j].shipment # s
  PROVE  /\ intents'[i].state = "requires_capture" =>
               HoldView' = [HoldView EXCEPT ![s] = "held"]
         /\ intents'[i].state = "succeeded" =>
               HoldView' = [HoldView EXCEPT ![s] = "captured"]
         /\ intents'[i].state = "canceled" =>
               HoldView' = [HoldView EXCEPT ![s] = "released"]
  <1>1. ASSUME NEW t \in Shipments \ { s }
        PROVE  HoldOf(t)' = HoldOf(t)
    <2>1. \A j \in Intents : intents'[j].shipment = t \/ intents[j].shipment = t =>
             intents'[j] = intents[j]
      BY <1>1, IdsDisjoint
    <2> QED
      BY <2>1, HoldSame, HoldOfIsHoldIn
  <1>2. /\ intents'[i].state = "requires_capture" => HoldOf(s)' = "held"
        /\ intents'[i].state = "succeeded" => HoldOf(s)' = "captured"
        /\ intents'[i].state = "canceled" => HoldOf(s)' = "released"
    <2>1. \A j \in Intents : intents'[j].shipment = s => j = i
      OBVIOUS
    <2> QED
      BY <2>1, HoldOne, HoldOfIsHoldIn
  <1>3. ASSUME NEW h, HoldOf(s)' = h
        PROVE  HoldView' = [HoldView EXCEPT ![s] = h]
    BY <1>1, <1>3 DEF HoldView
  <1> QED
    BY <1>2, <1>3

\* A step that writes one row, and one that writes none that matters here.
LEMMA RowMoves ==
  ASSUME NEW s \in Shipments,
         \A t \in Shipments \ { s } : shipments'[t] = shipments[t]
  PROVE  /\ StatusView' = [StatusView EXCEPT ![s] = shipments'[s].status]
         /\ CarrierView' = [CarrierView EXCEPT ![s] = shipments'[s].carrier]
         /\ shipments'[s].carrier = shipments[s].carrier => UNCHANGED CarrierView
  BY DEF StatusView, CarrierView

LEMMA RowsStay ==
  ASSUME \A t \in Shipments : /\ shipments'[t].status = shipments[t].status
                             /\ shipments'[t].carrier = shipments[t].carrier
  PROVE  UNCHANGED << StatusView, CarrierView >>
  BY DEF StatusView, CarrierView

-----------------------------------------------------------------------------
(* Every step is an event of Lifecycle, or none.                             *)

\* Both modules take the names of the statuses from ShipmentStatus.
LEMMA SameNames ==
    /\ Abstract!StatusPending = StatusPending
    /\ Abstract!StatusDispatched = StatusDispatched
    /\ Abstract!StatusInTransit = StatusInTransit
    /\ Abstract!StatusDelivered = StatusDelivered
    /\ Abstract!StatusCancelled = StatusCancelled
    /\ Abstract!StatusNoMatch = StatusNoMatch
    /\ Abstract!StatusMatching = StatusMatching
    /\ Abstract!StatusMatched = StatusMatched
    /\ Abstract!ActiveStatuses = ActiveStatuses
  BY DEF Abstract!StatusPending, StatusPending, Abstract!StatusDispatched,
         StatusDispatched, Abstract!StatusInTransit, StatusInTransit,
         Abstract!StatusDelivered, StatusDelivered, Abstract!StatusCancelled,
         StatusCancelled, Abstract!StatusNoMatch, StatusNoMatch,
         Abstract!StatusMatching, StatusMatching, Abstract!StatusMatched,
         StatusMatched, Abstract!ActiveStatuses, ActiveStatuses

LEMMA SimStutter ==
  ASSUME \A t \in Shipments : /\ shipments'[t].status = shipments[t].status
                             /\ shipments'[t].carrier = shipments[t].carrier,
         UNCHANGED << carriers, intents >>
  PROVE  UNCHANGED Abstract!lifecycleVars
  BY RowsStay, HoldsUnchanged
  DEF Abstract!lifecycleVars, StatusView, CarrierView, HoldView

LEMMA SimCreate ==
  ASSUME TypeOK,
         (\E c \in Carriers : CreateCarrier(c)) \/ (\E s \in Shipments : CreateShipment(s)),
         BookingInv
  PROVE  Abstract!Next
  <1>1. UNCHANGED HoldView
    BY HoldsUnchanged DEF CreateCarrier, CreateShipment
  <1>2. ASSUME NEW c \in Carriers, CreateCarrier(c)
        PROVE  Abstract!RegisterCarrier(c)
    BY <1>1, <1>2
    DEF CreateCarrier, SaveCarrier, CarrierExists, Abstract!RegisterCarrier, HoldView
  <1>3. ASSUME NEW s \in Shipments, CreateShipment(s)
        PROVE  Abstract!Post(s)
    <2> DEFINE row == [NoRow EXCEPT !.status = StatusPending]
    <2>1. row.status = StatusPending /\ row.carrier = NoCarrier
      BY DEF NoRow
    <2>2. /\ shipments'[s] = row /\ UNCHANGED carriers
          /\ \A t \in Shipments \ { s } : shipments'[t] = shipments[t]
          /\ shipments[s].status = "absent"
      BY <1>3 DEF CreateShipment, SaveShipment, ShipmentExists, TypeOK, StoreTypeOK
    <2>3. shipments[s].carrier = NoCarrier
      BY <2>2 DEF BookingInv, PendingUnassigned
    <2> HIDE DEF row
    <2>4. /\ StatusView' = [StatusView EXCEPT ![s] = StatusPending]
          /\ UNCHANGED CarrierView
      BY <2>1, <2>2, <2>3, RowMoves
    <2> QED
      BY <1>1, <2>2, <2>4, SameNames
      DEF Abstract!Post, StatusView, CarrierView, HoldView
  <1> QED
    BY <1>2, <1>3 DEF Abstract!Next

\* A match job may write over any status.
LEMMA SimWork ==
  ASSUME TypeOK, NEW w \in Workers, WorkerContinues(w)
  PROVE  Abstract!Next \/ UNCHANGED Abstract!lifecycleVars
  <1> PICK r : r = work[w]
    OBVIOUS
  <1>1. /\ r.shipment \in Shipments /\ shipments[r.shipment].status # "absent"
        /\ r.at = "conclude" => r.verdict \in { StatusMatched, StatusNoMatch }
        /\ UNCHANGED intents
    BY DEF TypeOK, WorkOK, WorkSlot, Serving, ShipmentExists, WorkerContinues,
           WorkerMark, WorkerRank, WorkerConclude
  <1>2. \/ UNCHANGED storeVars
        \/ \E status \in { StatusMatching, StatusMatched, StatusNoMatch } :
              UpdateShipmentStatus(r.shipment, status)
    BY <1>1 DEF WorkerContinues, WorkerMark, WorkerRank, WorkerConclude
  <1>3. CASE UNCHANGED storeVars
    BY <1>1, <1>3, SimStutter DEF storeVars
  <1>4. ASSUME NEW status \in { StatusMatching, StatusMatched, StatusNoMatch },
               UpdateShipmentStatus(r.shipment, status)
        PROVE  Abstract!Screen(r.shipment)
    <2>1. /\ StatusView' = [StatusView EXCEPT ![r.shipment] = status]
          /\ UNCHANGED << CarrierView, carriers, HoldView >>
      BY <1>1, <1>4, StatusWritten, RowMoves, HoldsUnchanged DEF TypeOK
    <2> QED
      BY <1>1, <2>1, SameNames DEF Abstract!Screen, StatusView, CarrierView, HoldView
  <1> QED
    BY <1>1, <1>2, <1>3, <1>4 DEF Abstract!Next

\* A booking, a hold placed, or no event.
LEMMA SimDispatch ==
  ASSUME TypeOK, FitInv, NEW d \in Dispatchers, DispatchContinues(d)
  PROVE  Abstract!Next \/ UNCHANGED Abstract!lifecycleVars
  <1> PICK r : r = dispatch[d]
    OBVIOUS
  <1>1. /\ r \in DispatchSlot /\ r.shipment \in Shipments /\ r.carrier \in Carriers
        /\ DispatchFits(r)
    BY DEF TypeOK, DispatchOK, Serving, FitInv, DispatchContinues, DispatchBook,
           DispatchRefused, DispatchAuthorize, DispatchUnauthorized, DispatchRecord
  <1>2. CASE DispatchBook(d)
    <2>1. /\ Dispatch(r.shipment, r.carrier, r.price) /\ UNCHANGED intents
          /\ shipments[r.shipment].status = StatusPending
      BY <1>1, <1>2 DEF DispatchBook, DispatchFits
    <2>2. /\ StatusView' = [StatusView EXCEPT ![r.shipment] = StatusDispatched]
          /\ CarrierView' = [CarrierView EXCEPT ![r.shipment] = r.carrier]
          /\ UNCHANGED HoldView
      BY <1>1, <2>1, BookWritten, RowMoves, HoldsUnchanged DEF TypeOK
    <2>3. Abstract!Book(r.shipment, r.carrier)
      BY <1>1, <2>1, <2>2, SameNames
      DEF Dispatch, Abstract!Book, StatusView, CarrierView, HoldView
    <2> QED
      BY <1>1, <2>3 DEF Abstract!Next
  <1>3. CASE DispatchAuthorize(d)
    <2>1. /\ shipments[r.shipment].status = StatusDispatched
          /\ shipments[r.shipment].carrier = r.carrier
          /\ ~Owned(r.shipment) /\ UNCHANGED << shipments, carriers >>
      BY <1>1, <1>3 DEF DispatchAuthorize, DispatchFits, storeVars
    <2>2. PICK i \in Intents : AuthorizePayment(i, r.shipment, AmountCents(r.price))
      BY <1>3 DEF DispatchAuthorize
    <2>3. /\ intents'[i].shipment = r.shipment
          /\ intents'[i].state = "requires_capture"
          /\ intents[i].shipment = NoShipment
          /\ \A j \in Intents \ { i } : intents'[j] = intents[j]
      BY <1>1, <2>1, <2>2, PlacedHold DEF TypeOK
    <2>4. HoldView' = [HoldView EXCEPT ![r.shipment] = "held"]
      BY <1>1, <2>1, <2>3, HoldMoves DEF Owned
    <2>5. HoldOf(r.shipment) = "none"
      BY <2>1, HoldNone, HoldOfIsHoldIn DEF Owned
    <2>6. UNCHANGED << StatusView, CarrierView >>
      BY <2>1, RowsStay
    <2>7. Abstract!PlaceHold(r.shipment)
      BY <1>1, <2>1, <2>4, <2>5, <2>6, SameNames, IdsDisjoint
      DEF Abstract!PlaceHold, StatusView, CarrierView, HoldView
    <2> QED
      BY <1>1, <2>7 DEF Abstract!Next
  <1>4. CASE DispatchRefused(d) \/ DispatchUnauthorized(d) \/ DispatchRecord(d)
    <2>1. /\ UNCHANGED intents
          /\ \/ UNCHANGED storeVars
             \/ UpdateShipmentPayment(r.shipment, r.intent, "requires_capture")
      BY <1>4 DEF DispatchRefused, DispatchUnauthorized, DispatchRecord
    <2>2. /\ \A t \in Shipments : /\ shipments'[t].status = shipments[t].status
                                  /\ shipments'[t].carrier = shipments[t].carrier
          /\ UNCHANGED carriers
      BY <1>1, <2>1, PaymentWritten DEF storeVars, TypeOK
    <2> QED
      BY <2>1, <2>2, SimStutter
  <1> QED
    BY <1>2, <1>3, <1>4 DEF DispatchContinues

\* The status written is the one checked against the table, on a row that has
\* not moved since.
LEMMA SimPatchWrite ==
  ASSUME TypeOK, BookingInv, FitInv, NEW p \in Patchers,
         patch[p].at = "write", UpdateShipmentStatus(patch[p].shipment, patch[p].target),
         UNCHANGED intents
  PROVE  Abstract!Next
  <1> PICK r : r = patch[p]
    OBVIOUS
  <1> PICK s : s = r.shipment
    OBVIOUS
  <1>1. /\ s \in Shipments /\ PatchFits(r) /\ r.at = "write"
        /\ UpdateShipmentStatus(s, r.target)
    BY DEF TypeOK, PatchOK, Serving, FitInv
  <1>2. ValidateTransition(shipments[s].status, r.target)
    BY <1>1 DEF PatchFits
  <1>3. /\ StatusView' = [StatusView EXCEPT ![s] = r.target]
        /\ UNCHANGED << CarrierView, carriers, HoldView >>
    BY <1>1, StatusWritten, RowMoves, HoldsUnchanged DEF TypeOK
  <1>4. CASE shipments[s].status = StatusPending /\ r.target = StatusDispatched
    <2>1. shipments[s].carrier = NoCarrier
      BY <1>1, <1>4 DEF BookingInv, PendingUnassigned
    <2>2. Abstract!DispatchUnbooked(s)
      BY <1>1, <1>3, <1>4, <2>1, SameNames
      DEF Abstract!DispatchUnbooked, StatusView, CarrierView, HoldView
    <2> QED
      BY <1>1, <2>2 DEF Abstract!Next
  <1>5. CASE shipments[s].status = StatusPending /\ r.target = StatusNoMatch
    <2>1. shipments[s].status # "absent"
      BY <1>5 DEF StatusPending
    <2>2. Abstract!Screen(s)
      BY <1>1, <1>3, <1>5, <2>1, SameNames
      DEF Abstract!Screen, StatusView, CarrierView, HoldView
    <2> QED
      BY <1>1, <2>2 DEF Abstract!Next
  <1>6. CASE shipments[s].status = StatusDispatched /\ r.target = StatusInTransit
    <2>1. Abstract!Depart(s)
      BY <1>1, <1>3, <1>6, SameNames
      DEF Abstract!Depart, Abstract!Move, StatusView, CarrierView, HoldView
    <2> QED
      BY <1>1, <2>1 DEF Abstract!Next
  <1>7. CASE shipments[s].status = StatusInTransit /\ r.target = StatusDelivered
    <2>1. Abstract!Deliver(s)
      BY <1>1, <1>3, <1>7, SameNames
      DEF Abstract!Deliver, Abstract!Move, StatusView, CarrierView, HoldView
    <2> QED
      BY <1>1, <2>1 DEF Abstract!Next
  <1>8. CASE shipments[s].status \in ActiveStatuses /\ r.target = StatusCancelled
    <2>1. Abstract!Cancel(s)
      BY <1>1, <1>3, <1>8, SameNames
      DEF Abstract!Cancel, Abstract!Move, StatusView, CarrierView, HoldView
    <2> QED
      BY <1>1, <2>1 DEF Abstract!Next
  <1> QED
    BY <1>2, <1>4, <1>5, <1>6, <1>7, <1>8
    DEF ValidateTransition, AllowedTransitions, ActiveStatuses

\* The hold settled is the one hold of a shipment that has come to its end.
LEMMA SimPatchSettle ==
  ASSUME TypeOK, LedgerInv, FitInv, NEW p \in Patchers, PatchSettle(p)
  PROVE  Abstract!Next
  <1> PICK r : r = patch[p]
    OBVIOUS
  <1> PICK s, i : s = r.shipment /\ i = r.intent
    OBVIOUS
  <1>1. /\ s \in Shipments /\ r.at = "settle" /\ PatchFits(r) /\ PatchBacked(r)
        /\ UNCHANGED << shipments, carriers >>
    BY DEF PatchSettle, TypeOK, PatchOK, Serving, FitInv, LedgerInv, storeVars
  <1>2. /\ shipments[s].status = r.target
        /\ i \in Intents /\ intents[i].shipment = s
    BY <1>1 DEF PatchFits, PatchBacked, Backs
  <1>3. \A j \in Intents \ { i } : intents[j].shipment # s
    BY <1>1, <1>2, IdsDisjoint DEF FitInv, OneHoldEach
  <1>4. \/ r.target = StatusDelivered /\ CapturePayment(i)
        \/ r.target = StatusCancelled /\ CancelPayment(i)
    BY DEF PatchSettle
  <1>5. /\ intents[i].state = "requires_capture"
        /\ \A j \in Intents \ { i } : intents'[j] = intents[j]
        /\ intents'[i].shipment = s
    BY <1>2, <1>4 DEF CapturePayment, CancelPayment, TypeOK, StripeTypeOK
  <1>6. HoldOf(s) = "held"
    BY <1>2, <1>3, <1>5, HoldOne, HoldOfIsHoldIn
  <1>7. UNCHANGED << StatusView, CarrierView >>
    BY <1>1, RowsStay
  <1>8. CASE r.target = StatusDelivered /\ CapturePayment(i)
    <2>1. intents'[i].state = "succeeded"
      BY <1>2, <1>8 DEF CapturePayment, TypeOK, StripeTypeOK
    <2>2. HoldView' = [HoldView EXCEPT ![s] = "captured"]
      BY <1>1, <1>2, <1>3, <1>5, <2>1, HoldMoves
    <2>3. Abstract!Charge(s)
      BY <1>1, <1>2, <1>6, <1>7, <1>8, <2>2, SameNames
      DEF Abstract!Charge, StatusView, CarrierView, HoldView
    <2> QED
      BY <1>1, <2>3 DEF Abstract!Next
  <1>9. CASE r.target = StatusCancelled /\ CancelPayment(i)
    <2>1. intents'[i].state = "canceled"
      BY <1>2, <1>9 DEF CancelPayment, TypeOK, StripeTypeOK
    <2>2. HoldView' = [HoldView EXCEPT ![s] = "released"]
      BY <1>1, <1>2, <1>3, <1>5, <2>1, HoldMoves
    <2>3. Abstract!ReleaseHold(s)
      BY <1>1, <1>2, <1>6, <1>7, <1>9, <2>2, SameNames
      DEF Abstract!ReleaseHold, StatusView, CarrierView, HoldView
    <2> QED
      BY <1>1, <2>3 DEF Abstract!Next
  <1> QED
    BY <1>4, <1>8, <1>9

\* The carrier released is the cancelled shipment's, and no other load's.
LEMMA SimPatchRelease ==
  ASSUME TypeOK, BookingInv, FitInv, NEW p \in Patchers, PatchRelease(p)
  PROVE  Abstract!Next \/ UNCHANGED Abstract!lifecycleVars
  <1> PICK r : r = patch[p]
    OBVIOUS
  <1> PICK s, c : s = r.shipment /\ c = r.carrier
    OBVIOUS
  <1>1. /\ s \in Shipments /\ r.at = "release" /\ PatchFits(r)
        /\ c \in Carriers \cup { NoCarrier }
        /\ UNCHANGED << shipments, intents >>
    BY DEF PatchRelease, ReleaseCarrier, TypeOK, PatchOK, PatchSlot, Serving, FitInv,
           storeVars
  <1>2. r.target = StatusCancelled
    BY <1>1 DEF BookingInv, CancelledOffRoad
  <1>3. shipments[s].status = StatusCancelled /\ shipments[s].carrier = c
    BY <1>1, <1>2 DEF PatchFits
  <1>4. CASE UNCHANGED carriers
    BY <1>1, <1>4, SimStutter
  <1>5. CASE ReleaseCarrier(c) /\ c \in Carriers
    <2>1. Claims(s, c)
      BY <1>1, <1>2 DEF Claims
    <2>2. /\ carriers[c] = "booked"
          /\ \A t \in Shipments \ { s } : ~OnTheRoad(t, c)
      BY <1>1, <1>5, <2>1 DEF BookingInv, ClaimsExclusive, Claims
    <2>3. carriers' = [carriers EXCEPT ![c] = "available"]
      BY <1>5 DEF ReleaseCarrier
    <2>4. UNCHANGED << StatusView, CarrierView, HoldView >>
      BY <1>1, RowsStay, HoldsUnchanged
    <2>5. Abstract!FreeCarrier(s)
      BY <1>1, <1>3, <1>5, <2>2, <2>3, <2>4, SameNames, IdsDisjoint
      DEF Abstract!FreeCarrier, StatusView, CarrierView, HoldView, OnTheRoad
    <2> QED
      BY <1>1, <2>5 DEF Abstract!Next
  <1>6. CASE ReleaseCarrier(c) /\ c = NoCarrier
    BY <1>4, <1>6, IdsDisjoint DEF ReleaseCarrier, TypeOK, StoreTypeOK
  <1> QED
    BY <1>1, <1>4, <1>5, <1>6 DEF PatchRelease, storeVars

LEMMA SimPatch ==
  ASSUME LifecycleInv, NEW p \in Patchers, PatchContinues(p)
  PROVE  Abstract!Next \/ UNCHANGED Abstract!lifecycleVars
  <1> USE DEF LifecycleInv
  <1>1. CASE PatchWrite(p)
    <2>1. CASE UpdateShipmentStatus(patch[p].shipment, patch[p].target)
      BY <1>1, <2>1, SimPatchWrite DEF PatchWrite
    <2>2. CASE UNCHANGED storeVars
      BY <1>1, <2>2, SimStutter DEF PatchWrite, storeVars
    <2> QED
      BY <1>1, <2>1, <2>2 DEF PatchWrite
  <1>2. CASE PatchUnsettled(p) \/ PatchRecord(p)
    <2>1. /\ UNCHANGED intents
          /\ patch[p].shipment \in Shipments
          /\ \/ UNCHANGED storeVars
             \/ UpdateShipmentPayment(patch[p].shipment, patch[p].intent,
                                      patch[p].result)
      BY <1>2 DEF PatchUnsettled, PatchRecord, TypeOK, PatchOK, Serving
    <2>2. /\ \A t \in Shipments : /\ shipments'[t].status = shipments[t].status
                                  /\ shipments'[t].carrier = shipments[t].carrier
          /\ UNCHANGED carriers
      BY <2>1, PaymentWritten DEF storeVars, TypeOK
    <2> QED
      BY <2>1, <2>2, SimStutter
  <1> QED
    BY <1>1, <1>2, SimPatchSettle, SimPatchRelease DEF PatchContinues

LEMMA SimInit == Init => Abstract!Init
  <1> SUFFICES ASSUME Init PROVE Abstract!Init
    OBVIOUS
  <1>1. \A s \in Shipments : HoldOf(s) = "none"
    BY HoldNone, HoldOfIsHoldIn, IdsDisjoint DEF Init, StripeInit
  <1> QED
    BY <1>1 DEF Init, StoreInit, NoRow, Abstract!Init

LEMMA SimStep ==
  ASSUME LifecycleInv, [Next]_vars
  PROVE  Abstract!Next \/ UNCHANGED Abstract!lifecycleVars
  <1> USE DEF LifecycleInv
  <1>1. CASE \/ \E d \in Dispatchers, s \in Shipments, c \in Carriers, price \in Prices :
                  DispatchRead(d, s, c, price)
             \/ \E p \in Patchers, s \in Shipments, target \in ClientStatuses :
                  PatchRead(p, s, target)
             \/ \E w \in Workers, s \in Shipments : WorkerTake(w, s)
             \/ Crash
             \/ UNCHANGED vars
    BY <1>1, SimStutter
    DEF DispatchRead, PatchRead, WorkerTake, Crash, vars, storeVars
  <1> QED
    BY <1>1, SimCreate, SimWork, SimDispatch, SimPatch DEF Next

\* The service implements Lifecycle when clients have one request in flight per
\* shipment: whatever fails or crashes between two of its calls, nobody is charged
\* for a load that is not delivered, no load is held for twice, and a carrier is
\* let go only when no other load has it (handlers.go:204-310).
THEOREM LifecycleImplemented ==
  ASSUME Discipline = "requests"
  PROVE  Spec => ImplementsLifecycle
  <1>1. LifecycleInv /\ [Next]_vars => LifecycleInv'
    BY LifecycleInvStep
  <1>2. LifecycleInv /\ [Next]_vars => [Abstract!Next]_(Abstract!lifecycleVars)
    BY SimStep
  <1> QED
    BY <1>1, <1>2, LifecycleInvInit, SimInit, PTL DEF Spec, ImplementsLifecycle, Abstract!Spec

-----------------------------------------------------------------------------
(* How one load moves in a step, read off the events of Lifecycle: what the  *)
(* proofs of the liveness properties' invariants start from.                 *)

\* The step of one load.
TableStep(s) ==
    LET from == shipments[s].status
        to   == shipments'[s].status
    IN  from # to => \/ from = "absent" /\ to = StatusPending
                     \/ << from, to >> \in AllowedTransitions
                     \/ to \in Verdicts

\* An event moves at most one load.
LEMMA OneLoadMoves ==
  ASSUME NEW s \in Shipments, NEW to, StatusView' = [StatusView EXCEPT ![s] = to]
  PROVE  /\ shipments'[s].status = to
         /\ \A t \in Shipments \ { s } : shipments'[t].status = shipments[t].status
  <1>1. /\ StatusView'[s] = to
        /\ \A t \in Shipments \ { s } : StatusView'[t] = StatusView[t]
    BY DEF StatusView
  <1> QED
    BY <1>1 DEF StatusView

LEMMA RestingLoads ==
  ASSUME UNCHANGED StatusView, NEW s \in Shipments
  PROVE  TableStep(s)
  <1>1. StatusView'[s] = StatusView[s]
    OBVIOUS
  <1> QED
    BY <1>1 DEF StatusView, TableStep

LEMMA MovedLoad ==
  ASSUME NEW s \in Shipments, NEW to, StatusView' = [StatusView EXCEPT ![s] = to],
         \/ shipments[s].status = "absent" /\ to = StatusPending
         \/ << shipments[s].status, to >> \in AllowedTransitions
         \/ to \in Verdicts,
         NEW t \in Shipments
  PROVE  TableStep(t)
  BY OneLoadMoves DEF TableStep

LEMMA EventsObeyTable ==
  ASSUME Abstract!Next, NEW t \in Shipments
  PROVE  TableStep(t)
  <1>1. ASSUME NEW s \in Shipments, Abstract!Post(s)
        PROVE  TableStep(t)
    BY <1>1, MovedLoad, SameNames DEF Abstract!Post, StatusView
  <1>2. ASSUME NEW s \in Shipments, Abstract!Screen(s)
        PROVE  TableStep(t)
    <2>1. PICK to \in Verdicts : StatusView' = [StatusView EXCEPT ![s] = to]
      BY <1>2, SameNames DEF Abstract!Screen, StatusView, Verdicts
    <2> QED
      BY <2>1, MovedLoad
  <1>3. ASSUME NEW s \in Shipments,
               Abstract!DispatchUnbooked(s) \/ \E c \in Carriers : Abstract!Book(s, c)
        PROVE  TableStep(t)
    <2>1. /\ shipments[s].status = StatusPending
          /\ StatusView' = [StatusView EXCEPT ![s] = StatusDispatched]
      BY <1>3, SameNames DEF Abstract!DispatchUnbooked, Abstract!Book, StatusView
    <2> QED
      BY <2>1, MovedLoad DEF AllowedTransitions
  <1>4. ASSUME NEW s \in Shipments,
               Abstract!Depart(s) \/ Abstract!Deliver(s) \/ Abstract!Cancel(s)
        PROVE  TableStep(t)
    <2>1. ASSUME NEW from, NEW to, Abstract!Move(s, from, to)
          PROVE  /\ shipments[s].status \in from
                 /\ StatusView' = [StatusView EXCEPT ![s] = to]
      BY <2>1 DEF Abstract!Move, StatusView
    <2>2. CASE Abstract!Depart(s)
      BY <2>1, <2>2, MovedLoad, SameNames DEF Abstract!Depart, AllowedTransitions
    <2>3. CASE Abstract!Deliver(s)
      BY <2>1, <2>3, MovedLoad, SameNames DEF Abstract!Deliver, AllowedTransitions
    <2>4. CASE Abstract!Cancel(s)
      BY <2>1, <2>4, MovedLoad, SameNames
      DEF Abstract!Cancel, AllowedTransitions, ActiveStatuses
    <2> QED
      BY <1>4, <2>2, <2>3, <2>4
  <1>5. ASSUME \/ \E c \in Carriers : Abstract!RegisterCarrier(c)
               \/ \E s \in Shipments : \/ Abstract!FreeCarrier(s)
                                       \/ Abstract!PlaceHold(s)
                                       \/ Abstract!Charge(s)
                                       \/ Abstract!ReleaseHold(s)
        PROVE  TableStep(t)
    <2>1. UNCHANGED StatusView
      BY <1>5
      DEF Abstract!RegisterCarrier, Abstract!FreeCarrier, Abstract!PlaceHold,
          Abstract!Charge, Abstract!ReleaseHold, StatusView
    <2> QED
      BY <2>1, RestingLoads
  <1> QED
    BY <1>1, <1>2, <1>3, <1>4, <1>5 DEF Abstract!Next

LEMMA LoadsStep ==
  ASSUME LifecycleInv, [Next]_vars
  PROVE  \A s \in Shipments : TableStep(s)
  <1>1. CASE Abstract!Next
    BY <1>1, EventsObeyTable
  <1>2. CASE UNCHANGED Abstract!lifecycleVars
    BY <1>2, RestingLoads DEF Abstract!lifecycleVars, StatusView
  <1> QED
    BY <1>1, <1>2, SimStep

=============================================================================
