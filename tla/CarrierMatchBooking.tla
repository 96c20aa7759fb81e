------------------------ MODULE CarrierMatchBooking ------------------------
(***************************************************************************)
(* No double booking, when clients keep the PATCH requests on one shipment *)
(* from overlapping.                                                       *)
(*                                                                         *)
(* The invariant is about claims: from the moment Dispatch books a carrier *)
(* until the cancellation that read it as its shipment's carrier is done,  *)
(* the carrier stays booked and no other shipment claims it.  Most steps   *)
(* only give claims up; the proof takes those together and the four steps  *)
(* that book, start a PATCH, write its status and release a carrier one by *)
(* one.                                                                    *)
(***************************************************************************)
EXTENDS CarrierMatchTypes

\* Rows that keep their carrier and do not get back on the road, and new rows.
RowsSettle ==
    \A s \in Shipments :
        \/ /\ shipments'[s].carrier = shipments[s].carrier
           /\ shipments'[s].status = shipments[s].status
        \/ /\ shipments'[s].carrier = shipments[s].carrier
           /\ shipments'[s].status \notin
                 ActiveStatuses \cup { "absent", StatusPending }
        \/ /\ shipments'[s].carrier = NoCarrier
           /\ shipments'[s].status = StatusPending

\* PATCH requests that stand still, end, or go on after their write.
PatchesOnward ==
    \A p \in Patchers :
        \/ patch'[p] = patch[p]
        \/ patch'[p].at = "idle" /\ patch'[p].shipment = NoShipment
        \/ /\ patch[p].at \in { "settle", "record", "release" }
           /\ patch'[p].at \in { "record", "release" }
           /\ patch'[p].shipment = patch[p].shipment
           /\ patch'[p].target = patch[p].target
           /\ patch'[p].carrier = patch[p].carrier
           /\ patch'[p].at = "release" => patch[p].target = StatusCancelled

\* Carriers that are booked stay so.
BookedKept == \A c \in Carriers : carriers[c] = "booked" => carriers'[c] = "booked"

\* Claims can only be given up.
ClaimsShrink == \A s \in Shipments, c \in Carriers : Claims(s, c)' => Claims(s, c)

LEMMA ExclusiveKept ==
  ASSUME ClaimsExclusive, ClaimsShrink, BookedKept
  PROVE  ClaimsExclusive'
  BY DEF ClaimsExclusive, ClaimsShrink, BookedKept

\* The statuses that matter here are different from one another.
LEMMA StatusFacts ==
    /\ ActiveStatuses = { "dispatched", "in_transit" }
    /\ StatusPending = "pending" /\ StatusCancelled = "cancelled"
    /\ StatusDispatched = "dispatched"
  BY DEF ActiveStatuses, StatusPending, StatusCancelled, StatusDispatched,
         StatusInTransit

\* A step of that kind keeps the invariant.
LEMMA BookingQuiet ==
  ASSUME TypeOK, TypeOK', BookingInv, RowsSettle, PatchesOnward, BookedKept
  PROVE  BookingInv'
  <1> USE DEF BookingInv
  <1>1. PendingUnassigned'
    BY DEF PendingUnassigned, RowsSettle
  <1>2. ASSUME NEW s \in Shipments, NEW c \in Carriers, OnTheRoad(s, c)'
        PROVE  OnTheRoad(s, c)
    BY <1>2, IdsDisjoint, StatusFacts DEF RowsSettle, OnTheRoad
  <1>3. ASSUME NEW s \in Shipments, NEW c \in Carriers, Claims(s, c)'
        PROVE  Claims(s, c)
    <2>1. CASE OnTheRoad(s, c)'
      BY <1>2, <2>1 DEF Claims
    <2>2. ASSUME NEW p \in Patchers, patch'[p].shipment = s,
                 \/ /\ patch'[p].at = "write" /\ patch'[p].target \in ActiveStatuses
                    /\ shipments'[s].carrier = c
                 \/ /\ patch'[p].at # "idle" /\ patch'[p].target = StatusCancelled
                    /\ patch'[p].carrier = c
          PROVE  Claims(s, c)
      <3>1. shipments'[s].carrier = c => shipments[s].carrier = c
        BY IdsDisjoint DEF RowsSettle
      <3> QED
        BY <2>2, <3>1 DEF PatchesOnward, Claims
    <2> QED
      BY <1>3, <2>1, <2>2 DEF Claims
  <1>4. ClaimsExclusive'
    BY <1>3, ExclusiveKept DEF ClaimsShrink
  <1>5. OnePatchEach'
    <2> SUFFICES ASSUME NEW p \in Patchers, NEW q \in Patchers,
                        patch'[p].at # "idle",
                        patch'[q].shipment = patch'[p].shipment
                 PROVE  p = q
      BY DEF OnePatchEach
    <2>1. patch'[p].shipment \in Shipments
      BY DEF TypeOK, PatchOK, Serving
    <2>2. patch[p].at # "idle" /\ patch[p].shipment = patch'[p].shipment
      BY DEF PatchesOnward
    <2>3. patch[q].shipment = patch'[q].shipment
      BY <2>1, IdsDisjoint DEF PatchesOnward
    <2> QED
      BY <2>2, <2>3 DEF OnePatchEach
  <1>6. CancelledOffRoad'
    <2> SUFFICES ASSUME NEW p \in Patchers
                 PROVE  /\ patch'[p].at \in { "settle", "record", "release" }
                               /\ patch'[p].target = StatusCancelled =>
                             ~(/\ shipments'[patch'[p].shipment].status \in ActiveStatuses
                               /\ shipments'[patch'[p].shipment].carrier = patch'[p].carrier)
                        /\ patch'[p].at = "release" => patch'[p].target = StatusCancelled
      BY DEF CancelledOffRoad, OnTheRoad
    <2>1. patch'[p].at = "release" => patch'[p].target = StatusCancelled
      BY DEF PatchesOnward, CancelledOffRoad
    <2>2. ASSUME patch'[p].at \in { "settle", "record", "release" },
                 patch'[p].target = StatusCancelled,
                 shipments'[patch'[p].shipment].status \in ActiveStatuses,
                 shipments'[patch'[p].shipment].carrier = patch'[p].carrier
          PROVE  FALSE
      <3>1. /\ patch[p].at \in { "settle", "record", "release" }
            /\ patch[p].target = StatusCancelled
            /\ patch[p].shipment = patch'[p].shipment
            /\ patch[p].carrier = patch'[p].carrier
        BY <2>2 DEF PatchesOnward
      <3>2. patch[p].shipment \in Shipments
        BY <3>1 DEF TypeOK, PatchOK, Serving
      <3>3. OnTheRoad(patch[p].shipment, patch[p].carrier)
        BY <2>2, <3>1, <3>2, StatusFacts DEF RowsSettle, OnTheRoad
      <3> QED
        BY <3>1, <3>3 DEF CancelledOffRoad
    <2> QED
      BY <2>1, <2>2
  <1> QED
    BY <1>1, <1>4, <1>5, <1>6


-----------------------------------------------------------------------------
(* The steps of that kind. *)

LEMMA PatchesStill == UNCHANGED patch => PatchesOnward
  BY DEF PatchesOnward

LEMMA PatchEnds ==
  ASSUME TypeOK, NEW p \in Patchers, patch' = [patch EXCEPT ![p] = IdlePatch]
  PROVE  PatchesOnward
  BY DEF TypeOK, PatchOK, PatchesOnward, IdlePatch

LEMMA RowsStill == UNCHANGED storeVars => RowsSettle /\ BookedKept
  BY DEF storeVars, RowsSettle, BookedKept

\* A status that is neither active nor "pending" takes a shipment off the road.
LEMMA StatusSettles ==
  ASSUME TypeOK, NEW s \in Shipments, NEW status,
         status \notin ActiveStatuses \cup { "absent", StatusPending },
         UpdateShipmentStatus(s, status)
  PROVE  RowsSettle /\ BookedKept
  <1>1. shipments[s] \in ShipmentRow
    BY DEF TypeOK, StoreTypeOK
  <1> DEFINE row == [shipments[s] EXCEPT !.status = status]
  <1>2. row.carrier = shipments[s].carrier /\ row.status = status
    BY <1>1 DEF ShipmentRow
  <1>3. /\ shipments'[s] = row
        /\ \A t \in Shipments \ { s } : shipments'[t] = shipments[t]
    BY DEF UpdateShipmentStatus, TypeOK, StoreTypeOK
  <1>4. UNCHANGED carriers
    BY DEF UpdateShipmentStatus
  <1> QED
    BY <1>2, <1>3, <1>4 DEF RowsSettle, BookedKept

\* Recording a payment moves no shipment.
LEMMA PaymentSettles ==
  ASSUME TypeOK, NEW s \in Shipments, NEW i, NEW paid,
         UpdateShipmentPayment(s, i, paid)
  PROVE  RowsSettle /\ BookedKept
  <1>1. shipments[s] \in ShipmentRow
    BY DEF TypeOK, StoreTypeOK
  <1> DEFINE row == [shipments[s] EXCEPT !.intent = i, !.paid = paid]
  <1>2. row.carrier = shipments[s].carrier /\ row.status = shipments[s].status
    BY <1>1 DEF ShipmentRow
  <1>3. /\ shipments'[s] = row
        /\ \A t \in Shipments \ { s } : shipments'[t] = shipments[t]
    BY DEF UpdateShipmentPayment, TypeOK, StoreTypeOK
  <1>4. UNCHANGED carriers
    BY DEF UpdateShipmentPayment
  <1> QED
    BY <1>2, <1>3, <1>4 DEF RowsSettle, BookedKept

\* The match workers: they write "matching", "matched" and "no_match" over any
\* status, and none of them puts a shipment on the road.
LEMMA QuietWork ==
  ASSUME TypeOK, NEW w \in Workers, WorkerContinues(w)
  PROVE  RowsSettle /\ PatchesOnward /\ BookedKept
  <1>1. work[w].at # "idle"
    BY DEF WorkerContinues, WorkerMark, WorkerRank, WorkerConclude
  <1>2. work[w].shipment \in Shipments /\ work[w] \in WorkSlot
        /\ (work[w].at = "conclude" => work[w].verdict # "")
    BY <1>1 DEF TypeOK, WorkOK, Serving
  <1>3. PatchesOnward
    BY PatchesStill DEF WorkerContinues, WorkerMark, WorkerRank, WorkerConclude
  <1>4. CASE WorkerMark(w)
    BY <1>2, <1>3, <1>4, StatusFacts, StatusSettles, RowsStill
    DEF WorkerMark, StatusMatching
  <1>5. CASE WorkerRank(w)
    BY <1>3, <1>5, RowsStill DEF WorkerRank
  <1>6. CASE WorkerConclude(w)
    <2>1. work[w].verdict \notin ActiveStatuses \cup { "absent", StatusPending }
      BY <1>2, <1>6, StatusFacts
      DEF WorkerConclude, WorkSlot, StatusMatched, StatusNoMatch
    <2> QED
      BY <1>2, <1>3, <1>6, <2>1, StatusSettles, RowsStill DEF WorkerConclude
  <1> QED
    BY <1>4, <1>5, <1>6 DEF WorkerContinues

\* A dispatch, but for the booking.
LEMMA QuietDispatch ==
  ASSUME TypeOK, NEW d \in Dispatchers,
         DispatchRefused(d) \/ DispatchAuthorize(d) \/ DispatchUnauthorized(d)
            \/ DispatchRecord(d)
  PROVE  RowsSettle /\ PatchesOnward /\ BookedKept
  <1>1. PatchesOnward
    BY PatchesStill
    DEF DispatchRefused, DispatchAuthorize, DispatchUnauthorized, DispatchRecord
  <1>2. CASE UNCHANGED storeVars
    BY <1>1, <1>2, RowsStill
  <1>3. CASE DispatchRecord(d)
    <2>1. dispatch[d].shipment \in Shipments
      BY <1>3 DEF DispatchRecord, TypeOK, DispatchOK, Serving
    <2> QED
      BY <1>1, <1>3, <2>1, PaymentSettles, RowsStill DEF DispatchRecord
  <1> QED
    BY <1>2, <1>3 DEF DispatchRefused, DispatchAuthorize, DispatchUnauthorized

\* A PATCH between its write and its release, and one that fails to write or to
\* release.
LEMMA QuietPatch ==
  ASSUME TypeOK, NEW p \in Patchers,
         \/ PatchSettle(p) \/ PatchUnsettled(p) \/ PatchRecord(p)
         \/ PatchContinues(p) /\ UNCHANGED storeVars /\ patch' = [patch EXCEPT ![p] = IdlePatch]
  PROVE  RowsSettle /\ PatchesOnward /\ BookedKept
  <1> PICK r : r = patch[p]
    OBVIOUS
  <1>1. r \in PatchSlot /\ (r.at # "idle" => r.shipment \in Shipments)
    BY DEF TypeOK, PatchOK, Serving
  <1>2. PatchesOnward
    <2>1. CASE patch' = [patch EXCEPT ![p] = IdlePatch]
      BY <2>1, PatchEnds
    <2>2. ASSUME r.at \in { "settle", "record" },
                 patch'[p].at \in { "record", "release" },
                 patch'[p].shipment = r.shipment,
                 patch'[p].target = r.target,
                 patch'[p].carrier = r.carrier,
                 patch'[p].at = "release" => r.target = StatusCancelled,
                 \A q \in Patchers \ { p } : patch'[q] = patch[q]
          PROVE  PatchesOnward
      BY <2>2 DEF PatchesOnward
    <2>3. CASE r.at \in { "settle", "record" } /\ patch' = [patch EXCEPT ![p] = AfterSettle(r)]
      <3>1. CASE r.target = StatusCancelled /\ r.carrier # NoCarrier
        <4>1. PICK n : n = [r EXCEPT !.at = "release"]
          OBVIOUS
        <4>2. /\ n.at = "release" /\ n.shipment = r.shipment
              /\ n.target = r.target /\ n.carrier = r.carrier
          BY <1>1, <4>1 DEF PatchSlot
        <4>3. patch'[p] = n /\ \A q \in Patchers \ { p } : patch'[q] = patch[q]
          BY <2>3, <3>1, <4>1 DEF AfterSettle, TypeOK, PatchOK
        <4> QED
          BY <2>2, <2>3, <3>1, <4>2, <4>3
      <3>2. CASE ~(r.target = StatusCancelled /\ r.carrier # NoCarrier)
        BY <2>1, <2>3, <3>2 DEF AfterSettle
      <3> QED
        BY <3>1, <3>2
    <2>4. ASSUME r.at = "settle", NEW result,
                 patch' = [patch EXCEPT ![p] = [r EXCEPT !.at = "record", !.result = result]]
          PROVE  PatchesOnward
      <3>1. PICK n : n = [r EXCEPT !.at = "record", !.result = result]
        OBVIOUS
      <3>2. /\ n.at = "record" /\ n.shipment = r.shipment
            /\ n.target = r.target /\ n.carrier = r.carrier
        BY <1>1, <3>1 DEF PatchSlot
      <3>3. patch'[p] = n /\ \A q \in Patchers \ { p } : patch'[q] = patch[q]
        BY <2>4, <3>1 DEF TypeOK, PatchOK
      <3> QED
        BY <2>2, <2>4, <3>2, <3>3
    <2> QED
      BY <2>1, <2>3, <2>4 DEF PatchSettle, PatchUnsettled, PatchRecord
  <1>3. CASE UNCHANGED storeVars
    BY <1>2, <1>3, RowsStill
  <1>4. CASE PatchRecord(p)
    BY <1>1, <1>2, <1>4, PaymentSettles, RowsStill DEF PatchRecord
  <1> QED
    BY <1>3, <1>4 DEF PatchSettle, PatchUnsettled

\* Everything else that neither books, reads for a PATCH, writes nor releases.
LEMMA QuietOther ==
  ASSUME TypeOK,
         \/ \E c \in Carriers : CreateCarrier(c)
         \/ \E s \in Shipments : CreateShipment(s)
         \/ \E d \in Dispatchers, s \in Shipments, c \in Carriers, price \in Prices :
               DispatchRead(d, s, c, price)
         \/ \E w \in Workers, s \in Shipments : WorkerTake(w, s)
         \/ Crash
         \/ UNCHANGED vars
  PROVE  RowsSettle /\ PatchesOnward /\ BookedKept
  <1>1. ASSUME NEW c \in Carriers, CreateCarrier(c)
        PROVE  RowsSettle /\ PatchesOnward /\ BookedKept
    BY <1>1, PatchesStill
    DEF CreateCarrier, SaveCarrier, CarrierExists, slotVars, RowsSettle, BookedKept, TypeOK, StoreTypeOK
  <1>2. ASSUME NEW s \in Shipments, CreateShipment(s)
        PROVE  RowsSettle /\ PatchesOnward /\ BookedKept
    BY <1>2, PatchesStill
    DEF CreateShipment, SaveShipment, NoRow, slotVars, RowsSettle, BookedKept,
        TypeOK, StoreTypeOK
  <1>3. CASE Crash
    BY <1>3, RowsStill DEF Crash, PatchesOnward, IdlePatch
  <1>4. CASE UNCHANGED << storeVars, patch >>
    BY <1>4, RowsStill, PatchesStill
  <1> QED
    BY <1>1, <1>2, <1>3, <1>4 DEF DispatchRead, WorkerTake, vars, storeVars


-----------------------------------------------------------------------------
(* The four steps that do something to claims. *)

\* Dispatch takes a carrier nobody claims: a claimed one is booked.
LEMMA BookingBook ==
  ASSUME TypeOK, BookingInv, NEW d \in Dispatchers, DispatchBook(d)
  PROVE  BookingInv'
  <1> USE DEF BookingInv
  <1>1. PICK s \in Shipments, b \in Carriers :
           s = dispatch[d].shipment /\ b = dispatch[d].carrier
    BY DEF DispatchBook, TypeOK, DispatchOK, Serving
  <1>2. carriers[b] = "available" /\ UNCHANGED patch
    BY <1>1 DEF DispatchBook, Dispatch
  <1>3. carriers'[b] = "booked" /\ \A c \in Carriers \ { b } : carriers'[c] = carriers[c]
    BY <1>1 DEF DispatchBook, Dispatch, TypeOK, StoreTypeOK
  <1>4. /\ shipments'[s].carrier = b /\ shipments'[s].status = StatusDispatched
        /\ \A t \in Shipments \ { s } : shipments'[t] = shipments[t]
    <2>1. shipments[s] \in ShipmentRow
      BY DEF TypeOK, StoreTypeOK
    <2>2. PICK row : row = [shipments[s] EXCEPT !.carrier = b,
                              !.price = dispatch[d].price, !.status = StatusDispatched]
      OBVIOUS
    <2>3. row.carrier = b /\ row.status = StatusDispatched
      BY <2>1, <2>2 DEF ShipmentRow
    <2>4. shipments' = [shipments EXCEPT ![s] = row]
      BY <1>1, <2>2 DEF DispatchBook, Dispatch
    <2> QED
      BY <2>3, <2>4 DEF TypeOK, StoreTypeOK
  <1>5. \A t \in Shipments : ~Claims(t, b)
    BY <1>2 DEF ClaimsExclusive
  <1>6. PendingUnassigned' /\ OnePatchEach'
    BY <1>2, <1>4, StatusFacts DEF PendingUnassigned, OnePatchEach
  <1>7. \A t \in Shipments, c \in Carriers :
           Claims(t, c)' => Claims(t, c) \/ (t = s /\ c = b)
    <2> SUFFICES ASSUME NEW t \in Shipments, NEW c \in Carriers, Claims(t, c)',
                        t # s \/ c # b
                 PROVE  Claims(t, c)
      OBVIOUS
    <2>1. shipments'[t].carrier = c => shipments'[t] = shipments[t]
      BY <1>4
    <2> QED
      BY <1>2, <2>1 DEF Claims, OnTheRoad
  <1>8. ClaimsExclusive'
    BY <1>3, <1>5, <1>7 DEF ClaimsExclusive
  <1>9. CancelledOffRoad'
    <2> SUFFICES ASSUME NEW p \in Patchers,
                        patch[p].at \in { "settle", "record", "release" },
                        patch[p].target = StatusCancelled,
                        shipments'[patch[p].shipment].status \in ActiveStatuses,
                        shipments'[patch[p].shipment].carrier = patch[p].carrier
                 PROVE  FALSE
      BY <1>2 DEF CancelledOffRoad, OnTheRoad
    <2>1. patch[p].shipment \in Shipments
      BY DEF TypeOK, PatchOK, Serving
    <2>2. CASE patch[p].shipment = s
      BY <1>4, <1>5, <2>2 DEF Claims
    <2>3. CASE patch[p].shipment # s
      BY <1>4, <2>1, <2>3 DEF CancelledOffRoad, OnTheRoad
    <2> QED
      BY <2>2, <2>3
  <1> QED
    BY <1>6, <1>8, <1>9

\* A PATCH that passes its check claims what the row it read claims already.
LEMMA BookingRead ==
  ASSUME Discipline # "none", TypeOK, TypeOK', BookingInv, NEW p \in Patchers,
         NEW s \in Shipments, NEW target, PatchRead(p, s, target)
  PROVE  BookingInv'
  <1> USE DEF BookingInv
  <1>1. UNCHANGED << carriers, shipments >>
    BY DEF PatchRead, storeVars
  <1>2. \A q \in Patchers : patch[q].shipment # s
    BY ServiceConstants DEF PatchRead, MayPatch, MayRequest, NothingOn, NoPatchOn
  <1>3. /\ patch'[p].at = "write" /\ patch'[p].shipment = s
        /\ patch'[p].target = target /\ patch'[p].carrier = shipments[s].carrier
        /\ \A q \in Patchers \ { p } : patch'[q] = patch[q]
    BY DEF PatchRead, IdlePatch, TypeOK, PatchOK
  <1>4. \/ shipments[s].status = "pending" /\ target \in { "dispatched", "no_match" }
        \/ shipments[s].status \in ActiveStatuses
    BY DEF PatchRead, ValidateTransition, AllowedTransitions, ActiveStatuses,
           StatusPending, StatusDispatched, StatusInTransit, StatusDelivered,
           StatusCancelled, StatusNoMatch
  <1>5. PendingUnassigned' /\ OnePatchEach'
    BY <1>1, <1>2, <1>3 DEF PendingUnassigned, OnePatchEach
  <1>6. ASSUME NEW t \in Shipments, NEW c \in Carriers, Claims(t, c)'
        PROVE  Claims(t, c)
    <2>1. CASE OnTheRoad(t, c)'
      BY <1>1, <2>1 DEF OnTheRoad, Claims
    <2>2. ASSUME NEW q \in Patchers, patch'[q].shipment = t,
                 \/ /\ patch'[q].at = "write" /\ patch'[q].target \in ActiveStatuses
                    /\ shipments[t].carrier = c
                 \/ /\ patch'[q].at # "idle" /\ patch'[q].target = StatusCancelled
                    /\ patch'[q].carrier = c
          PROVE  Claims(t, c)
      <3>1. CASE q = p
        <4>1. t = s /\ shipments[s].carrier = c
          BY <1>3, <2>2, <3>1
        <4>2. shipments[s].status \in ActiveStatuses
          <5>1. shipments[s].status # StatusPending
            BY <4>1, IdsDisjoint DEF PendingUnassigned
          <5> QED
            BY <1>4, <5>1, StatusFacts
        <4> QED
          BY <4>1, <4>2 DEF Claims, OnTheRoad
      <3>2. CASE q # p
        BY <1>3, <2>2, <3>2 DEF Claims
      <3> QED
        BY <3>1, <3>2
    <2> QED
      BY <1>1, <1>6, <2>1, <2>2 DEF Claims
  <1>7. ClaimsExclusive'
    BY <1>1, <1>6, ExclusiveKept DEF ClaimsShrink, BookedKept
  <1>8. CancelledOffRoad'
    <2> SUFFICES ASSUME NEW q \in Patchers
                 PROVE  /\ patch'[q].at \in { "settle", "record", "release" }
                               /\ patch'[q].target = StatusCancelled =>
                             ~(/\ shipments[patch'[q].shipment].status \in ActiveStatuses
                               /\ shipments[patch'[q].shipment].carrier = patch'[q].carrier)
                        /\ patch'[q].at = "release" => patch'[q].target = StatusCancelled
      BY <1>1 DEF CancelledOffRoad, OnTheRoad
    <2>1. CASE q = p
      BY <1>3, <2>1
    <2>2. CASE q # p
      <3>1. patch'[q] = patch[q]
        BY <1>3, <2>2
      <3> QED
        BY <3>1 DEF CancelledOffRoad, OnTheRoad
    <2> QED
      BY <2>1, <2>2
  <1> QED
    BY <1>5, <1>7, <1>8

\* The write carries out the claim the PATCH has made, or takes the shipment
\* off the road.
LEMMA BookingWrite ==
  ASSUME TypeOK, TypeOK', BookingInv, NEW p \in Patchers, PatchWrite(p)
  PROVE  BookingInv'
  <1> USE DEF BookingInv
  <1> PICK r : r = patch[p]
    OBVIOUS
  <1>1. r \in PatchSlot /\ r.at = "write" /\ r.shipment \in Shipments
        /\ r.target \in NextStatuses
    BY DEF PatchWrite, TypeOK, PatchOK, Serving
  <1>2. CASE patch' = [patch EXCEPT ![p] = IdlePatch] /\ UNCHANGED storeVars
    BY <1>2, PatchEnds, RowsStill, BookingQuiet
  <1>3. CASE UpdateShipmentStatus(r.shipment, r.target)
              /\ patch' = [patch EXCEPT ![p] = AfterWrite(r)]
    <2>1. PICK s \in Shipments : s = r.shipment
      BY <1>1
    <2>2. /\ shipments'[s].status = r.target
          /\ shipments'[s].carrier = shipments[s].carrier
          /\ \A t \in Shipments \ { s } : shipments'[t] = shipments[t]
      <3>1. shipments[s] \in ShipmentRow
        BY DEF TypeOK, StoreTypeOK
      <3>2. PICK row : row = [shipments[s] EXCEPT !.status = r.target]
        OBVIOUS
      <3>3. row.status = r.target /\ row.carrier = shipments[s].carrier
        BY <3>1, <3>2 DEF ShipmentRow
      <3>4. shipments' = [shipments EXCEPT ![s] = row]
        BY <1>3, <2>1, <3>2 DEF UpdateShipmentStatus
      <3> QED
        BY <3>3, <3>4 DEF TypeOK, StoreTypeOK
    <2>3. UNCHANGED carriers
      BY <1>3 DEF UpdateShipmentStatus
    <2>4. /\ patch'[p] = AfterWrite(r)
          /\ \A q \in Patchers \ { p } : patch'[q] = patch[q]
      BY <1>3 DEF TypeOK, PatchOK
    <2>5. \/ patch'[p].at = "idle" /\ patch'[p].shipment = NoShipment
          \/ /\ patch'[p].at \in { "settle", "release" }
             /\ patch'[p].shipment = s
             /\ patch'[p].target = r.target
             /\ patch'[p].carrier = r.carrier
             /\ patch'[p].at = "release" => r.target = StatusCancelled
      <3>1. PICK set : set = [r EXCEPT !.at = "settle"]
        OBVIOUS
      <3>2. PICK rel : rel = [r EXCEPT !.at = "release"]
        OBVIOUS
      <3>3. /\ set.at = "settle" /\ set.shipment = s
            /\ set.target = r.target /\ set.carrier = r.carrier
            /\ rel.at = "release" /\ rel.shipment = s
            /\ rel.target = r.target /\ rel.carrier = r.carrier
        BY <1>1, <2>1, <3>1, <3>2 DEF PatchSlot
      <3>4. \/ patch'[p] = set
            \/ patch'[p] = rel /\ r.target = StatusCancelled
            \/ patch'[p] = IdlePatch
        BY <2>4, <3>1, <3>2 DEF AfterWrite, AfterSettle
      <3>5. IdlePatch.at = "idle" /\ IdlePatch.shipment = NoShipment
        BY DEF IdlePatch
      <3> QED
        BY <3>3, <3>4, <3>5
    <2>6. \A q \in Patchers \ { p } : patch[q].shipment # s
      BY <1>1, <2>1 DEF OnePatchEach
    <2>7. PendingUnassigned'
      <3>1. r.target \notin { "absent", StatusPending }
        BY <1>1, KnownStatuses DEF NextStatuses
      <3> QED
        BY <2>2, <3>1 DEF PendingUnassigned
    <2>8. OnePatchEach'
      <3> SUFFICES ASSUME NEW q1 \in Patchers, NEW q2 \in Patchers,
                          patch'[q1].at # "idle",
                          patch'[q2].shipment = patch'[q1].shipment
                   PROVE  q1 = q2
        BY DEF OnePatchEach
      <3>1. patch'[q1].shipment \in Shipments
        BY DEF TypeOK, PatchOK, Serving
      <3>2. patch[q1].at # "idle" /\ patch[q1].shipment = patch'[q1].shipment
        BY <1>1, <2>1, <2>4, <2>5
      <3>3. patch[q2].shipment = patch'[q2].shipment
        BY <1>1, <2>1, <2>4, <2>5, <3>1, IdsDisjoint
      <3> QED
        BY <3>2, <3>3 DEF OnePatchEach
    <2>9. ASSUME NEW t \in Shipments, NEW c \in Carriers, Claims(t, c)'
          PROVE  Claims(t, c)
      <3>1. CASE OnTheRoad(t, c)'
        <4>1. CASE t = s
          BY <1>1, <2>1, <2>2, <3>1, <4>1 DEF OnTheRoad, Claims
        <4>2. CASE t # s
          BY <2>2, <3>1, <4>2 DEF OnTheRoad, Claims
        <4> QED
          BY <4>1, <4>2
      <3>2. ASSUME NEW q \in Patchers, patch'[q].shipment = t,
                   \/ /\ patch'[q].at = "write" /\ patch'[q].target \in ActiveStatuses
                      /\ shipments'[t].carrier = c
                   \/ /\ patch'[q].at # "idle" /\ patch'[q].target = StatusCancelled
                      /\ patch'[q].carrier = c
            PROVE  Claims(t, c)
        <4>1. CASE q = p
          BY <1>1, <2>1, <2>5, <3>2, <4>1 DEF Claims
        <4>2. CASE q # p
          BY <2>2, <2>4, <2>6, <3>2, <4>2 DEF Claims
        <4> QED
          BY <4>1, <4>2
      <3> QED
        BY <2>9, <3>1, <3>2 DEF Claims
    <2>10. ClaimsExclusive'
      BY <2>3, <2>9, ExclusiveKept DEF ClaimsShrink, BookedKept
    <2>11. CancelledOffRoad'
      <3> SUFFICES ASSUME NEW q \in Patchers
                   PROVE  /\ patch'[q].at \in { "settle", "record", "release" }
                                 /\ patch'[q].target = StatusCancelled =>
                               ~(/\ shipments'[patch'[q].shipment].status \in ActiveStatuses
                                 /\ shipments'[patch'[q].shipment].carrier = patch'[q].carrier)
                          /\ patch'[q].at = "release" => patch'[q].target = StatusCancelled
        BY DEF CancelledOffRoad, OnTheRoad
      <3>1. CASE q = p
        BY <2>2, <2>5, <3>1, StatusFacts
      <3>2. CASE q # p
        <4>1. patch'[q] = patch[q] /\ patch[q].shipment # s
          BY <2>4, <2>6, <3>2
        <4>2. patch[q].at # "idle" => shipments'[patch[q].shipment] = shipments[patch[q].shipment]
          BY <2>2, <4>1 DEF TypeOK, PatchOK, Serving
        <4> QED
          BY <4>1, <4>2 DEF CancelledOffRoad, OnTheRoad
      <3> QED
        BY <3>1, <3>2
    <2> QED
      BY <2>7, <2>8, <2>10, <2>11
  <1> QED
    BY <1>2, <1>3 DEF PatchWrite

\* The release frees a carrier only the cancelled shipment claims, and that
\* shipment gives its claim up.
LEMMA BookingRelease ==
  ASSUME TypeOK, TypeOK', BookingInv, NEW p \in Patchers, PatchRelease(p)
  PROVE  BookingInv'
  <1> USE DEF BookingInv
  <1>1. patch' = [patch EXCEPT ![p] = IdlePatch]
    BY DEF PatchRelease
  <1>2. PatchesOnward
    BY <1>1, PatchEnds
  <1>3. CASE UNCHANGED storeVars
    BY <1>2, <1>3, RowsStill, BookingQuiet
  <1>4. CASE ReleaseCarrier(patch[p].carrier)
    <2>1. PICK s \in Shipments, b \in Carriers \cup { NoCarrier } :
             s = patch[p].shipment /\ b = patch[p].carrier
      BY DEF PatchRelease, TypeOK, PatchOK, PatchSlot, Serving
    <2>2. /\ patch[p].at = "release" /\ patch[p].target = StatusCancelled
          /\ ~OnTheRoad(s, b)
      BY <2>1 DEF PatchRelease, CancelledOffRoad
    <2>3. /\ UNCHANGED shipments
          /\ \A c \in Carriers \ { b } : carriers'[c] = carriers[c]
      BY <1>4, <2>1 DEF ReleaseCarrier, TypeOK, StoreTypeOK
    <2>4. /\ patch'[p] = IdlePatch /\ IdlePatch.at = "idle"
          /\ IdlePatch.shipment = NoShipment
          /\ \A q \in Patchers \ { p } : patch'[q] = patch[q]
      BY <1>1 DEF IdlePatch, TypeOK, PatchOK
    <2>5. \A q \in Patchers \ { p } : patch[q].shipment # s
      BY <2>1, <2>2 DEF OnePatchEach
    <2>6. ASSUME NEW t \in Shipments, NEW c \in Carriers, Claims(t, c)'
          PROVE  Claims(t, c) /\ c # b
      <3>1. Claims(t, c)
        BY <2>3, <2>4, <2>6 DEF Claims, OnTheRoad
      <3>2. CASE c = b /\ t # s
        <4>1. Claims(s, b)
          BY <2>1, <2>2 DEF Claims
        <4> QED
          BY <3>1, <3>2, <4>1 DEF ClaimsExclusive
      <3>3. CASE c = b /\ t = s
        <4>1. ~OnTheRoad(t, c)'
          BY <2>2, <2>3, <3>3 DEF OnTheRoad
        <4>2. PICK q \in Patchers : patch'[q].shipment = s /\ patch'[q].at # "idle"
          BY <2>6, <3>3, <4>1 DEF Claims
        <4> QED
          BY <2>4, <2>5, <4>2
      <3> QED
        BY <3>1, <3>2, <3>3
    <2>7. ClaimsExclusive'
      BY <2>3, <2>6 DEF ClaimsExclusive
    <2>8. PendingUnassigned'
      BY <2>3 DEF PendingUnassigned
    <2>9. OnePatchEach'
      <3> SUFFICES ASSUME NEW q1 \in Patchers, NEW q2 \in Patchers,
                          patch'[q1].at # "idle",
                          patch'[q2].shipment = patch'[q1].shipment
                   PROVE  q1 = q2
        BY DEF OnePatchEach
      <3>1. patch'[q1].shipment \in Shipments
        BY DEF TypeOK, PatchOK, Serving
      <3> QED
        BY <2>4, <3>1, IdsDisjoint DEF OnePatchEach
    <2>10. CancelledOffRoad'
      <3> SUFFICES ASSUME NEW q \in Patchers
                   PROVE  /\ patch'[q].at \in { "settle", "record", "release" }
                                 /\ patch'[q].target = StatusCancelled =>
                               ~(/\ shipments[patch'[q].shipment].status \in ActiveStatuses
                                 /\ shipments[patch'[q].shipment].carrier = patch'[q].carrier)
                          /\ patch'[q].at = "release" => patch'[q].target = StatusCancelled
        BY <2>3 DEF CancelledOffRoad, OnTheRoad
      <3> QED
        BY <2>4 DEF CancelledOffRoad, OnTheRoad
    <2> QED
      BY <2>7, <2>8, <2>9, <2>10
  <1> QED
    BY <1>3, <1>4 DEF PatchRelease

-----------------------------------------------------------------------------

LEMMA BookingInit == Init => BookingInv
  <1> SUFFICES ASSUME Init PROVE BookingInv
    OBVIOUS
  <1>1. \A s \in Shipments : shipments[s].status = "absent"
                             /\ shipments[s].carrier = NoCarrier
    BY DEF Init, StoreInit, NoRow
  <1>2. \A p \in Patchers : patch[p].at = "idle"
    BY DEF Init, IdlePatch
  <1>3. \A s \in Shipments, c \in Carriers : ~Claims(s, c)
    BY <1>1, <1>2, StatusFacts DEF Claims, OnTheRoad
  <1> QED
    BY <1>1, <1>2, <1>3
    DEF BookingInv, PendingUnassigned, OnePatchEach, ClaimsExclusive,
        CancelledOffRoad

LEMMA BookingStep ==
  ASSUME Discipline # "none", TypeOK, BookingInv, [Next]_vars
  PROVE  BookingInv'
  <1>1. TypeOK'
    BY TypeStep
  <1>2. ASSUME NEW p \in Patchers, PatchContinues(p)
        PROVE  BookingInv'
    BY <1>1, <1>2, BookingWrite, BookingRelease, BookingQuiet, QuietPatch
    DEF PatchContinues
  <1>3. ASSUME NEW d \in Dispatchers, DispatchContinues(d)
        PROVE  BookingInv'
    BY <1>1, <1>3, BookingBook, BookingQuiet, QuietDispatch DEF DispatchContinues
  <1>4. ASSUME NEW p \in Patchers, NEW s \in Shipments, NEW target \in ClientStatuses,
               PatchRead(p, s, target)
        PROVE  BookingInv'
    BY <1>1, <1>4, BookingRead
  <1>5. ASSUME NEW w \in Workers, WorkerContinues(w)
        PROVE  BookingInv'
    BY <1>1, <1>5, BookingQuiet, QuietWork
  <1> QED
    BY <1>1, <1>2, <1>3, <1>4, <1>5, BookingQuiet, QuietOther DEF Next

\* A shipment on the road has its carrier to itself, and so has the cancellation
\* that is going to release one, provided that clients keep the PATCH requests on
\* one shipment apart.
THEOREM BookingInvCorrect ==
  ASSUME Discipline # "none"
  PROVE  Spec => []BookingInv
  <1>1. TypeOK /\ BookingInv /\ [Next]_vars => BookingInv'
    BY BookingStep
  <1> QED
    BY <1>1, TypeInit, TypeStep, BookingInit, PTL DEF Spec

\* However many dispatches, match jobs, failures and crashes there are, two
\* shipments are never on the road with one carrier, under that same proviso.
THEOREM NoDoubleBookingCorrect ==
  ASSUME Discipline # "none"
  PROVE  Spec => []NoDoubleBooking
  <1>1. BookingInv => NoDoubleBooking
    BY DEF BookingInv, ClaimsExclusive, Claims, NoDoubleBooking
  <1>2. Spec => []BookingInv
    BY BookingInvCorrect
  <1> QED
    BY <1>1, <1>2, PTL

=============================================================================
