------------------------- MODULE CarrierMatchSettle -------------------------
(***************************************************************************)
(* What becomes of money, carriers and shipments once handlers are done:   *)
(* proofs, for every instance, that holds go where their loads go, and     *)
(* that where nothing fails whatever a handler has left undone is still    *)
(* being done by it.                                                       *)
(*                                                                         *)
(* The liveness properties of CarrierMatch say that what is due happens in *)
(* the end; these say that at no moment has it been forgotten.  They need  *)
(* no fairness.                                                            *)
(***************************************************************************)
EXTENDS CarrierMatchLifecycle

-----------------------------------------------------------------------------
(* The money follows the load.                                               *)

\* Why MoneyFollowsLoad holds: a hold is open as long as its load can still be
\* delivered as well as cancelled.
Follows(i) ==
    LET status == shipments[intents[i].shipment].status IN
    /\ status \in ActiveStatuses => intents[i].state = "requires_capture"
    /\ status = StatusDelivered => intents[i].state # "canceled"
    /\ status = StatusCancelled => intents[i].state # "succeeded"

MoneyInv == \A i \in Intents : intents[i].state # "unused" => Follows(i)

\* The shipment of an intent in use is a shipment that exists.
LEMMA OwnerKnown ==
  ASSUME LifecycleInv, NEW i \in Intents, intents[i].state # "unused"
  PROVE  /\ intents[i].shipment \in Shipments
         /\ shipments[intents[i].shipment].status \notin Early
  <1>1. intents[i].shipment \in Shipments
    BY DEF LifecycleInv, TypeOK, StripeTypeOK, FitInv, UnusedUnowned
  <1> QED
    BY <1>1 DEF LifecycleInv, FitInv, EarlyUnowned, Owned

\* Along the table, and when a match job takes the load out of it, a hold goes on
\* following its load.
LEMMA FollowsAlong ==
  ASSUME LifecycleInv, MoneyInv, NEW i \in Intents, intents[i].state # "unused",
         intents'[i] = intents[i], TableStep(intents[i].shipment)
  PROVE  Follows(i)'
  <1> PICK s : s = intents[i].shipment
    OBVIOUS
  <1> PICK from, to : from = shipments[s].status /\ to = shipments'[s].status
    OBVIOUS
  <1>1. from \notin Early /\ Follows(i)
    BY OwnerKnown DEF MoneyInv
  <1>2. \/ from = to
        \/ << from, to >> \in AllowedTransitions
        \/ to \in Verdicts
    BY <1>1 DEF TableStep, Early
  <1>3. CASE from = to
    BY <1>1, <1>3 DEF Follows
  <1>4. CASE << from, to >> \in AllowedTransitions
    <2>1. from \in ActiveStatuses
      BY <1>1, <1>4 DEF AllowedTransitions, Early, ActiveStatuses
    <2> QED
      BY <1>1, <2>1 DEF Follows
  <1>5. CASE to \in Verdicts
    BY <1>5 DEF Follows, Verdicts, StatusMatching, StatusMatched, StatusNoMatch,
       ActiveStatuses, StatusDispatched, StatusInTransit, StatusDelivered,
       StatusCancelled
  <1> QED
    BY <1>2, <1>3, <1>4, <1>5

\* The hold a dispatch places is open, on a load that waits for its carrier.
LEMMA MoneyAuthorize ==
  ASSUME LifecycleInv, MoneyInv, NEW d \in Dispatchers, DispatchAuthorize(d)
  PROVE  MoneyInv'
  <1> USE DEF LifecycleInv
  <1> PICK r : r = dispatch[d]
    OBVIOUS
  <1>1. /\ r.shipment \in Shipments /\ r.at = "authorize" /\ UNCHANGED shipments
        /\ DispatchFits(r)
    BY DEF DispatchAuthorize, TypeOK, DispatchOK, Serving, FitInv, storeVars
  <1>2. shipments[r.shipment].status = StatusDispatched /\ ~Owned(r.shipment)
    BY <1>1 DEF DispatchFits
  <1>3. PICK i \in Intents : AuthorizePayment(i, r.shipment, AmountCents(r.price))
    BY DEF DispatchAuthorize
  <1>4. /\ intents'[i].shipment = r.shipment
        /\ intents'[i].state = "requires_capture"
        /\ \A j \in Intents \ { i } : intents'[j] = intents[j]
    BY <1>1, <1>2, <1>3, PlacedHold DEF TypeOK
  <1>5. Follows(i)'
    BY <1>1, <1>2, <1>4
    DEF Follows, StatusDispatched, StatusDelivered, StatusCancelled
  <1>6. ASSUME NEW j \in Intents \ { i }, intents'[j].state # "unused"
        PROVE  Follows(j)'
    BY <1>1, <1>4, <1>6 DEF MoneyInv, Follows
  <1> QED
    BY <1>5, <1>6 DEF MoneyInv

\* A PATCH closes the hold of a load that has ended the way it has ended.
LEMMA MoneySettle ==
  ASSUME LifecycleInv, MoneyInv, NEW p \in Patchers, PatchSettle(p)
  PROVE  MoneyInv'
  <1> USE DEF LifecycleInv
  <1> PICK r : r = patch[p]
    OBVIOUS
  <1> PICK s, i : s = r.shipment /\ i = r.intent
    OBVIOUS
  <1>1. /\ s \in Shipments /\ r.at = "settle" /\ PatchFits(r) /\ PatchBacked(r)
        /\ UNCHANGED shipments
    BY DEF PatchSettle, TypeOK, PatchOK, Serving, FitInv, LedgerInv, storeVars
  <1>2. /\ shipments[s].status = r.target
        /\ i \in Intents /\ intents[i].shipment = s
    BY <1>1 DEF PatchFits, PatchBacked, Backs
  <1>3. /\ intents'[i].shipment = s
        /\ \A j \in Intents \ { i } : intents'[j] = intents[j]
        /\ \/ r.target = StatusDelivered /\ intents'[i].state = "succeeded"
           \/ r.target = StatusCancelled /\ intents'[i].state = "canceled"
    BY <1>2 DEF PatchSettle, CapturePayment, CancelPayment, TypeOK, StripeTypeOK
  <1>4. Follows(i)'
    BY <1>1, <1>2, <1>3
    DEF Follows, ActiveStatuses, StatusDispatched, StatusInTransit,
        StatusDelivered, StatusCancelled
  <1>5. ASSUME NEW j \in Intents \ { i }, intents'[j].state # "unused"
        PROVE  Follows(j)'
    BY <1>1, <1>3, <1>5 DEF MoneyInv, Follows
  <1> QED
    BY <1>4, <1>5 DEF MoneyInv

\* Every other step leaves Stripe alone.
LEMMA StripeElsewhere ==
  ASSUME [Next]_vars,
         ~ \E d \in Dispatchers : DispatchAuthorize(d),
         ~ \E p \in Patchers : PatchSettle(p)
  PROVE  UNCHANGED intents
  BY DEF Next, vars, CreateCarrier, CreateShipment, DispatchRead, PatchRead,
         WorkerTake, Crash, DispatchContinues, DispatchBook, DispatchRefused,
         DispatchUnauthorized, DispatchRecord, PatchContinues, PatchWrite,
         PatchUnsettled, PatchRecord, PatchRelease, WorkerContinues, WorkerMark,
         WorkerRank, WorkerConclude

LEMMA MoneyStep ==
  ASSUME LifecycleInv, MoneyInv, [Next]_vars
  PROVE  MoneyInv'
  <1>1. CASE UNCHANGED intents
    <2>1. ASSUME NEW i \in Intents, intents[i].state # "unused"
          PROVE  Follows(i)'
      BY <1>1, <2>1, OwnerKnown, FollowsAlong, LoadsStep
    <2> QED
      BY <1>1, <2>1 DEF MoneyInv
  <1> QED
    BY <1>1, MoneyAuthorize, MoneySettle, StripeElsewhere

\* When clients have one request in flight per shipment, a load is held for once,
\* and whatever fails or crashes its hold is open while it is on its way, not let
\* go when it is delivered and not charged when it is cancelled (README.md:388-394,
\* handlers.go:269-288).
THEOREM MoneyFollowsLoadCorrect ==
  ASSUME Discipline = "requests"
  PROVE  Spec => []MoneyFollowsLoad
  <1>1. LifecycleInv /\ [Next]_vars => LifecycleInv'
    BY LifecycleInvStep
  <1>2. Init => MoneyInv
    BY DEF Init, StripeInit, MoneyInv
  <1>3. LifecycleInv /\ MoneyInv /\ [Next]_vars => MoneyInv'
    BY MoneyStep
  <1>4. ASSUME LifecycleInv, MoneyInv
        PROVE  MoneyFollowsLoad
    <2> SUFFICES ASSUME NEW i \in Intents, intents[i].state # "unused"
                 PROVE  LET s == intents[i].shipment IN
                        /\ shipments[s].status \notin { "absent", StatusPending }
                        /\ Follows(i)
                        /\ \A j \in Intents : intents[j].shipment = s => j = i
      BY DEF MoneyFollowsLoad, Follows, IntentStates
    <2>1. intents[i].shipment # NoShipment
      BY <1>4, OwnerKnown, IdsDisjoint
    <2>2. \A j \in Intents : intents[j].shipment = intents[i].shipment => j = i
      BY <1>4, <2>1 DEF LifecycleInv, FitInv, OneHoldEach
    <2> QED
      BY <1>4, <2>2, OwnerKnown DEF MoneyInv, Early
  <1> QED
    BY <1>1, <1>2, <1>3, <1>4, LifecycleInvInit, PTL DEF Spec

-----------------------------------------------------------------------------
(* A booked carrier has a load.                                              *)

\* Where a PATCH is once its status is written.
Written == { "settle", "record", "release" }

\* Shipment s keeps carrier c booked, or will let it go.
Laden(c, s) ==
    /\ shipments[s].carrier = c
    /\ \/ shipments[s].status # StatusCancelled
       \/ \E p \in Patchers : patch[p].shipment = s /\ patch[p].at \in Written

LEMMA LadenStays ==
  ASSUME NEW c, NEW s, Laden(c, s),
         shipments'[s].carrier = shipments[s].carrier,
         shipments'[s].status \in { shipments[s].status } \cup Verdicts \cup ActiveStatuses,
         \A p \in Patchers : patch[p].shipment = s /\ patch[p].at \in Written =>
                                patch'[p] = patch[p]
  PROVE  Laden(c, s)'
  <1>1. StatusCancelled \notin Verdicts \cup ActiveStatuses
    BY DEF Verdicts, ActiveStatuses, StatusMatching, StatusMatched, StatusNoMatch,
           StatusDispatched, StatusInTransit, StatusCancelled
  <1> QED
    BY <1>1 DEF Laden

\* Match jobs, dispatches and requests that start leave a laden carrier laden.
LEMMA LadenOtherwise ==
  ASSUME LifecycleInv, [Next]_vars, "crash" \notin Faults,
         ~ \E p \in Patchers : PatchContinues(p),
         NEW c \in Carriers, NEW s \in Shipments, Laden(c, s)
  PROVE  Laden(c, s)'
  <1> USE DEF LifecycleInv
  <1>1. shipments[s].status \notin Early
    BY IdsDisjoint DEF BookingInv, PendingUnassigned, Laden, Early
  <1>2. \A p \in Patchers : patch[p].at \in Written => patch'[p] = patch[p]
    BY DEF Next, vars, CreateCarrier, CreateShipment, DispatchRead, PatchRead,
           WorkerTake, Crash, DispatchContinues, DispatchBook, DispatchRefused,
           DispatchAuthorize, DispatchUnauthorized, DispatchRecord,
           WorkerContinues, WorkerMark, WorkerRank, WorkerConclude, slotVars,
           TypeOK, PatchOK, Written
  <1>3. CASE \/ UNCHANGED shipments
             \/ \E d \in Dispatchers : DispatchRecord(d)
    <2>1. /\ shipments'[s].carrier = shipments[s].carrier
          /\ shipments'[s].status = shipments[s].status
      BY <1>3, PaymentWritten DEF DispatchRecord, TypeOK, DispatchOK, Serving, storeVars
    <2> QED
      BY <1>2, <2>1, LadenStays
  <1>4. ASSUME NEW t \in Shipments, CreateShipment(t)
        PROVE  Laden(c, s)'
    <2>1. s # t
      BY <1>1, <1>4 DEF CreateShipment, SaveShipment, ShipmentExists, Early
    <2>2. shipments'[s] = shipments[s]
      BY <1>4, <2>1 DEF CreateShipment, SaveShipment, TypeOK, StoreTypeOK
    <2> QED
      BY <1>2, <2>2, LadenStays
  <1>5. ASSUME NEW d \in Dispatchers, DispatchBook(d)
        PROVE  Laden(c, s)'
    <2> PICK r : r = dispatch[d]
      OBVIOUS
    <2>1. /\ r.shipment \in Shipments /\ Dispatch(r.shipment, r.carrier, r.price)
          /\ shipments[r.shipment].status = StatusPending
      BY <1>5 DEF DispatchBook, TypeOK, DispatchOK, Serving, FitInv, DispatchFits
    <2>2. s # r.shipment
      BY <1>1, <2>1 DEF Early
    <2>3. shipments'[s] = shipments[s]
      BY <2>1, <2>2, BookWritten DEF TypeOK
    <2> QED
      BY <1>2, <2>3, LadenStays
  <1>6. ASSUME NEW w \in Workers, WorkerMark(w) \/ WorkerConclude(w)
        PROVE  Laden(c, s)'
    <2> PICK r : r = work[w]
      OBVIOUS
    <2>1. PICK verdict \in Verdicts : \/ UpdateShipmentStatus(r.shipment, verdict)
                                     \/ UNCHANGED shipments
      BY <1>6 DEF WorkerMark, WorkerConclude, TypeOK, WorkOK, WorkSlot, Verdicts, storeVars
    <2>2. r.shipment \in Shipments
      BY <1>6 DEF WorkerMark, WorkerConclude, TypeOK, WorkOK, Serving
    <2>3. /\ shipments'[s].carrier = shipments[s].carrier
          /\ shipments'[s].status \in { shipments[s].status } \cup Verdicts
      BY <2>1, <2>2, StatusWritten DEF TypeOK
    <2> QED
      BY <1>2, <2>3, LadenStays
  <1> QED
    BY <1>3, <1>4, <1>5, <1>6
    DEF Next, vars, CreateCarrier, SaveCarrier, DispatchRead, PatchRead, WorkerTake,
        Crash, DispatchContinues, DispatchRefused, DispatchAuthorize,
        DispatchUnauthorized, WorkerContinues, WorkerRank, storeVars

\* A PATCH that is past its write and cancels goes on to the release.
LEMMA OnToRelease ==
  ASSUME NEW r \in PatchSlot, r.target = StatusCancelled, r.carrier \in Carriers
  PROVE  /\ AfterSettle(r).at = "release" /\ AfterSettle(r).shipment = r.shipment
         /\ AfterWrite(r).at \in Written /\ AfterWrite(r).shipment = r.shipment
  <1>1. r.carrier # NoCarrier
    BY IdsDisjoint
  <1>2. PICK rel, set :
           rel = [r EXCEPT !.at = "release"] /\ set = [r EXCEPT !.at = "settle"]
    OBVIOUS
  <1>3. /\ rel.at = "release" /\ rel.shipment = r.shipment
        /\ set.at = "settle" /\ set.shipment = r.shipment
    BY <1>2 DEF PatchSlot
  <1> QED
    BY <1>1, <1>2, <1>3 DEF AfterSettle, AfterWrite, Written

\* A PATCH leaves a carrier laden, or lets it go.
LEMMA LadenPatch ==
  ASSUME LifecycleInv, ~StoreFails, NEW p \in Patchers, PatchContinues(p),
         NEW c \in Carriers, NEW s \in Shipments, Laden(c, s),
         carriers'[c] = "booked"
  PROVE  Laden(c, s)'
  <1> USE DEF LifecycleInv
  <1> PICK r : r = patch[p]
    OBVIOUS
  <1>1. /\ r \in PatchSlot /\ r.shipment \in Shipments /\ r.at # "idle" /\ PatchFits(r)
    BY DEF TypeOK, PatchOK, Serving, FitInv, PatchContinues, PatchWrite,
           PatchSettle, PatchUnsettled, PatchRecord, PatchRelease
  <1>2. \A t \in Shipments :
           /\ shipments'[t].carrier = shipments[t].carrier
           /\ shipments'[t].status = IF t = r.shipment THEN r.target
                                                       ELSE shipments[t].status
    <2>1. CASE PatchWrite(p)
      BY <1>1, <2>1, StatusWritten DEF PatchWrite, TypeOK
    <2>2. CASE PatchSettle(p) \/ PatchUnsettled(p) \/ PatchRecord(p) \/ PatchRelease(p)
      <3>1. /\ r.at \in { "settle", "record", "release" }
            /\ \/ UNCHANGED shipments
               \/ UpdateShipmentPayment(r.shipment, r.intent, r.result)
        BY <2>2 DEF PatchSettle, PatchUnsettled, PatchRecord, PatchRelease,
                    ReleaseCarrier, storeVars
      <3>2. \A t \in Shipments : /\ shipments'[t].status = shipments[t].status
                                 /\ shipments'[t].carrier = shipments[t].carrier
        BY <1>1, <3>1, PaymentWritten DEF TypeOK
      <3> QED
        BY <1>1, <3>1, <3>2 DEF PatchFits
    <2> QED
      BY <2>1, <2>2 DEF PatchContinues
  <1>3. \A q \in Patchers \ { p } : patch'[q] = patch[q]
    BY PatchGoesOn DEF TypeOK, PatchOK
  <1>4. CASE s # r.shipment
    BY <1>2, <1>3, <1>4, LadenStays
  <1>5. CASE s = r.shipment /\ r.target # StatusCancelled
    BY <1>2, <1>5 DEF Laden
  <1>6. CASE s = r.shipment /\ r.target = StatusCancelled
    <2>1. r.carrier = c
      BY <1>1, <1>6 DEF PatchFits, Laden
    <2>2. ASSUME NEW n, patch' = [patch EXCEPT ![p] = n], n.shipment = s,
                 n.at \in Written
          PROVE  Laden(c, s)'
      <3>1. patch'[p] = n
        BY <2>2 DEF TypeOK, PatchOK
      <3> QED
        BY <1>2, <2>2, <3>1 DEF Laden
    <2>3. CASE PatchWrite(p)
      BY <1>1, <1>6, <2>1, <2>2, <2>3, OnToRelease DEF PatchWrite
    <2>4. CASE PatchUnsettled(p) \/ PatchRecord(p)
      BY <1>1, <1>6, <2>1, <2>2, <2>4, OnToRelease
      DEF PatchUnsettled, PatchRecord, Written
    <2>5. CASE PatchSettle(p)
      <3>1. PICK result : \/ patch' = [patch EXCEPT ![p] = [r EXCEPT !.at = "record",
                                                                    !.result = result]]
                          \/ patch' = [patch EXCEPT ![p] = AfterSettle(r)]
        BY <2>5 DEF PatchSettle
      <3>2. PICK n : n = [r EXCEPT !.at = "record", !.result = result]
        OBVIOUS
      <3>3. n.at = "record" /\ n.shipment = s
        BY <1>1, <1>6, <3>2 DEF PatchSlot
      <3>4. n.at \in Written /\ AfterSettle(r).at \in Written
        BY <1>1, <1>6, <2>1, <3>3, OnToRelease DEF Written
      <3>5. AfterSettle(r).shipment = s
        BY <1>1, <1>6, <2>1, OnToRelease
      <3> QED
        BY <2>2, <3>1, <3>2, <3>3, <3>4, <3>5
    <2>6. CASE PatchRelease(p)
      BY <2>1, <2>6 DEF PatchRelease, ReleaseCarrier, TypeOK, StoreTypeOK
    <2> QED
      BY <2>3, <2>4, <2>5, <2>6 DEF PatchContinues
  <1> QED
    BY <1>4, <1>5, <1>6

LEMMA BookedStep ==
  ASSUME LifecycleInv, BookedHasLoad, ~StoreFails, "crash" \notin Faults, [Next]_vars
  PROVE  BookedHasLoad'
  <1> USE DEF LifecycleInv
  <1> SUFFICES ASSUME NEW c \in Carriers, carriers'[c] = "booked"
               PROVE  \E s \in Shipments : Laden(c, s)'
    BY DEF BookedHasLoad, Laden, Written
  <1>1. CASE carriers[c] = "booked"
    <2>1. PICK s \in Shipments : Laden(c, s)
      BY <1>1 DEF BookedHasLoad, Laden, Written
    <2> QED
      BY <2>1, LadenOtherwise, LadenPatch
  <1>2. CASE carriers[c] # "booked"
    <2>1. PICK d \in Dispatchers : DispatchBook(d) /\ dispatch[d].carrier = c
      BY <1>2
      DEF Next, vars, CreateCarrier, SaveCarrier, CreateShipment, SaveShipment,
          DispatchRead, PatchRead, WorkerTake, Crash, DispatchContinues,
          DispatchBook, Dispatch, DispatchRefused, DispatchAuthorize,
          DispatchUnauthorized, DispatchRecord, UpdateShipmentPayment,
          PatchContinues, PatchWrite, UpdateShipmentStatus, PatchSettle,
          PatchUnsettled, PatchRecord, PatchRelease, ReleaseCarrier,
          WorkerContinues, WorkerMark, WorkerRank, WorkerConclude, storeVars,
          TypeOK, StoreTypeOK
    <2>2. PICK s \in Shipments : s = dispatch[d].shipment
      BY <2>1 DEF DispatchBook, TypeOK, DispatchOK, Serving
    <2>3. shipments'[s].status = StatusDispatched /\ shipments'[s].carrier = c
      BY <2>1, <2>2, BookWritten DEF DispatchBook, TypeOK
    <2> QED
      BY <2>3 DEF Laden, StatusDispatched, StatusCancelled
  <1> QED
    BY <1>1, <1>2

\* When clients have one request in flight per shipment and the store does not fail
\* and the process does not die, no carrier is left booked for nothing: there is
\* a load of its own that is not cancelled, or the PATCH that will release it
\* (handlers.go:297-306).  What Stripe does makes no difference.
THEOREM BookedHasLoadCorrect ==
  ASSUME Discipline = "requests", "store" \notin Faults, "crash" \notin Faults
  PROVE  Spec => []BookedHasLoad
  <1>1. LifecycleInv /\ [Next]_vars => LifecycleInv'
    BY LifecycleInvStep
  <1>2. Init => BookedHasLoad
    BY DEF Init, StoreInit, BookedHasLoad
  <1>3. LifecycleInv /\ BookedHasLoad /\ [Next]_vars => BookedHasLoad'
    BY BookedStep DEF StoreFails
  <1> QED
    BY <1>1, <1>2, <1>3, LifecycleInvInit, PTL DEF Spec

-----------------------------------------------------------------------------
(* A shipment at "matching" has a job.                                       *)

\* Worker w is between the two writes of its job on shipment s.
Screens(w, s) == work[w].shipment = s /\ work[w].at \in { "rank", "conclude" }

\* Nobody but a worker writes "matching".
LEMMA MatchingFrom ==
  ASSUME TypeOK, [Next]_vars, NEW s \in Shipments,
         shipments'[s].status = StatusMatching, shipments[s].status # StatusMatching
  PROVE  \E w \in Workers : /\ WorkerMark(w) /\ work[w].shipment = s
                            /\ UpdateShipmentStatus(s, StatusMatching)
  <1>1. CASE UNCHANGED shipments
    BY <1>1
  <1>2. ASSUME NEW t \in Shipments, CreateShipment(t)
        PROVE  FALSE
    <2>1. [NoRow EXCEPT !.status = StatusPending].status = StatusPending
      BY DEF NoRow
    <2> QED
      BY <1>2, <2>1
      DEF CreateShipment, SaveShipment, TypeOK, StoreTypeOK, StatusPending, StatusMatching
  <1>3. ASSUME NEW d \in Dispatchers, DispatchBook(d)
        PROVE  FALSE
    <2>1. dispatch[d].shipment \in Shipments
      BY <1>3 DEF DispatchBook, TypeOK, DispatchOK, Serving
    <2> QED
      BY <1>3, <2>1, BookWritten
      DEF DispatchBook, TypeOK, StatusDispatched, StatusMatching
  <1>4. ASSUME \/ \E d \in Dispatchers : DispatchRecord(d)
               \/ \E p \in Patchers : PatchRecord(p)
        PROVE  FALSE
    <2>1. \/ UNCHANGED shipments
          \/ \E t \in Shipments : \E i, paid : UpdateShipmentPayment(t, i, paid)
      BY <1>4 DEF DispatchRecord, PatchRecord, TypeOK, DispatchOK, PatchOK, Serving, storeVars
    <2> QED
      BY <2>1, PaymentWritten DEF TypeOK
  <1>5. ASSUME NEW p \in Patchers, PatchWrite(p)
        PROVE  FALSE
    <2>1. patch[p].shipment \in Shipments /\ patch[p].target # StatusMatching
      BY <1>5 DEF PatchWrite, TypeOK, PatchOK, Serving, NextStatuses, Statuses,
                  StatusPending, StatusDispatched, StatusInTransit, StatusDelivered,
                  StatusCancelled, StatusNoMatch, StatusMatching
    <2> QED
      BY <1>5, <2>1, StatusWritten DEF PatchWrite, TypeOK, storeVars
  <1>6. ASSUME NEW w \in Workers, WorkerMark(w)
        PROVE  work[w].shipment = s /\ UpdateShipmentStatus(s, StatusMatching)
    <2>1. work[w].shipment \in Shipments
      BY <1>6 DEF WorkerMark, TypeOK, WorkOK, Serving
    <2> QED
      BY <1>6, <2>1, StatusWritten DEF WorkerMark, TypeOK, storeVars
  <1>7. ASSUME NEW w \in Workers, WorkerConclude(w)
        PROVE  FALSE
    <2>1. work[w].shipment \in Shipments /\ work[w].verdict # StatusMatching
      BY <1>7 DEF WorkerConclude, TypeOK, WorkOK, WorkSlot, Serving, StatusMatched,
                  StatusNoMatch, StatusMatching
    <2> QED
      BY <1>7, <2>1, StatusWritten DEF WorkerConclude, TypeOK, storeVars
  <1> QED
    BY <1>1, <1>2, <1>3, <1>4, <1>5, <1>6, <1>7
    DEF Next, vars, CreateCarrier, SaveCarrier, DispatchRead, PatchRead, WorkerTake,
        Crash, DispatchContinues, DispatchRefused, DispatchAuthorize,
        DispatchUnauthorized, PatchContinues, PatchSettle, PatchUnsettled,
        PatchRelease, ReleaseCarrier, WorkerContinues, WorkerRank, storeVars

\* A job between its writes stays there, or writes its verdict.
LEMMA JobGoesOn ==
  ASSUME TypeOK, ~StoreFails, "crash" \notin Faults, [Next]_vars,
         NEW w \in Workers, NEW s \in Shipments, Screens(w, s)
  PROVE  Screens(w, s)' \/ shipments'[s].status # StatusMatching
  <1> PICK r : r = work[w]
    OBVIOUS
  <1>1. r \in WorkSlot
    BY DEF TypeOK, WorkOK
  <1>2. CASE work'[w] = work[w]
    BY <1>2 DEF Screens
  <1>3. CASE WorkerRank(w)
    <2>1. PICK verdict : work' = [work EXCEPT ![w] = [r EXCEPT !.at = "conclude",
                                                             !.verdict = verdict]]
      BY <1>3 DEF WorkerRank
    <2>2. PICK n : n = [r EXCEPT !.at = "conclude", !.verdict = verdict]
      OBVIOUS
    <2>3. n.at = "conclude" /\ n.shipment = r.shipment
      BY <1>1, <2>2 DEF WorkSlot
    <2>4. work'[w] = n
      BY <2>1, <2>2 DEF TypeOK, WorkOK
    <2> QED
      BY <2>3, <2>4 DEF Screens
  <1>4. CASE WorkerConclude(w)
    <2>1. /\ r.verdict # StatusMatching /\ r.shipment = s
          /\ UpdateShipmentStatus(s, r.verdict)
      BY <1>4 DEF WorkerConclude, Screens, TypeOK, WorkOK, WorkSlot, StatusMatched,
                  StatusNoMatch, StatusMatching
    <2> QED
      BY <2>1, StatusWritten DEF TypeOK
  <1>5. ASSUME NEW v \in Workers, v # w, WorkerContinues(v)
        PROVE  work'[w] = work[w]
    BY <1>5 DEF WorkerContinues, WorkerMark, WorkerRank, WorkerConclude, TypeOK, WorkOK
  <1>6. ASSUME NEW v \in Workers, NEW t \in Shipments, WorkerTake(v, t)
        PROVE  work'[w] = work[w]
    BY <1>6 DEF WorkerTake, TypeOK, WorkOK, Screens
  <1>7. ~WorkerMark(w)
    BY DEF WorkerMark, Screens
  <1> QED
    BY <1>2, <1>3, <1>4, <1>5, <1>6, <1>7
    DEF Next, vars, CreateCarrier, CreateShipment, DispatchRead, PatchRead, Crash,
        DispatchContinues, DispatchBook, DispatchRefused, DispatchAuthorize,
        DispatchUnauthorized, DispatchRecord, PatchContinues, PatchWrite, PatchSettle,
        PatchUnsettled, PatchRecord, PatchRelease, WorkerContinues, slotVars

\* With no discipline of the clients, and where the store does not fail and the
\* process does not die, a shipment is at "matching" only while a worker is
\* between the two writes of a job for it (worker.go:47-56), however many jobs
\* and other requests write its status meanwhile.
THEOREM MatchingHasJobCorrect ==
  ASSUME "store" \notin Faults, "crash" \notin Faults
  PROVE  Spec => []MatchingHasJob
  <1>1. Init => MatchingHasJob
    <2>1. NoRow.status # StatusMatching
      BY DEF NoRow, StatusMatching
    <2> QED
      BY <2>1 DEF Init, StoreInit, MatchingHasJob
  <1>2. ASSUME TypeOK, MatchingHasJob, [Next]_vars
        PROVE  MatchingHasJob'
    <2> SUFFICES ASSUME NEW s \in Shipments, shipments'[s].status = StatusMatching
                 PROVE  \E w \in Workers : Screens(w, s)'
      BY DEF MatchingHasJob, Screens
    <2>1. CASE shipments[s].status = StatusMatching
      <3>1. PICK w \in Workers : Screens(w, s)
        BY <1>2, <2>1 DEF MatchingHasJob, Screens
      <3> QED
        BY <1>2, <3>1, JobGoesOn DEF StoreFails
    <2>2. CASE shipments[s].status # StatusMatching
      <3>1. PICK w \in Workers : WorkerMark(w) /\ work[w].shipment = s
        BY <1>2, <2>2, MatchingFrom
      <3>2. PICK n : n = [work[w] EXCEPT !.at = "rank"]
        OBVIOUS
      <3>3. n.at = "rank" /\ n.shipment = s
        BY <1>2, <3>1, <3>2 DEF TypeOK, WorkOK, WorkSlot
      <3>4. work'[w] = n
        BY <1>2, <3>1, <3>2 DEF WorkerMark, TypeOK, WorkOK
      <3> QED
        BY <3>3, <3>4 DEF Screens
    <2> QED
      BY <2>1, <2>2
  <1> QED
    BY <1>1, <1>2, TypeCorrect, PTL DEF Spec

-----------------------------------------------------------------------------
(* Nothing is forgotten, where nothing fails.                                *)

\* A hold is on its row, or with the dispatch that is about to write it there.
HoldsRecorded ==
    \A s \in Shipments, i \in Intents : intents[i].shipment = s =>
        \/ shipments[s].intent = i
        \/ \E d \in Dispatchers : /\ dispatch[d].at = "record"
                                  /\ dispatch[d].shipment = s

\* A row says of its hold what Stripe says, or a PATCH is about to correct it.
StatesRecorded ==
    \A s \in Shipments : shipments[s].intent # NoIntent =>
        \/ shipments[s].paid = intents[shipments[s].intent].state
        \/ \E p \in Patchers : /\ patch[p].at = "record"
                               /\ patch[p].shipment = s

\* How the hold of a load ends that ends with this status.
ClosedAs(status) == IF status = StatusDelivered THEN "succeeded" ELSE "canceled"

\* The hold of a load that has ended is closed, or a PATCH is about to close it.
HoldsClosed ==
    \A s \in Shipments, i \in Intents :
        /\ intents[i].shipment = s
        /\ shipments[s].status \in { StatusDelivered, StatusCancelled }
        =>
        \/ intents[i].state = ClosedAs(shipments[s].status)
        \/ \E p \in Patchers : /\ patch[p].at = "settle"
                               /\ patch[p].shipment = s

\* The hold a handler is about to record or to settle is open.
OpenInHand ==
    /\ \A d \in Dispatchers : dispatch[d].at = "record" =>
           intents[dispatch[d].intent].state = "requires_capture"
    /\ \A p \in Patchers : patch[p].at = "settle" =>
           intents[patch[p].intent].state = "requires_capture"

\* There are holds only where payments are enabled.
NoneUnpaid ==
    /\ \A i \in Intents : intents[i].state # "unused" => PaymentsEnabled
    /\ \A d \in Dispatchers : dispatch[d].at \in { "authorize", "record" } =>
                                  PaymentsEnabled

SettleInv ==
    /\ HoldsRecorded
    /\ StatesRecorded
    /\ HoldsClosed
    /\ OpenInHand
    /\ NoneUnpaid

\* The hold of a load that can no longer be delivered as well as cancelled is due.
Ended == { StatusDelivered, StatusCancelled }

\* Rows and slots that move without anything to settle.
RowsQuiet ==
    /\ MoneyKept
    /\ \A s \in Shipments : \/ shipments'[s].status = shipments[s].status
                            \/ shipments'[s].status \notin Ended

SlotsQuiet ==
    /\ \A d \in Dispatchers :
          /\ dispatch[d].at = "record" \/ dispatch'[d].at = "record" =>
                 dispatch'[d] = dispatch[d]
          /\ dispatch'[d].at = "authorize" => PaymentsEnabled
    /\ \A p \in Patchers :
          patch[p].at \in { "settle", "record" } \/ patch'[p].at = "settle" =>
                 patch'[p] = patch[p]

LEMMA SettleQuiet ==
  ASSUME SettleInv, UNCHANGED intents, RowsQuiet, SlotsQuiet
  PROVE  SettleInv'
  <1> USE DEF SettleInv
  <1>1. HoldsRecorded'
    BY DEF HoldsRecorded, RowsQuiet, MoneyKept, SlotsQuiet
  <1>2. StatesRecorded'
    BY DEF StatesRecorded, RowsQuiet, MoneyKept, SlotsQuiet
  <1>3. HoldsClosed'
    BY DEF HoldsClosed, Ended, ClosedAs, RowsQuiet, SlotsQuiet
  <1>4. OpenInHand' /\ NoneUnpaid'
    BY DEF OpenInHand, NoneUnpaid, SlotsQuiet
  <1> QED
    BY <1>1, <1>2, <1>3, <1>4

LEMMA RowsResting ==
  UNCHANGED shipments => RowsQuiet
  BY DEF RowsQuiet, MoneyKept

\* What a write of the payment columns does to them.
LEMMA MoneyWritten ==
  ASSUME StoreTypeOK, NEW s \in Shipments, NEW i, NEW paid,
         UpdateShipmentPayment(s, i, paid)
  PROVE  /\ shipments'[s].intent = i /\ shipments'[s].paid = paid
         /\ shipments'[s].status = shipments[s].status
         /\ \A t \in Shipments \ { s } : shipments'[t] = shipments[t]
  <1> DEFINE row == [shipments[s] EXCEPT !.intent = i, !.paid = paid]
  <1>1. row.intent = i /\ row.paid = paid /\ row.status = shipments[s].status
    BY DEF StoreTypeOK, ShipmentRow
  <1> QED
    BY <1>1 DEF UpdateShipmentPayment, StoreTypeOK

\* The slots of the requests that start, and of those with no payment to see to.
LEMMA DispatchQuiet ==
  ASSUME DispatchOK, NEW d \in Dispatchers, NEW n,
         dispatch' = [dispatch EXCEPT ![d] = n], UNCHANGED patch, NoneUnpaid,
         dispatch[d].at # "record", n.at # "record",
         n.at = "authorize" => PaymentsEnabled
  PROVE  SlotsQuiet
  BY DEF SlotsQuiet, DispatchOK, NoneUnpaid

LEMMA PatchQuiet ==
  ASSUME PatchOK, NEW p \in Patchers, NEW n,
         patch' = [patch EXCEPT ![p] = n], UNCHANGED dispatch, NoneUnpaid,
         patch[p].at \notin { "settle", "record" }, n.at # "settle"
  PROVE  SlotsQuiet
  BY DEF SlotsQuiet, PatchOK, NoneUnpaid

LEMMA SlotsResting ==
  ASSUME UNCHANGED << dispatch, patch >>, NoneUnpaid
  PROVE  SlotsQuiet
  BY DEF SlotsQuiet, NoneUnpaid

LEMMA SettleDispatchQuiet ==
  ASSUME LifecycleInv, SettleInv, ~StoreFails, NEW d \in Dispatchers,
         DispatchBook(d) \/ DispatchRefused(d) \/ DispatchUnauthorized(d)
  PROVE  SettleInv'
  <1> USE DEF LifecycleInv
  <1> PICK r : r = dispatch[d]
    OBVIOUS
  <1>1. r \in DispatchSlot /\ r.shipment \in Shipments /\ r.at \in { "book", "authorize" }
    BY DEF TypeOK, DispatchOK, Serving, DispatchBook, DispatchRefused,
           DispatchUnauthorized
  <1>2. UNCHANGED << intents, patch >>
    BY DEF DispatchBook, DispatchRefused, DispatchUnauthorized
  <1>3. RowsQuiet
    <2>1. CASE DispatchBook(d)
      <3>1. Dispatch(r.shipment, r.carrier, r.price)
        BY <2>1 DEF DispatchBook
      <3>2. MoneyKept
        BY <1>1, <3>1, MoneyUntouched DEF TypeOK
      <3>3. \A s \in Shipments : \/ shipments'[s].status = shipments[s].status
                                 \/ shipments'[s].status = StatusDispatched
        BY <1>1, <3>1, BookWritten DEF TypeOK
      <3> QED
        BY <3>2, <3>3 DEF RowsQuiet, Ended, StatusDispatched, StatusDelivered,
                          StatusCancelled
    <2> QED
      BY <2>1, RowsResting DEF DispatchRefused, DispatchUnauthorized, storeVars
  <1>4. PICK n : /\ dispatch' = [dispatch EXCEPT ![d] = n]
                 /\ \/ n = IdleDispatch
                    \/ n = [r EXCEPT !.at = "authorize"] /\ PaymentsEnabled
    BY DEF DispatchBook, DispatchRefused, DispatchUnauthorized
  <1>5. n.at # "record" /\ (n.at = "authorize" => PaymentsEnabled)
    BY <1>1, <1>4 DEF IdleDispatch, DispatchSlot
  <1>6. SlotsQuiet
    BY <1>1, <1>2, <1>4, <1>5, DispatchQuiet DEF TypeOK, SettleInv
  <1> QED
    BY <1>2, <1>3, <1>6, SettleQuiet

\* A match job writes no status with which a load has ended.
LEMMA SettleWork ==
  ASSUME LifecycleInv, SettleInv, NEW w \in Workers, WorkerContinues(w)
  PROVE  SettleInv'
  <1> USE DEF LifecycleInv
  <1>1. UNCHANGED << intents, dispatch, patch >>
    BY DEF WorkerContinues, WorkerMark, WorkerRank, WorkerConclude
  <1>2. PICK verdict \in Verdicts : \/ UpdateShipmentStatus(work[w].shipment, verdict)
                                    \/ UNCHANGED shipments
    BY DEF WorkerContinues, WorkerMark, WorkerRank, WorkerConclude, TypeOK, WorkOK,
           WorkSlot, Verdicts, storeVars
  <1>3. work[w].shipment \in Shipments
    BY DEF WorkerContinues, WorkerMark, WorkerRank, WorkerConclude, TypeOK, WorkOK,
           Serving
  <1>4. MoneyKept
    BY <1>2, <1>3, MoneyUntouched DEF TypeOK
  <1>5. \A s \in Shipments : \/ shipments'[s].status = shipments[s].status
                             \/ shipments'[s].status = verdict
    BY <1>2, <1>3, StatusWritten DEF TypeOK
  <1>6. verdict \notin Ended
    BY DEF Verdicts, Ended, StatusMatching, StatusMatched, StatusNoMatch,
           StatusDelivered, StatusCancelled
  <1> QED
    BY <1>1, <1>4, <1>5, <1>6, SlotsResting, SettleQuiet DEF RowsQuiet, SettleInv

\* A new row has no payment.
LEMMA SettleCreate ==
  ASSUME LifecycleInv, SettleInv, NEW s \in Shipments, CreateShipment(s)
  PROVE  SettleInv'
  <1> USE DEF LifecycleInv
  <1> PICK row : row = [NoRow EXCEPT !.status = StatusPending]
    OBVIOUS
  <1>1. row.status = StatusPending /\ row.intent = NoIntent /\ row.paid = ""
    BY DEF NoRow
  <1>2. /\ shipments'[s] = row
        /\ \A t \in Shipments \ { s } : shipments'[t] = shipments[t]
        /\ shipments[s].status = "absent"
    BY DEF CreateShipment, SaveShipment, ShipmentExists, TypeOK, StoreTypeOK
  <1>3. shipments[s].intent = NoIntent /\ shipments[s].paid = ""
    BY <1>2 DEF PriceInv, EarlyUnheld, Early, LedgerInv, LedgerTruthful
  <1>4. RowsQuiet
    BY <1>1, <1>2, <1>3
    DEF RowsQuiet, MoneyKept, Ended, StatusPending, StatusDelivered, StatusCancelled
  <1> QED
    BY <1>4, SlotsResting, SettleQuiet DEF CreateShipment, slotVars, SettleInv

\* The requests that start, and the release, which comes after the settlement.
LEMMA SettleOtherwise ==
  ASSUME LifecycleInv, SettleInv, Faults = { }, [Next]_vars,
         ~ \E d \in Dispatchers : DispatchAuthorize(d) \/ DispatchRecord(d),
         ~ \E p \in Patchers : \/ PatchWrite(p) \/ PatchSettle(p)
                               \/ PatchUnsettled(p) \/ PatchRecord(p)
  PROVE  SettleInv'
  <1> USE DEF LifecycleInv
  <1>1. ASSUME NEW d \in Dispatchers, NEW s \in Shipments, NEW c, NEW price,
               DispatchRead(d, s, c, price)
        PROVE  SettleInv'
    <2> PICK n : n = [IdleDispatch EXCEPT !.at = "book", !.shipment = s,
                                          !.carrier = c, !.price = price]
      OBVIOUS
    <2>1. n.at = "book"
      BY DEF IdleDispatch
    <2>2. SlotsQuiet
      BY <1>1, <2>1, DispatchQuiet DEF DispatchRead, TypeOK, SettleInv
    <2> QED
      BY <1>1, <2>2, RowsResting, SettleQuiet DEF DispatchRead, storeVars
  <1>2. ASSUME NEW p \in Patchers, NEW s \in Shipments, NEW target,
               PatchRead(p, s, target)
        PROVE  SettleInv'
    <2> PICK n : n = [IdlePatch EXCEPT !.at = "write", !.shipment = s,
                                       !.target = target,
                                       !.carrier = shipments[s].carrier,
                                       !.intent = shipments[s].intent]
      OBVIOUS
    <2>1. n.at = "write"
      BY DEF IdlePatch
    <2>2. SlotsQuiet
      BY <1>2, <2>1, PatchQuiet DEF PatchRead, TypeOK, SettleInv
    <2> QED
      BY <1>2, <2>2, RowsResting, SettleQuiet DEF PatchRead, storeVars
  <1>3. ASSUME NEW p \in Patchers, PatchRelease(p)
        PROVE  SettleInv'
    <2>1. IdlePatch.at = "idle"
      BY DEF IdlePatch
    <2>2. SlotsQuiet
      BY <1>3, <2>1, PatchQuiet DEF PatchRelease, TypeOK, SettleInv
    <2> QED
      BY <1>3, <2>2, RowsResting, SettleQuiet
      DEF PatchRelease, ReleaseCarrier, storeVars
  <1>4. ASSUME \/ \E c \in Carriers : CreateCarrier(c)
               \/ \E w \in Workers, s \in Shipments : WorkerTake(w, s)
               \/ UNCHANGED vars
        PROVE  SettleInv'
    BY <1>4, RowsResting, SlotsResting, SettleQuiet
    DEF CreateCarrier, SaveCarrier, WorkerTake, vars, slotVars, storeVars, SettleInv
  <1> QED
    BY <1>1, <1>2, <1>3, <1>4, SettleDispatchQuiet, SettleWork, SettleCreate
    DEF Next, Crash, DispatchContinues, PatchContinues, StoreFails

\* The hold of a dispatch is in the hands of the dispatch until it is recorded.
LEMMA SettleAuthorize ==
  ASSUME LifecycleInv, SettleInv, ~StripeFails,
         NEW d \in Dispatchers, DispatchAuthorize(d)
  PROVE  SettleInv'
  <1> USE DEF LifecycleInv, SettleInv
  <1> PICK r, s : r = dispatch[d] /\ s = r.shipment
    OBVIOUS
  <1>1. /\ r \in DispatchSlot /\ s \in Shipments /\ r.at = "authorize"
        /\ UNCHANGED << shipments, patch >> /\ DispatchFits(r) /\ PaymentsEnabled
    BY DEF DispatchAuthorize, TypeOK, DispatchOK, Serving, FitInv, storeVars, NoneUnpaid
  <1>2. shipments[s].status = StatusDispatched /\ ~Owned(s)
    BY <1>1 DEF DispatchFits
  <1>3. PICK i \in Intents :
          /\ AuthorizePayment(i, s, AmountCents(r.price))
          /\ dispatch' = [dispatch EXCEPT ![d] = [r EXCEPT !.at = "record", !.intent = i]]
    BY DEF DispatchAuthorize
  <1>4. /\ intents'[i].shipment = s /\ intents'[i].state = "requires_capture"
        /\ intents[i].state = "unused"
        /\ \A j \in Intents \ { i } : intents'[j] = intents[j]
    BY <1>1, <1>2, <1>3, PlacedHold DEF TypeOK, AuthorizePayment
  <1> PICK n : n = [r EXCEPT !.at = "record", !.intent = i]
    OBVIOUS
  <1>5. n.at = "record" /\ n.shipment = s /\ n.intent = i
    BY <1>1 DEF DispatchSlot
  <1>6. /\ dispatch'[d] = n
        /\ \A e \in Dispatchers \ { d } : dispatch'[e] = dispatch[e]
    BY <1>3 DEF TypeOK, DispatchOK
  <1>7. HoldsRecorded'
    <2> SUFFICES ASSUME NEW t \in Shipments, NEW j \in Intents,
                        intents'[j].shipment = t, shipments[t].intent # j
                 PROVE  \E e \in Dispatchers : /\ dispatch'[e].at = "record"
                                               /\ dispatch'[e].shipment = t
      BY <1>1 DEF HoldsRecorded
    <2>1. CASE j = i
      BY <1>4, <1>5, <1>6, <2>1
    <2>2. CASE j # i
      BY <1>1, <1>4, <1>6, <2>2 DEF HoldsRecorded
    <2> QED
      BY <2>1, <2>2
  <1>8. StatesRecorded'
    <2>1. \A t \in Shipments : shipments[t].intent # NoIntent =>
             shipments[t].intent \in Intents \ { i }
      BY <1>4 DEF LedgerInv, LedgerTruthful, Backs
    <2> QED
      BY <1>1, <1>4, <2>1 DEF StatesRecorded
  <1>9. HoldsClosed'
    BY <1>1, <1>2, <1>4
    DEF HoldsClosed, ClosedAs, StatusDispatched, StatusDelivered, StatusCancelled
  <1>10. OpenInHand'
    <2>1. \A e \in Dispatchers \ { d } : dispatch[e].at = "record" =>
             dispatch[e].intent \in Intents \ { i }
      BY <1>4 DEF LedgerInv, DispatchBacked, Backs
    <2>2. \A p \in Patchers : patch[p].at = "settle" => patch[p].intent \in Intents \ { i }
      BY <1>4 DEF LedgerInv, PatchBacked, Backs
    <2>3. ASSUME NEW e \in Dispatchers, dispatch'[e].at = "record"
          PROVE  intents'[dispatch'[e].intent].state = "requires_capture"
      <3>1. CASE e = d
        BY <1>4, <1>5, <1>6, <3>1
      <3>2. CASE e # d
        BY <1>4, <1>6, <2>1, <2>3, <3>2 DEF OpenInHand
      <3> QED
        BY <3>1, <3>2
    <2>4. ASSUME NEW p \in Patchers, patch'[p].at = "settle"
          PROVE  intents'[patch'[p].intent].state = "requires_capture"
      BY <1>1, <1>4, <2>2, <2>4 DEF OpenInHand
    <2> QED
      BY <2>3, <2>4 DEF OpenInHand
  <1>11. NoneUnpaid'
    BY <1>1 DEF NoneUnpaid
  <1> QED
    BY <1>7, <1>8, <1>9, <1>10, <1>11

LEMMA SettleRecord ==
  ASSUME LifecycleInv, SettleInv, ~StoreFails,
         NEW d \in Dispatchers, DispatchRecord(d)
  PROVE  SettleInv'
  <1> USE DEF LifecycleInv, SettleInv
  <1> PICK r, s : r = dispatch[d] /\ s = r.shipment
    OBVIOUS
  <1>1. /\ s \in Shipments /\ r.at = "record" /\ UNCHANGED << intents, patch >>
        /\ UpdateShipmentPayment(s, r.intent, "requires_capture")
    BY DEF DispatchRecord, TypeOK, DispatchOK, Serving
  <1>2. /\ r.intent \in Intents /\ intents[r.intent].shipment = s
        /\ intents[r.intent].state = "requires_capture"
    BY <1>1 DEF LedgerInv, DispatchBacked, Backs, OpenInHand
  <1>3. /\ shipments'[s].intent = r.intent
        /\ shipments'[s].paid = "requires_capture"
        /\ shipments'[s].status = shipments[s].status
        /\ \A t \in Shipments \ { s } : shipments'[t] = shipments[t]
    BY <1>1, MoneyWritten DEF TypeOK
  <1>4. /\ dispatch'[d].at = "idle"
        /\ \A e \in Dispatchers \ { d } : dispatch'[e] = dispatch[e]
    BY DEF DispatchRecord, TypeOK, DispatchOK, IdleDispatch
  <1>5. HoldsRecorded'
    <2> SUFFICES ASSUME NEW t \in Shipments, NEW j \in Intents,
                        intents[j].shipment = t, shipments'[t].intent # j
                 PROVE  \E e \in Dispatchers : /\ dispatch'[e].at = "record"
                                               /\ dispatch'[e].shipment = t
      BY <1>1 DEF HoldsRecorded
    <2>1. t # s
      BY <1>2, <1>3, IdsDisjoint DEF FitInv, OneHoldEach
    <2> QED
      BY <1>3, <1>4, <2>1 DEF HoldsRecorded
  <1>6. StatesRecorded'
    BY <1>1, <1>2, <1>3 DEF StatesRecorded
  <1>7. HoldsClosed'
    BY <1>1, <1>3 DEF HoldsClosed, ClosedAs
  <1>8. OpenInHand' /\ NoneUnpaid'
    BY <1>1, <1>4 DEF OpenInHand, NoneUnpaid
  <1> QED
    BY <1>5, <1>6, <1>7, <1>8

\* A PATCH that ends a load whose hold is open goes on to settle it, with the intent
\* it has read: no dispatch can have added one since.
LEMMA SettleWrite ==
  ASSUME LifecycleInv, MoneyInv, SettleInv, ~StoreFails,
         NEW p \in Patchers, PatchWrite(p)
  PROVE  SettleInv'
  <1> USE DEF LifecycleInv, SettleInv
  <1> PICK r, s : r = patch[p] /\ s = r.shipment
    OBVIOUS
  <1>1. /\ r \in PatchSlot /\ s \in Shipments /\ r.at = "write"
        /\ UNCHANGED << intents, dispatch >> /\ UpdateShipmentStatus(s, r.target)
        /\ PatchFits(r) /\ PatchCurrent(r) /\ PatchBacked(r)
    BY DEF PatchWrite, TypeOK, PatchOK, Serving, FitInv, PriceInv, LedgerInv
  <1>2. MoneyKept
    BY <1>1, MoneyUntouched DEF TypeOK
  <1>3. /\ shipments'[s].status = r.target
        /\ \A t \in Shipments \ { s } : shipments'[t] = shipments[t]
    BY <1>1, StatusWritten DEF TypeOK
  <1>4. /\ patch'[p] = AfterWrite(r)
        /\ \A q \in Patchers \ { p } : patch'[q] = patch[q]
    BY DEF PatchWrite, TypeOK, PatchOK
  <1> PICK n : n = [r EXCEPT !.at = "settle"]
    OBVIOUS
  <1>5. n.at = "settle" /\ n.shipment = s /\ n.intent = r.intent
    BY <1>1 DEF PatchSlot
  <1>6. AfterSettle(r).at \in { "release", "idle" }
    BY <1>1 DEF AfterSettle, IdlePatch, PatchSlot
  <1>7. \/ AfterWrite(r) = n /\ r.target \in Ended /\ r.intent # NoIntent
        \/ AfterWrite(r).at \in { "release", "idle" }
    BY <1>6 DEF AfterWrite, Ended
  <1>8. ASSUME NEW j \in Intents, intents[j].shipment = s
        PROVE  r.intent = j /\ PaymentsEnabled
    <2>1. \A d \in Dispatchers : dispatch[d].at = "record" => dispatch[d].shipment # s
      BY DEF PriceInv, DispatchAlone
    <2>2. r.intent = j
      BY <1>1, <1>8, <2>1 DEF HoldsRecorded, PatchCurrent
    <2>3. intents[j].state # "unused"
      BY <1>1, <1>8, IdsDisjoint DEF FitInv, UnusedUnowned
    <2> QED
      BY <2>2, <2>3 DEF NoneUnpaid
  <1>9. HoldsRecorded'
    BY <1>1, <1>2 DEF HoldsRecorded, MoneyKept
  <1>10. StatesRecorded'
    BY <1>1, <1>2, <1>4 DEF StatesRecorded, MoneyKept
  <1>11. HoldsClosed'
    <2> SUFFICES ASSUME NEW t \in Shipments, NEW j \in Intents,
                        intents[j].shipment = t, shipments'[t].status \in Ended,
                        intents[j].state # ClosedAs(shipments'[t].status)
                 PROVE  \E q \in Patchers : /\ patch'[q].at = "settle"
                                            /\ patch'[q].shipment = t
      BY <1>1 DEF HoldsClosed, Ended, ClosedAs
    <2>1. CASE t = s
      <3>1. r.intent = j /\ PaymentsEnabled /\ r.intent # NoIntent
        BY <1>8, <2>1, IdsDisjoint
      <3>2. AfterWrite(r) = n
        BY <1>3, <2>1, <3>1 DEF AfterWrite, Ended
      <3> QED
        BY <1>4, <1>5, <2>1, <3>2
    <2>2. CASE t # s
      BY <1>1, <1>3, <1>4, <2>2 DEF HoldsClosed, Ended
    <2> QED
      BY <2>1, <2>2
  <1>12. OpenInHand'
    <2> SUFFICES ASSUME patch'[p].at = "settle"
                 PROVE  intents[patch'[p].intent].state = "requires_capture"
      BY <1>1, <1>4 DEF OpenInHand
    <2>1. /\ r.target \in Ended /\ r.intent # NoIntent
          /\ patch'[p].intent = r.intent
      BY <1>4, <1>5, <1>7
    <2>2. shipments[s].status \in ActiveStatuses
      BY <1>1, <2>1
      DEF PatchFits, ValidateTransition, AllowedTransitions, ActiveStatuses, Ended,
          StatusDispatched, StatusInTransit, StatusDelivered, StatusCancelled,
          StatusNoMatch
    <2>3. Backs(r.intent, s)
      BY <1>1, <2>1 DEF PatchBacked
    <2> QED
      BY <2>1, <2>2, <2>3 DEF Backs, MoneyInv, Follows
  <1>13. NoneUnpaid'
    BY <1>1 DEF NoneUnpaid
  <1> QED
    BY <1>9, <1>10, <1>11, <1>12, <1>13

\* The hold is closed the way its load has ended, and the row is next.
LEMMA SettleClose ==
  ASSUME LifecycleInv, SettleInv, ~StripeFails, NEW p \in Patchers, PatchSettle(p)
  PROVE  SettleInv'
  <1> USE DEF LifecycleInv, SettleInv
  <1> PICK r, s, i : r = patch[p] /\ s = r.shipment /\ i = r.intent
    OBVIOUS
  <1>1. /\ r \in PatchSlot /\ s \in Shipments /\ r.at = "settle"
        /\ UNCHANGED << shipments, dispatch >> /\ PatchFits(r) /\ PatchBacked(r)
    BY DEF PatchSettle, TypeOK, PatchOK, Serving, FitInv, LedgerInv, storeVars
  <1>2. /\ shipments[s].status = r.target
        /\ i \in Intents /\ intents[i].shipment = s /\ intents[i].state # "unused"
    BY <1>1 DEF PatchFits, PatchBacked, Backs
  <1>3. /\ intents'[i].shipment = s
        /\ intents'[i].state = ClosedAs(r.target)
        /\ \A j \in Intents \ { i } : intents'[j] = intents[j]
    BY <1>2
    DEF PatchSettle, CapturePayment, CancelPayment, TypeOK, StripeTypeOK, ClosedAs,
        StatusDelivered, StatusCancelled
  <1>4. PICK n : /\ patch' = [patch EXCEPT ![p] = n]
                 /\ \E result : n = [r EXCEPT !.at = "record", !.result = result]
    BY DEF PatchSettle
  <1>5. n.at = "record" /\ n.shipment = s
    BY <1>1, <1>4 DEF PatchSlot
  <1>6. patch'[p] = n /\ \A q \in Patchers \ { p } : patch'[q] = patch[q]
    BY <1>4 DEF TypeOK, PatchOK
  <1>7. \A j \in Intents : /\ intents'[j].shipment = intents[j].shipment
                           /\ j # i => intents[j].shipment # s
    BY <1>1, <1>2, <1>3, IdsDisjoint DEF FitInv, OneHoldEach
  <1>8. HoldsRecorded'
    BY <1>1, <1>7 DEF HoldsRecorded
  <1>9. StatesRecorded'
    <2> SUFFICES ASSUME NEW t \in Shipments, shipments[t].intent # NoIntent,
                        shipments[t].paid # intents'[shipments[t].intent].state
                 PROVE  \E q \in Patchers : /\ patch'[q].at = "record"
                                            /\ patch'[q].shipment = t
      BY <1>1 DEF StatesRecorded
    <2>1. CASE t = s
      BY <1>5, <1>6, <2>1
    <2>2. CASE t # s
      <3>1. shipments[t].intent \in Intents \ { i }
        BY <1>2, <2>2 DEF LedgerInv, LedgerTruthful, Backs
      <3> QED
        BY <1>1, <1>3, <1>6, <3>1 DEF StatesRecorded
    <2> QED
      BY <2>1, <2>2
  <1>10. HoldsClosed'
    <2> SUFFICES ASSUME NEW t \in Shipments, NEW j \in Intents,
                        intents[j].shipment = t, shipments[t].status \in Ended,
                        intents'[j].state # ClosedAs(shipments[t].status)
                 PROVE  \E q \in Patchers : /\ patch'[q].at = "settle"
                                            /\ patch'[q].shipment = t
      BY <1>1, <1>7 DEF HoldsClosed, Ended
    <2>1. j # i
      BY <1>2, <1>3
    <2>2. t # s
      BY <1>7, <2>1
    <2> QED
      BY <1>1, <1>3, <1>6, <2>1, <2>2 DEF HoldsClosed, Ended
  <1>11. OpenInHand'
    <2>1. ASSUME NEW d \in Dispatchers, dispatch[d].at = "record"
          PROVE  intents'[dispatch[d].intent] = intents[dispatch[d].intent]
      <3>1. dispatch[d].shipment # s
        BY <2>1 DEF PriceInv, DispatchAlone
      <3>2. dispatch[d].intent \in Intents \ { i }
        BY <1>2, <2>1, <3>1 DEF LedgerInv, DispatchBacked, Backs
      <3> QED
        BY <1>3, <3>2
    <2>2. ASSUME NEW q \in Patchers \ { p }, patch[q].at = "settle"
          PROVE  intents'[patch[q].intent] = intents[patch[q].intent]
      <3>1. patch[q].shipment # s
        BY <2>2 DEF BookingInv, OnePatchEach
      <3>2. patch[q].intent \in Intents \ { i }
        BY <1>2, <2>2, <3>1 DEF LedgerInv, PatchBacked, Backs
      <3> QED
        BY <1>3, <3>2
    <2> QED
      BY <1>1, <1>5, <1>6, <2>1, <2>2 DEF OpenInHand
  <1>12. NoneUnpaid'
    BY <1>1, <1>2, <1>3 DEF NoneUnpaid
  <1> QED
    BY <1>8, <1>9, <1>10, <1>11, <1>12

\* Nobody else closes the hold of a load, so the call does not fail.
LEMMA NeverUnsettled ==
  ASSUME SettleInv, ~StripeFails, NEW p \in Patchers
  PROVE  ~PatchUnsettled(p)
  BY DEF SettleInv, OpenInHand, PatchUnsettled

LEMMA SettleWriteBack ==
  ASSUME LifecycleInv, SettleInv, ~StoreFails, NEW p \in Patchers, PatchRecord(p)
  PROVE  SettleInv'
  <1> USE DEF LifecycleInv, SettleInv
  <1> PICK r, s : r = patch[p] /\ s = r.shipment
    OBVIOUS
  <1>1. /\ r \in PatchSlot /\ s \in Shipments /\ r.at = "record"
        /\ UNCHANGED << intents, dispatch >>
        /\ UpdateShipmentPayment(s, r.intent, r.result)
        /\ PatchBacked(r) /\ PatchCurrent(r)
    BY DEF PatchRecord, TypeOK, PatchOK, Serving, LedgerInv, PriceInv
  <1>2. r.intent = shipments[s].intent /\ intents[r.intent].state = r.result
    BY <1>1 DEF PatchBacked, PatchCurrent
  <1>3. /\ shipments'[s].intent = r.intent /\ shipments'[s].paid = r.result
        /\ shipments'[s].status = shipments[s].status
        /\ \A t \in Shipments \ { s } : shipments'[t] = shipments[t]
    BY <1>1, MoneyWritten DEF TypeOK
  <1>4. /\ patch'[p] = AfterSettle(r)
        /\ \A q \in Patchers \ { p } : patch'[q] = patch[q]
    BY DEF PatchRecord, TypeOK, PatchOK
  <1>5. AfterSettle(r).at \in { "release", "idle" }
    BY <1>1 DEF AfterSettle, IdlePatch, PatchSlot
  <1>6. HoldsRecorded'
    BY <1>1, <1>2, <1>3 DEF HoldsRecorded
  <1>7. StatesRecorded'
    BY <1>1, <1>2, <1>3, <1>4 DEF StatesRecorded
  <1>8. HoldsClosed'
    BY <1>1, <1>3, <1>4 DEF HoldsClosed, ClosedAs
  <1>9. OpenInHand' /\ NoneUnpaid'
    BY <1>1, <1>4, <1>5 DEF OpenInHand, NoneUnpaid
  <1> QED
    BY <1>6, <1>7, <1>8, <1>9

LEMMA SettleStep ==
  ASSUME LifecycleInv, MoneyInv, SettleInv, Faults = { }, [Next]_vars
  PROVE  SettleInv'
  BY SettleOtherwise, SettleAuthorize, SettleRecord, SettleWrite, SettleClose,
     NeverUnsettled, SettleWriteBack
  DEF StoreFails, StripeFails

LEMMA SettleInit == Init => SettleInv
  <1> SUFFICES ASSUME Init PROVE SettleInv
    OBVIOUS
  <1>1. NoRow.intent = NoIntent /\ NoRow.status = "absent"
    BY DEF NoRow
  <1>2. /\ HoldsRecorded /\ StatesRecorded /\ HoldsClosed
    BY <1>1, IdsDisjoint
    DEF Init, StoreInit, StripeInit, HoldsRecorded, StatesRecorded, HoldsClosed,
        StatusDelivered, StatusCancelled
  <1>3. OpenInHand /\ NoneUnpaid
    BY DEF Init, StripeInit, IdleDispatch, IdlePatch, OpenInHand, NoneUnpaid
  <1> QED
    BY <1>2, <1>3 DEF SettleInv

LEMMA SettleInvCorrect ==
  ASSUME Discipline = "requests", Faults = { }
  PROVE  Spec => [](LifecycleInv /\ SettleInv)
  <1>1. LifecycleInv /\ [Next]_vars => LifecycleInv'
    BY LifecycleInvStep
  <1>2. Init => MoneyInv
    BY DEF Init, StripeInit, MoneyInv
  <1>3. LifecycleInv /\ MoneyInv /\ [Next]_vars => MoneyInv'
    BY MoneyStep
  <1>4. LifecycleInv /\ MoneyInv /\ SettleInv /\ [Next]_vars => SettleInv'
    BY SettleStep
  <1> QED
    BY <1>1, <1>2, <1>3, <1>4, LifecycleInvInit, SettleInit, PTL DEF Spec

\* When clients have one request in flight per shipment and nothing fails, a load
\* without a request in flight has its payment settled: the row names its hold
\* and says of it what Stripe says, and it is charged if the load is delivered
\* and let go if it is cancelled (handlers.go:274-294, 208-217).  Handlers retry
\* nothing, so this is lost with the first call that fails.
THEOREM SettledAtRestCorrect ==
  ASSUME Discipline = "requests", Faults = { }
  PROVE  Spec => []SettledAtRest
  <1>1. ASSUME LifecycleInv, SettleInv
        PROVE  SettledAtRest
    <2> SUFFICES ASSUME NEW s \in Shipments, NEW i \in Intents,
                        NothingOn(s), intents[i].shipment = s
                 PROVE  /\ shipments[s].intent = i
                        /\ shipments[s].paid = intents[i].state
                        /\ shipments[s].status \in { StatusDelivered, StatusCancelled } =>
                              intents[i].state = ClosedAs(shipments[s].status)
      BY DEF SettledAtRest, ClosedAs, StatusDelivered, StatusCancelled
    <2>1. /\ \A d \in Dispatchers : dispatch[d].shipment # s
          /\ \A p \in Patchers : patch[p].shipment # s
      BY DEF NothingOn, NoPatchOn
    <2>2. shipments[s].intent = i
      BY <1>1, <2>1 DEF SettleInv, HoldsRecorded
    <2>3. shipments[s].paid = intents[i].state
      BY <1>1, <2>1, <2>2, IdsDisjoint DEF SettleInv, StatesRecorded
    <2> QED
      BY <1>1, <2>1, <2>2, <2>3 DEF SettleInv, HoldsClosed
  <1> QED
    BY <1>1, SettleInvCorrect, PTL

\* The statement that the run cancel_authorize refutes for want of the clients'
\* discipline (README.md:393) is true with it, where nothing fails.
THEOREM CancelledHoldReleasedCorrect ==
  ASSUME Discipline = "requests", Faults = { }
  PROVE  Spec => []CancelledHoldReleased
  <1>1. SettledAtRest => CancelledHoldReleased
    BY DEF SettledAtRest, CancelledHoldReleased
  <1> QED
    BY <1>1, SettledAtRestCorrect, PTL

=============================================================================
