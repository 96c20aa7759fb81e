------------------------------- MODULE Stripe -------------------------------
(***************************************************************************)
(* The payment intents held by Stripe, as payment.go uses them.  Stripe is *)
(* outside the repository: what it does is modelled from the calls made to *)
(* it and from the statuses models.go says come back.  An operator is the  *)
(* call taking effect at Stripe; whether the answer reaches the caller is  *)
(* for the caller (CarrierMatch) to decide.                                *)
(***************************************************************************)
EXTENDS Ids

CONSTANT
    MinCharge     \* smallest amount Stripe accepts, in cents

ASSUME MinChargeIsAmount == MinCharge \in Nat

VARIABLE intents  \* Stripe's own record of every intent

IntentStates == { "unused", "requires_capture", "succeeded", "canceled" }

StripeTypeOK ==
    intents \in [Intents -> [ state    : IntentStates,
                              shipment : Shipments \cup { NoShipment },
                              amount   : Int ]]

StripeInit ==
    intents = [i \in Intents |-> [state |-> "unused", shipment |-> NoShipment,
                                  amount |-> 0]]

\* Mutant: int64(amountUSD * 100), truncating where the code rounds.
AmountCentsTruncates(price) == price \div 10

\* int64(math.Round(amountUSD * 100)): a price in tenths of a cent to cents,
\* halves away from zero.
AmountCents(price) ==
    IF price >= 0 THEN (price + 5) \div 10 ELSE -((5 - price) \div 10)

\* A PaymentIntent is created and confirmed with capture_method=manual.
AuthorizePayment(i, s, amount) ==
    /\ amount >= MinCharge
    /\ intents[i].state = "unused"
    /\ intents' = [intents EXCEPT ![i] = [state |-> "requires_capture",
                                          shipment |-> s, amount |-> amount]]

\* Stripe takes a capture or a cancel only while the hold is open.
CapturePayment(i) ==
    /\ intents[i].state = "requires_capture"
    /\ intents' = [intents EXCEPT ![i].state = "succeeded"]

CancelPayment(i) ==
    /\ intents[i].state = "requires_capture"
    /\ intents' = [intents EXCEPT ![i].state = "canceled"]

=============================================================================
