--------------------------------- MODULE Ids ---------------------------------
(***************************************************************************)
(* The identifiers and amounts the store and Stripe have in common.  The   *)
(* sets bound an instance: how many rows newID hands out ids for, and how  *)
(* many payment intents Stripe ever creates.                               *)
(***************************************************************************)
EXTENDS Integers

CONSTANTS
    Carriers,     \* carrier ids
    Shipments,    \* shipment ids
    Intents,      \* payment intent ids
    Prices,       \* prices a dispatch may agree on, in tenths of a cent
    NoCarrier,    \* carrier_id = ''
    NoShipment,   \* a handler slot serving nothing, an intent not yet created
    NoIntent      \* payment_intent_id = ''

ASSUME IdsDisjoint ==
    /\ NoCarrier \notin Carriers
    /\ NoShipment \notin Shipments
    /\ NoIntent \notin Intents

ASSUME PricesAreAmounts == Prices \subseteq Int

=============================================================================
