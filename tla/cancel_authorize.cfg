SPECIFICATION Spec
CONSTANTS
    Shipments = {s1}
    Carriers = {c1}
    Intents = {i1}
    Prices = {1009}
    Dispatchers = {d1}
    Patchers = {p1}
    Workers = {}
    PaymentsEnabled = TRUE
    Faults = {}
    Discipline = "patches"
    Fits <- AllFit
    MinCharge = 50
    NoCarrier = NoCarrier
    NoShipment = NoShipment
    NoIntent = NoIntent
INVARIANTS CancelledHoldReleased
CHECK_DEADLOCK FALSE
