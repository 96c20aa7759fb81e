SPECIFICATION Spec
CONSTANTS
    Shipments = {s1, s2}
    Carriers = {c1}
    Intents = {}
    Prices = {1009}
    Dispatchers = {d1}
    Patchers = {p1, p2}
    Workers = {}
    PaymentsEnabled = FALSE
    Faults = {}
    Discipline = "none"
    Fits <- AllFit
    MinCharge = 50
    NoCarrier = NoCarrier
    NoShipment = NoShipment
    NoIntent = NoIntent
INVARIANTS NoDoubleBooking
CHECK_DEADLOCK FALSE
