SPECIFICATION Spec
CONSTANTS
    Shipments = {s1}
    Carriers = {c1, c2}
    Intents = {}
    Prices = {1009}
    Dispatchers = {d1, d2}
    Patchers = {}
    Workers = {}
    PaymentsEnabled = FALSE
    Faults = {}
    Discipline = "none"
    Fits <- AllFit
    MinCharge = 50
    NoCarrier = NoCarrier
    NoShipment = NoShipment
    NoIntent = NoIntent
INVARIANTS BookedOnlyWhileActive
CHECK_DEADLOCK FALSE
