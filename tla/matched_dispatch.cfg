SPECIFICATION Spec
CONSTANTS
    Shipments = {s1}
    Carriers = {c1}
    Intents = {}
    Prices = {1009}
    Dispatchers = {d1}
    Patchers = {p1}
    Workers = {w1}
    PaymentsEnabled = FALSE
    Faults = {}
    Discipline = "requests"
    Fits <- AllFit
    MinCharge = 50
    NoCarrier = NoCarrier
    NoShipment = NoShipment
    NoIntent = NoIntent
INVARIANTS MatchedIsDispatchable
