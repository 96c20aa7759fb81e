SPECIFICATION Spec
CONSTANTS
    Shipments = {s1, s2}
    Carriers = {c1, c2}
    Intents = {}
    Prices = {1009}
    Dispatchers = {d1, d2}
    Patchers = {p1, p2}
    Workers = {w1}
    PaymentsEnabled = FALSE
    Faults = {"store", "crash"}
    Discipline = "patches"
    Fits <- AllFit
    MinCharge = 50
    NoCarrier = NoCarrier
    NoShipment = NoShipment
    NoIntent = NoIntent
SYMMETRY Symmetry
INVARIANTS TypeOK NoDoubleBooking BookingInv
PROPERTIES StrandedForGood
