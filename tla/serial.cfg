SPECIFICATION Spec
CONSTANTS
    Shipments = {s1, s2}
    Carriers = {c1, c2}
    Intents = {i1, i2}
    Prices = {1009, 4}
    Dispatchers = {d1, d2}
    Patchers = {p1, p2}
    Workers = {w1}
    PaymentsEnabled = TRUE
    Faults = {"store", "stripe", "crash"}
    Discipline = "requests"
    Fits <- AllFit
    MinCharge = 50
    NoCarrier = NoCarrier
    NoShipment = NoShipment
    NoIntent = NoIntent
SYMMETRY Symmetry
INVARIANTS LedgerTruthful LedgerInv HoldMatchesPrice MoneyFollowsLoad
PROPERTIES ImplementsLifecycle
