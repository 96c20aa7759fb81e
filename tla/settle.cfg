SPECIFICATION FairSpec
CONSTANTS
    Shipments = {s1, s2}
    Carriers = {c1, c2}
    Intents = {i1, i2}
    Prices = {1009}
    Dispatchers = {d1}
    Patchers = {p1, p2}
    Workers = {w1}
    PaymentsEnabled = TRUE
    Faults = {}
    Discipline = "requests"
    Fits <- AllFit
    MinCharge = 50
    NoCarrier = NoCarrier
    NoShipment = NoShipment
    NoIntent = NoIntent
INVARIANTS SettledAtRest BookedHasLoad MatchingHasJob
PROPERTIES DeliveredIsCharged CancelledIsReleased CancelledFreesCarrier MatchingEnds
