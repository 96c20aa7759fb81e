SPECIFICATION FairSpec
CONSTANTS
    Carriers = {c1}
    Shipments = {s1, s2}
    Intents = {i1}
    Prices = {1}
    NoCarrier = NoCarrier
    NoShipment = NoShipment
    NoIntent = NoIntent
    Calls = {k1, k2}
    NoCall = NoCall
    Commands <- SomeCommands
    Faults = {"store", "crash"}
INVARIANTS SQLiteTypeOK
PROPERTIES ImplementsContract EveryCallReturns
