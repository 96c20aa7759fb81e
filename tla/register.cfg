SPECIFICATION Spec
CONSTANTS
    Requests = {r1, r2, r3}
    Bodies <- SomeBodies
    Addresses = {"depot", "near", "far", "nowhere"}
    NoAddress = ""
    Places <- SomePlaces
    NoPlace = "none"
    Origin = "origin"
    PlaceOf <- WhereIs
    Distance <- Apart
    Faults = {"geocoder", "store", "crash"}
INVARIANTS RegistrationTypeOK LocatedRight StatsTrue VerdictRight NearestFirst
CHECK_DEADLOCK FALSE
