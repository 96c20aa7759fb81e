---------------------------- MODULE Registration ----------------------------
(***************************************************************************)
(* How carriers, shippers and shipments come into the store: the creation  *)
(* handlers of handlers.go, each in a goroutine of its own, over the       *)
(* geocoder, its cache and the cache's counters; and what ranking makes of *)
(* the rows they have stored.                                              *)
(*                                                                         *)
(* A request is served once, so its name also serves as the id newID gives *)
(* its row.  Requests refused with 400 change nothing and have no action.  *)
(***************************************************************************)
EXTENDS Ranking

CONSTANTS
    Requests,     \* the POST requests of an instance
    Bodies,       \* what they may ask for
    Addresses,    \* free-text addresses
    NoAddress,    \* the address of a shipper
    Places,       \* coordinates
    NoPlace,      \* no coordinates
    Origin,       \* latitude and longitude zero, what an error comes with
    PlaceOf,      \* PlaceOf[a]: where Nominatim finds address a, or NoPlace
    Distance,     \* Distance[p][q]: haversine, in hundredths of a mile
    Faults        \* what may go wrong: "geocoder", "store", "crash"

Body == [ kind : { "carrier", "shipment" }, address : Addresses, lbs : Nat ]
            \cup [ kind : { "shipper" }, address : { NoAddress }, lbs : { 0 } ]

ASSUME RegistrationConstants ==
    /\ IsFiniteSet(Requests) /\ IsFiniteSet(Addresses)
    /\ Bodies \subseteq Body
    /\ NoAddress \notin Addresses
    /\ NoPlace \notin Places /\ Origin \in Places
    /\ PlaceOf \in [Addresses -> Places \cup { NoPlace }]
    /\ Distance \in [Places -> [Places -> Nat]]
    /\ Faults \subseteq { "geocoder", "store", "crash" }

VARIABLES
    creator,      \* creator[r]: the goroutine that serves request r
    cache,        \* the geocoder's cache: address to place
    hits,         \* the cache's counters
    misses,
    stored        \* stored[r]: the row request r has inserted

regVars == << creator, cache, hits, misses, stored >>

NoBody == [ kind |-> "none" ]

\* "at" names what the goroutine does next; "gone" is one that died with its
\* process.
Creator ==
    [ at    : { "new", "get", "recordHit", "recordMiss", "fetch", "set", "save",
                "replied", "gone" },
      body  : Body \cup { NoBody },
      place : Places \cup { NoPlace },
      reply : { "", "created", "unprocessable" } ]

NewCreator == [ at |-> "new", body |-> NoBody, place |-> NoPlace, reply |-> "" ]

Row == [ kind : { "carrier", "shipper", "shipment" },
         address : Addresses \cup { NoAddress },
         place : Places \cup { NoPlace }, lbs : Nat ]

NoRow == [ kind |-> "none" ]

\* Type correctness; a goroutine at work has read its body.
RegistrationTypeOK ==
    /\ creator \in [Requests -> Creator]
    /\ \A r \in Requests : creator[r].at \notin { "new", "gone" } =>
                               creator[r].body \in Bodies
    /\ \A r \in Requests :
          creator[r].at \in { "get", "recordHit", "recordMiss", "fetch", "set" } =>
              creator[r].body.address \in Addresses
    /\ cache \in [Addresses -> Places \cup { NoPlace }]
    /\ hits \in Nat
    /\ misses \in Nat
    /\ stored \in [Requests -> Row \cup { NoRow }]

Init ==
    /\ creator = [r \in Requests |-> NewCreator]
    /\ cache = [a \in Addresses |-> NoPlace]
    /\ hits = 0
    /\ misses = 0
    /\ stored = [r \in Requests |-> NoRow]

-----------------------------------------------------------------------------

Step(r, from, to) == /\ creator[r].at = from
                     /\ creator' = [creator EXCEPT ![r].at = to]

\* Mutant: shippers are looked up as well.
ReceiveLooksUpAll(r, body) ==
    /\ creator[r].at = "new"
    /\ creator' = [creator EXCEPT ![r] = [@ EXCEPT !.body = body, !.at = "get"]]
    /\ UNCHANGED << cache, hits, misses, stored >>

\* A shipper is saved as it is, the others are looked up first.
Receive(r, body) ==
    /\ creator[r].at = "new"
    /\ creator' = [creator EXCEPT ![r] =
                     [@ EXCEPT !.body = body,
                               !.at = IF body.kind = "shipper" THEN "save"
                                                               ELSE "get"]]
    /\ UNCHANGED << cache, hits, misses, stored >>

CacheGet(r) ==
    LET known == cache[creator[r].body.address] IN
    /\ creator[r].at = "get"
    /\ creator' = [creator EXCEPT ![r] =
                     [@ EXCEPT !.place = known,
                               !.at = IF known # NoPlace THEN "recordHit"
                                                         ELSE "recordMiss"]]
    /\ UNCHANGED << cache, hits, misses, stored >>

RecordHit(r) ==
    /\ Step(r, "recordHit", "save")
    /\ hits' = hits + 1
    /\ UNCHANGED << cache, misses, stored >>

\* Mutant: misses are not counted.
RecordMissUncounted(r) ==
    /\ Step(r, "recordMiss", "fetch")
    /\ UNCHANGED << cache, hits, misses, stored >>

RecordMiss(r) ==
    /\ Step(r, "recordMiss", "fetch")
    /\ misses' = misses + 1
    /\ UNCHANGED << cache, hits, stored >>

\* Nominatim knows the address.
Fetch(r) ==
    LET place == PlaceOf[creator[r].body.address] IN
    /\ creator[r].at = "fetch"
    /\ place # NoPlace
    /\ creator' = [creator EXCEPT ![r] = [@ EXCEPT !.place = place, !.at = "set"]]
    /\ UNCHANGED << cache, hits, misses, stored >>

\* Mutant: the error is not looked at, and what came with it is saved.
FetchFailsUnchecked(r) ==
    /\ creator[r].at = "fetch"
    /\ "geocoder" \in Faults \/ PlaceOf[creator[r].body.address] = NoPlace
    /\ creator' = [creator EXCEPT ![r] = [@ EXCEPT !.place = Origin, !.at = "set"]]
    /\ UNCHANGED << cache, hits, misses, stored >>

\* No match, a refusal, or no answer within the client's ten seconds: 422, and
\* the cache is left alone.
FetchFails(r) ==
    /\ creator[r].at = "fetch"
    /\ "geocoder" \in Faults \/ PlaceOf[creator[r].body.address] = NoPlace
    /\ creator' = [creator EXCEPT ![r] = [@ EXCEPT !.at = "replied",
                                                   !.reply = "unprocessable"]]
    /\ UNCHANGED << cache, hits, misses, stored >>

\* The goroutine may be one of several that missed: each sets what it got.
CacheSet(r) ==
    /\ Step(r, "set", "save")
    /\ cache' = [cache EXCEPT ![creator[r].body.address] = creator[r].place]
    /\ UNCHANGED << hits, misses, stored >>

\* newID and Save*, whose error is ignored: the row may be missing and the answer
\* is 201 all the same.
Save(r) ==
    LET b == creator[r].body IN
    /\ creator[r].at = "save"
    /\ \/ stored' = [stored EXCEPT ![r] =
                       [ kind |-> b.kind, address |-> b.address,
                         place |-> creator[r].place, lbs |-> b.lbs ]]
       \/ "store" \in Faults /\ UNCHANGED stored
    /\ creator' = [creator EXCEPT ![r] = [@ EXCEPT !.at = "replied",
                                                   !.reply = "created"]]
    /\ UNCHANGED << cache, hits, misses >>

\* The process dies.  Cache and counters live in memory, rows in the file.
Crash ==
    /\ "crash" \in Faults
    /\ \E r \in Requests : creator[r].at \notin { "new", "gone" }
    /\ creator' = [r \in Requests |-> IF creator[r].at = "new" THEN NewCreator
                                      ELSE [NewCreator EXCEPT !.at = "gone"]]
    /\ cache' = [a \in Addresses |-> NoPlace]
    /\ hits' = 0
    /\ misses' = 0
    /\ UNCHANGED stored

Continues(r) ==
    \/ CacheGet(r) \/ RecordHit(r) \/ RecordMiss(r)
    \/ Fetch(r) \/ FetchFails(r) \/ CacheSet(r) \/ Save(r)

Next ==
    \/ \E r \in Requests, body \in Bodies : Receive(r, body)
    \/ \E r \in Requests : Continues(r)
    \/ Crash

Spec == Init /\ [][Next]_regVars

-----------------------------------------------------------------------------
(* Properties *)

\* Coordinates are what the geocoder found for the very address they stand by,
\* in the store, in the cache and on the way between them: no failed lookup
\* leaves its zeros behind, and no goroutine gets another's answer
\* (geocode.go:43-54).
LocatedRight ==
    /\ \A a \in Addresses : cache[a] \in { NoPlace, PlaceOf[a] }
    /\ \A r \in Requests :
          /\ creator[r].at \in { "recordHit", "set" } =>
                creator[r].place = PlaceOf[creator[r].body.address]
          /\ stored[r].kind \in { "carrier", "shipment" } =>
                /\ stored[r].place = PlaceOf[stored[r].address]
                /\ stored[r].place # NoPlace

Looking(r) == creator[r].at \in { "get", "recordHit", "recordMiss" }
LookedUp   == { r \in Requests :
                  /\ creator[r].at \notin { "new", "gone" }
                  /\ ~Looking(r)
                  /\ creator[r].body.kind # "shipper" }
Cached     == { a \in Addresses : cache[a] # NoPlace }

\* What /health reports is true of this process: every lookup so far was a hit
\* or a miss and none was both, and there were at least as many misses as there
\* are addresses in the cache, more when several missed together
\* (cache.go:49-51, "actually observable whether caching is doing anything").
StatsTrue ==
    /\ hits + misses = Cardinality(LookedUp)
    /\ Cardinality(Cached) <= misses

-----------------------------------------------------------------------------
(* Ranking what has been stored.  Which carriers are booked does not depend  *)
(* on this module, so any of them may be.                                    *)

Stored(kind) == { r \in Requests : stored[r].kind = kind }

Miles(c, s) == Distance[stored[c].place][stored[s].place]

CarrierFits(free, c, s) == c \in free /\ stored[c].lbs >= stored[s].lbs

Results(free, s) ==
    { ScoreCarrier(c, c \in free, stored[c].lbs, stored[s].lbs, Miles(c, s)) :
        c \in Stored("carrier") }

\* A match job looks at the first result only; that is enough to tell whether
\* any carrier will do (worker.go:52-54).
VerdictRight ==
    \A s \in Stored("shipment"), free \in SUBSET Stored("carrier") :
        \A ranked \in Rankings(Results(free, s)) :
            FoundCarrier(ranked) <=>
                \E c \in Stored("carrier") : CarrierFits(free, c, s)

\* "closer carriers score higher", up to half a mile and to 500 miles
\* (matcher.go:35-37): of two that fit, the one ranked lower is not nearer by
\* more than half a mile nor cheaper by more than the price of that.  Nothing is
\* said of one ranked below another from 499.5 miles on, where scores come to zero.
NearestFirst ==
    \A s \in Stored("shipment"), free \in SUBSET Stored("carrier") :
        \A ranked \in Rankings(Results(free, s)) :
            \A i, j \in DOMAIN ranked :
                (i < j /\ ranked[j].feasible) =>
                    LET first == Miles(ranked[i].carrier, s)
                        other == Miles(ranked[j].carrier, s)
                    IN \/ other >= 49950
                       \/ /\ first <= other + 50
                          /\ ranked[i].price <= ranked[j].price + 105

=============================================================================
