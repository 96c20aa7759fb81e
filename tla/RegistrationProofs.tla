-------------------------- MODULE RegistrationProofs --------------------------
(***************************************************************************)
(* Registration and ranking, for any number of requests, addresses and     *)
(* places, any distances and any answers of the geocoder.                  *)
(***************************************************************************)
EXTENDS Registration, FiniteSetTheorems, TLAPS

-----------------------------------------------------------------------------
(* Ranking *)

LEMMA ScoreTyped ==
    ASSUME NEW d \in Nat, NEW w \in Nat
    PROVE  Score(d) \in Int /\ EstimatePrice(d, w) \in Int
BY DEF Score, EstimatePrice, RoundDiv, Cap

\* More than half a mile shows in the score, short of the cap.
LEMMA ScoreTells ==
    ASSUME NEW d \in Nat, NEW e \in Nat, e < 49950, d > e + 50
    PROVE  Score(d) < Score(e)
BY DEF Score, RoundDiv, Cap

\* Half a mile is worth a dollar and five cents at most.
LEMMA PriceFollows ==
    ASSUME NEW d \in Nat, NEW e \in Nat, NEW w \in Nat, d <= e + 50
    PROVE  EstimatePrice(d, w) <= EstimatePrice(e, w) + 105
BY DEF EstimatePrice, RoundDiv

-----------------------------------------------------------------------------
(* The invariant *)

Located(r) == /\ creator[r].place = PlaceOf[creator[r].body.address]
              /\ creator[r].place # NoPlace

\* LocatedRight and what a goroutine that is about to save carries.
LocatedInv ==
    /\ LocatedRight
    /\ \A r \in Requests :
          \/ creator[r].at \in { "recordHit", "set" }
          \/ (creator[r].at = "save" /\ creator[r].body.kind # "shipper")
          => Located(r)

\* Lookups that are counted as misses and have set nothing yet.
Abroad == { r \in Requests : creator[r].at \in { "fetch", "set" } }

\* StatsTrue, with the misses that may still fill the cache.
Counted ==
    /\ hits + misses = Cardinality(LookedUp)
    /\ Cardinality(Cached) + Cardinality(Abroad) <= misses

RegInv == RegistrationTypeOK /\ LocatedInv /\ Counted

-----------------------------------------------------------------------------
(* Steps of one request *)

\* A request that has read its body.
LEMMA CreatorTyped ==
    ASSUME RegistrationTypeOK, NEW r \in Requests, creator[r].at \notin { "new", "gone" }
    PROVE  /\ creator[r] \in Creator
           /\ creator[r].body \in Bodies
           /\ creator[r].body.kind \in { "carrier", "shipper", "shipment" }
           /\ creator[r].body.address \in Addresses \cup { NoAddress }
           /\ creator[r].body.lbs \in Nat
           /\ creator[r].body.kind = "shipper" <=> creator[r].body.address = NoAddress
           /\ creator[r].at \in { "get", "recordHit", "recordMiss", "fetch", "set" } =>
                /\ creator[r].body.address \in Addresses
                /\ creator[r].body.kind # "shipper"
<1>1. creator[r] \in Creator /\ creator[r].body \in Bodies /\ creator[r].body \in Body
  BY RegistrationConstants DEF RegistrationTypeOK
<1>2. /\ creator[r].body.kind \in { "carrier", "shipper", "shipment" }
      /\ creator[r].body.address \in Addresses \cup { NoAddress }
      /\ creator[r].body.lbs \in Nat
      /\ creator[r].body.kind = "shipper" <=> creator[r].body.address = NoAddress
  BY <1>1, RegistrationConstants DEF Body
<1> QED BY <1>1, <1>2, RegistrationConstants DEF RegistrationTypeOK

\* What a step to the record x does to the types.
LEMMA CreatorMoves ==
    ASSUME RegistrationTypeOK, NEW r \in Requests, NEW x \in Creator,
           creator' = [creator EXCEPT ![r] = x],
           x.at \notin { "new", "gone" } => x.body \in Bodies,
           x.at \in { "get", "recordHit", "recordMiss", "fetch", "set" } =>
               x.body.address \in Addresses,
           cache' \in [Addresses -> Places \cup { NoPlace }],
           hits' \in Nat, misses' \in Nat, stored' \in [Requests -> Row \cup { NoRow }]
    PROVE  /\ RegistrationTypeOK'
           /\ creator'[r] = x
           /\ \A q \in Requests \ { r } : creator'[q] = creator[q]
<1>1. creator'[r] = x /\ \A q \in Requests \ { r } : creator'[q] = creator[q]
  BY DEF RegistrationTypeOK
<1>2. creator' \in [Requests -> Creator]
  BY DEF RegistrationTypeOK
<1> QED BY <1>1, <1>2 DEF RegistrationTypeOK

\* What it does to the sets StatsTrue counts.
LEMMA SetsMove ==
    ASSUME RegistrationTypeOK, NEW r \in Requests,
           \A q \in Requests \ { r } : creator'[q] = creator[q]
    PROVE  /\ LookedUp' \ { r } = LookedUp \ { r }
           /\ Abroad' \ { r } = Abroad \ { r }
           /\ IsFiniteSet(LookedUp) /\ IsFiniteSet(Abroad) /\ IsFiniteSet(Cached)
<1>1. /\ LookedUp' \ { r } = LookedUp \ { r }
      /\ Abroad' \ { r } = Abroad \ { r }
  BY DEF LookedUp, Looking, Abroad
<1>2. LookedUp \subseteq Requests /\ Abroad \subseteq Requests /\ Cached \subseteq Addresses
  BY DEF LookedUp, Abroad, Cached
<1> QED BY <1>1, <1>2, RegistrationConstants, FS_Subset

LEMMA InitInv == Init => RegInv
<1> SUFFICES ASSUME Init PROVE RegInv
  OBVIOUS
<1> USE RegistrationConstants DEF Init
<1>1. NewCreator \in Creator
  BY DEF NewCreator, Creator
<1>2. RegistrationTypeOK
  BY <1>1 DEF RegistrationTypeOK, NewCreator
<1>3. LocatedInv
  BY DEF LocatedInv, LocatedRight, NewCreator, NoRow
<1>4. LookedUp = { } /\ Cached = { } /\ Abroad = { }
  BY DEF LookedUp, Cached, Abroad, NewCreator
<1>5. Counted
  BY <1>4, FS_EmptySet DEF Counted
<1> QED BY <1>2, <1>3, <1>5 DEF RegInv

\* What a step of r has to see to.
LEMMA StepInv ==
    ASSUME RegInv, NEW r \in Requests, NEW x \in Creator,
           creator' = [creator EXCEPT ![r] = x],
           x.at \notin { "new", "gone" } => x.body \in Bodies,
           x.at \in { "get", "recordHit", "recordMiss", "fetch", "set" } =>
               x.body.address \in Addresses,
           cache' \in [Addresses -> Places \cup { NoPlace }],
           hits' \in Nat, misses' \in Nat, stored' \in [Requests -> Row \cup { NoRow }],
           \A a \in Addresses : cache'[a] \in { NoPlace, PlaceOf[a] },
           x.at \in { "recordHit", "set" } \/ (x.at = "save" /\ x.body.kind # "shipper") =>
               x.place = PlaceOf[x.body.address] /\ x.place # NoPlace,
           \A q \in Requests :
               stored'[q] # stored[q] /\ stored'[q].kind \in { "carrier", "shipment" } =>
                   /\ stored'[q].place = PlaceOf[stored'[q].address]
                   /\ stored'[q].place # NoPlace,
           Counted'
    PROVE  RegInv'
<1> USE DEF RegInv
<1>1. /\ RegistrationTypeOK'
      /\ creator'[r] = x
      /\ \A q \in Requests \ { r } : creator'[q] = creator[q]
  BY CreatorMoves
<1>2. \A q \in Requests :
         stored'[q].kind \in { "carrier", "shipment" } =>
             /\ stored'[q].place = PlaceOf[stored'[q].address]
             /\ stored'[q].place # NoPlace
  BY DEF LocatedInv, LocatedRight
<1>3. \A q \in Requests :
         \/ creator'[q].at \in { "recordHit", "set" }
         \/ (creator'[q].at = "save" /\ creator'[q].body.kind # "shipper")
         =>
         /\ creator'[q].place = PlaceOf[creator'[q].body.address]
         /\ creator'[q].place # NoPlace
  BY <1>1 DEF LocatedInv, Located
<1>4. LocatedInv'
  BY <1>2, <1>3 DEF LocatedInv, LocatedRight, Located
<1> QED BY <1>1, <1>4

LEMMA ReceiveInv ==
    ASSUME RegInv, NEW r \in Requests, NEW body \in Bodies, Receive(r, body)
    PROVE  RegInv'
<1> USE DEF RegInv, Receive
<1> DEFINE x == [creator[r] EXCEPT !.body = body,
                                   !.at = IF body.kind = "shipper" THEN "save" ELSE "get"]
<1>1. creator[r] \in Creator /\ body \in Body
  BY RegistrationConstants DEF RegistrationTypeOK
<1>2. /\ x \in Creator /\ x.body = body
      /\ x.at = IF body.kind = "shipper" THEN "save" ELSE "get"
  BY <1>1 DEF Creator
<1>3. body.kind # "shipper" => body.address \in Addresses
  BY <1>1 DEF Body
<1>4. creator' = [creator EXCEPT ![r] = x]
  OBVIOUS
<1> HIDE DEF x
<1>5. LookedUp' = LookedUp /\ Abroad' = Abroad /\ Cached' = Cached
  <2>1. /\ creator'[r] = x
        /\ \A q \in Requests \ { r } : creator'[q] = creator[q]
    BY <1>4 DEF RegistrationTypeOK
  <2>2. /\ LookedUp' \ { r } = LookedUp \ { r } /\ Abroad' \ { r } = Abroad \ { r }
    BY <2>1, SetsMove
  <2>3. r \notin LookedUp /\ r \notin LookedUp' /\ r \notin Abroad /\ r \notin Abroad'
    BY <1>2, <2>1 DEF LookedUp, Looking, Abroad
  <2> QED BY <2>2, <2>3 DEF Cached
<1>6. Counted'
  BY <1>5 DEF Counted
<1>7. \A a \in Addresses : cache'[a] \in { NoPlace, PlaceOf[a] }
  BY DEF LocatedInv, LocatedRight
<1> QED BY <1>2, <1>3, <1>4, <1>6, <1>7, StepInv DEF RegistrationTypeOK

LEMMA CacheGetInv ==
    ASSUME RegInv, NEW r \in Requests, CacheGet(r)
    PROVE  RegInv'
<1> USE DEF RegInv, CacheGet
<1> DEFINE known == cache[creator[r].body.address]
           x == [creator[r] EXCEPT !.place = known,
                                   !.at = IF known # NoPlace THEN "recordHit"
                                                             ELSE "recordMiss"]
<1>1. /\ creator[r] \in Creator /\ creator[r].body \in Bodies
      /\ creator[r].body.address \in Addresses
  BY CreatorTyped
<1>2. /\ x \in Creator /\ x.body = creator[r].body /\ x.place = known
      /\ x.at = IF known # NoPlace THEN "recordHit" ELSE "recordMiss"
  BY <1>1 DEF Creator, RegistrationTypeOK
<1>3. \A a \in Addresses : cache[a] \in { NoPlace, PlaceOf[a] }
  BY DEF LocatedInv, LocatedRight
<1>4. creator' = [creator EXCEPT ![r] = x]
  OBVIOUS
<1>5. x.at = "recordHit" => x.place = PlaceOf[x.body.address] /\ x.place # NoPlace
  BY <1>1, <1>2, <1>3
<1>6. x.at \in { "recordHit", "recordMiss" }
  BY <1>2
<1> HIDE DEF x
<1>7. LookedUp' = LookedUp /\ Abroad' = Abroad /\ Cached' = Cached
  <2>1. /\ creator'[r] = x
        /\ \A q \in Requests \ { r } : creator'[q] = creator[q]
    BY <1>4 DEF RegistrationTypeOK
  <2>2. /\ LookedUp' \ { r } = LookedUp \ { r } /\ Abroad' \ { r } = Abroad \ { r }
    BY <2>1, SetsMove
  <2>3. r \notin LookedUp /\ r \notin LookedUp' /\ r \notin Abroad /\ r \notin Abroad'
    BY <1>6, <2>1 DEF LookedUp, Looking, Abroad
  <2> QED BY <2>2, <2>3 DEF Cached
<1>8. Counted'
  BY <1>7 DEF Counted
<1> HIDE DEF known
<1> QED BY <1>1, <1>2, <1>3, <1>4, <1>5, <1>6, <1>8, StepInv DEF RegistrationTypeOK

LEMMA RecordHitInv ==
    ASSUME RegInv, NEW r \in Requests, RecordHit(r)
    PROVE  RegInv'
<1> USE DEF RegInv, RecordHit, Step
<1> DEFINE x == [creator[r] EXCEPT !.at = "save"]
<1>1. /\ creator[r] \in Creator /\ creator[r].body \in Bodies
      /\ creator[r].body.kind # "shipper"
  BY CreatorTyped
<1>2. x \in Creator /\ x.body = creator[r].body /\ x.at = "save" /\ x.place = creator[r].place
  BY <1>1 DEF Creator
<1>3. /\ \A a \in Addresses : cache[a] \in { NoPlace, PlaceOf[a] }
      /\ Located(r)
  BY DEF LocatedInv, LocatedRight
<1>4. creator' = [creator EXCEPT ![r] = x]
  OBVIOUS
<1> HIDE DEF x
<1>5. /\ LookedUp' = LookedUp \cup { r } /\ r \notin LookedUp /\ IsFiniteSet(LookedUp)
      /\ Abroad' = Abroad /\ Cached' = Cached
  <2>1. /\ creator'[r] = x
        /\ \A q \in Requests \ { r } : creator'[q] = creator[q]
    BY <1>4 DEF RegistrationTypeOK
  <2>2. /\ LookedUp' \ { r } = LookedUp \ { r } /\ Abroad' \ { r } = Abroad \ { r }
        /\ IsFiniteSet(LookedUp)
    BY <2>1, SetsMove
  <2>3. r \notin LookedUp /\ r \in LookedUp' /\ r \notin Abroad /\ r \notin Abroad'
    BY <1>1, <1>2, <2>1 DEF LookedUp, Looking, Abroad
  <2> QED BY <2>2, <2>3 DEF Cached
<1>6. Counted'
  <2>1. Cardinality(LookedUp') = Cardinality(LookedUp) + 1 /\ Cardinality(LookedUp) \in Nat
    BY <1>5, FS_AddElement, FS_CardinalityType
  <2> QED BY <1>5, <2>1 DEF Counted, RegistrationTypeOK
<1>7. hits' \in Nat /\ misses' \in Nat
  BY DEF RegistrationTypeOK
<1>8. x.place = PlaceOf[x.body.address] /\ x.place # NoPlace
  BY <1>2, <1>3 DEF Located
<1>9. /\ cache' \in [Addresses -> Places \cup { NoPlace }]
      /\ stored' \in [Requests -> Row \cup { NoRow }] /\ stored' = stored
      /\ \A a \in Addresses : cache'[a] \in { NoPlace, PlaceOf[a] }
  BY <1>3 DEF RegistrationTypeOK
<1> HIDE DEF RecordHit
<1> QED BY <1>1, <1>2, <1>4, <1>6, <1>7, <1>8, <1>9, StepInv

LEMMA RecordMissInv ==
    ASSUME RegInv, NEW r \in Requests, RecordMiss(r)
    PROVE  RegInv'
<1> USE DEF RegInv, RecordMiss, Step
<1> DEFINE x == [creator[r] EXCEPT !.at = "fetch"]
<1>1. /\ creator[r] \in Creator /\ creator[r].body \in Bodies
      /\ creator[r].body.address \in Addresses /\ creator[r].body.kind # "shipper"
  BY CreatorTyped
<1>2. x \in Creator /\ x.body = creator[r].body /\ x.at = "fetch"
  BY <1>1 DEF Creator
<1>3. \A a \in Addresses : cache[a] \in { NoPlace, PlaceOf[a] }
  BY DEF LocatedInv, LocatedRight
<1>4. creator' = [creator EXCEPT ![r] = x]
  OBVIOUS
<1> HIDE DEF x
<1>5. /\ LookedUp' = LookedUp \cup { r } /\ r \notin LookedUp /\ IsFiniteSet(LookedUp)
      /\ Abroad' = Abroad \cup { r } /\ r \notin Abroad /\ IsFiniteSet(Abroad)
      /\ Cached' = Cached /\ IsFiniteSet(Cached)
  <2>1. /\ creator'[r] = x
        /\ \A q \in Requests \ { r } : creator'[q] = creator[q]
    BY <1>4 DEF RegistrationTypeOK
  <2>2. /\ LookedUp' \ { r } = LookedUp \ { r } /\ Abroad' \ { r } = Abroad \ { r }
        /\ IsFiniteSet(LookedUp) /\ IsFiniteSet(Abroad) /\ IsFiniteSet(Cached)
    BY <2>1, SetsMove
  <2>3. r \notin LookedUp /\ r \in LookedUp' /\ r \notin Abroad /\ r \in Abroad'
    BY <1>1, <1>2, <2>1 DEF LookedUp, Looking, Abroad
  <2> QED BY <2>2, <2>3 DEF Cached
<1>6. Counted'
  <2>1. /\ Cardinality(LookedUp') = Cardinality(LookedUp) + 1
        /\ Cardinality(Abroad') = Cardinality(Abroad) + 1
        /\ Cardinality(LookedUp) \in Nat /\ Cardinality(Abroad) \in Nat
        /\ Cardinality(Cached) \in Nat
    BY <1>5, FS_AddElement, FS_CardinalityType
  <2> QED BY <1>5, <2>1 DEF Counted, RegistrationTypeOK
<1>7. misses' \in Nat
  BY DEF RegistrationTypeOK
<1> QED BY <1>1, <1>2, <1>3, <1>4, <1>6, <1>7, StepInv DEF RegistrationTypeOK

\* A lookup that goes on abroad counts for nothing yet.
LEMMA FetchInv ==
    ASSUME RegInv, NEW r \in Requests, Fetch(r)
    PROVE  RegInv'
<1> USE DEF RegInv, Fetch
<1> DEFINE place == PlaceOf[creator[r].body.address]
           x == [creator[r] EXCEPT !.place = place, !.at = "set"]
<1>1. /\ creator[r] \in Creator /\ creator[r].body \in Bodies
      /\ creator[r].body.address \in Addresses
  BY CreatorTyped
<1>2. /\ x \in Creator /\ x.body = creator[r].body /\ x.at = "set"
      /\ x.place = PlaceOf[x.body.address] /\ x.place # NoPlace
  BY <1>1, RegistrationConstants DEF Creator
<1>3. \A a \in Addresses : cache[a] \in { NoPlace, PlaceOf[a] }
  BY DEF LocatedInv, LocatedRight
<1>4. creator' = [creator EXCEPT ![r] = x]
  OBVIOUS
<1> HIDE DEF x
<1>5. LookedUp' = LookedUp /\ Abroad' = Abroad /\ Cached' = Cached
  <2>1. /\ creator'[r] = x
        /\ \A q \in Requests \ { r } : creator'[q] = creator[q]
    BY <1>4 DEF RegistrationTypeOK
  <2>2. /\ LookedUp' \ { r } = LookedUp \ { r } /\ Abroad' \ { r } = Abroad \ { r }
    BY <2>1, SetsMove
  <2>3. (r \in LookedUp <=> r \in LookedUp') /\ r \in Abroad /\ r \in Abroad'
    BY <1>2, <2>1 DEF LookedUp, Looking, Abroad
  <2> QED BY <2>2, <2>3 DEF Cached
<1>6. Counted'
  BY <1>5 DEF Counted
<1>7. /\ cache' \in [Addresses -> Places \cup { NoPlace }]
      /\ hits' \in Nat /\ misses' \in Nat
      /\ stored' \in [Requests -> Row \cup { NoRow }] /\ stored' = stored
      /\ \A a \in Addresses : cache'[a] \in { NoPlace, PlaceOf[a] }
  BY <1>3 DEF RegistrationTypeOK
<1> HIDE DEF Fetch
<1> QED BY <1>1, <1>2, <1>4, <1>6, <1>7, StepInv

LEMMA FetchFailsInv ==
    ASSUME RegInv, NEW r \in Requests, FetchFails(r)
    PROVE  RegInv'
<1> USE DEF RegInv, FetchFails
<1> DEFINE x == [creator[r] EXCEPT !.at = "replied", !.reply = "unprocessable"]
<1>1. creator[r] \in Creator /\ creator[r].body \in Bodies
  BY CreatorTyped
<1>2. x \in Creator /\ x.body = creator[r].body /\ x.at = "replied"
  BY <1>1 DEF Creator
<1>3. \A a \in Addresses : cache[a] \in { NoPlace, PlaceOf[a] }
  BY DEF LocatedInv, LocatedRight
<1>4. creator' = [creator EXCEPT ![r] = x]
  OBVIOUS
<1> HIDE DEF x
<1>5. /\ LookedUp' = LookedUp /\ Cached' = Cached /\ IsFiniteSet(Cached)
      /\ Abroad' = Abroad \ { r } /\ IsFiniteSet(Abroad)
  <2>1. /\ creator'[r] = x
        /\ \A q \in Requests \ { r } : creator'[q] = creator[q]
    BY <1>4 DEF RegistrationTypeOK
  <2>2. /\ LookedUp' \ { r } = LookedUp \ { r } /\ Abroad' \ { r } = Abroad \ { r }
        /\ IsFiniteSet(Abroad) /\ IsFiniteSet(Cached)
    BY <2>1, SetsMove
  <2>3. (r \in LookedUp <=> r \in LookedUp') /\ r \notin Abroad'
    BY <1>2, <2>1 DEF LookedUp, Looking, Abroad
  <2> QED BY <2>2, <2>3 DEF Cached
<1>6. Counted'
  <2>1. /\ Cardinality(Abroad') <= Cardinality(Abroad)
        /\ Cardinality(Abroad) \in Nat /\ Cardinality(Abroad') \in Nat
        /\ Cardinality(Cached) \in Nat
    <3>1. Cardinality(Cached) \in Nat /\ Cardinality(Abroad) \in Nat
      BY <1>5, FS_CardinalityType
    <3>2. /\ IsFiniteSet(Abroad \ { r })
          /\ Cardinality(Abroad \ { r }) =
                 IF r \in Abroad THEN Cardinality(Abroad) - 1 ELSE Cardinality(Abroad)
      BY <1>5, FS_RemoveElement
    <3>3. Cardinality(Abroad \ { r }) \in Nat
      BY <3>2, FS_CardinalityType
    <3> QED BY <1>5, <3>1, <3>2, <3>3
  <2> QED BY <1>5, <2>1 DEF Counted, RegistrationTypeOK
<1>7. /\ cache' \in [Addresses -> Places \cup { NoPlace }]
      /\ hits' \in Nat /\ misses' \in Nat
      /\ stored' \in [Requests -> Row \cup { NoRow }] /\ stored' = stored
      /\ \A a \in Addresses : cache'[a] \in { NoPlace, PlaceOf[a] }
  BY <1>3 DEF RegistrationTypeOK
<1> HIDE DEF FetchFails
<1> QED BY <1>1, <1>2, <1>4, <1>6, <1>7, StepInv

\* A set takes one lookup from those abroad and adds at most one address.
LEMMA CacheSetInv ==
    ASSUME RegInv, NEW r \in Requests, CacheSet(r)
    PROVE  RegInv'
<1> USE DEF RegInv, CacheSet, Step
<1> DEFINE x == [creator[r] EXCEPT !.at = "save"]
           a == creator[r].body.address
<1>1. /\ creator[r] \in Creator /\ creator[r].body \in Bodies
      /\ a \in Addresses /\ creator[r].body.kind # "shipper"
  BY CreatorTyped
<1>2. x \in Creator /\ x.body = creator[r].body /\ x.at = "save" /\ x.place = creator[r].place
  BY <1>1 DEF Creator
<1>3. creator[r].place = PlaceOf[a] /\ creator[r].place # NoPlace
      /\ creator[r].place \in Places
  BY <1>1 DEF LocatedInv, LocatedRight, Located, Creator
<1>4. creator' = [creator EXCEPT ![r] = x]
  OBVIOUS
<1>5. /\ cache' \in [Addresses -> Places \cup { NoPlace }]
      /\ cache'[a] = creator[r].place
      /\ \A b \in Addresses \ { a } : cache'[b] = cache[b]
  BY <1>1, <1>3 DEF RegistrationTypeOK
<1>6. \A b \in Addresses : cache'[b] \in { NoPlace, PlaceOf[b] }
  BY <1>3, <1>5 DEF LocatedInv, LocatedRight
<1> HIDE DEF x
<1>7. /\ LookedUp' = LookedUp
      /\ Abroad' = Abroad \ { r } /\ r \in Abroad /\ IsFiniteSet(Abroad)
      /\ Cached' = Cached \cup { a } /\ IsFiniteSet(Cached)
  <2>1. /\ creator'[r] = x
        /\ \A q \in Requests \ { r } : creator'[q] = creator[q]
    BY <1>4 DEF RegistrationTypeOK
  <2>2. /\ LookedUp' \ { r } = LookedUp \ { r } /\ Abroad' \ { r } = Abroad \ { r }
        /\ IsFiniteSet(Abroad) /\ IsFiniteSet(Cached)
    BY <2>1, SetsMove
  <2>3. (r \in LookedUp <=> r \in LookedUp') /\ r \in Abroad /\ r \notin Abroad'
    BY <1>2, <2>1 DEF LookedUp, Looking, Abroad
  <2>4. Cached' = Cached \cup { a }
    BY <1>1, <1>3, <1>5 DEF Cached
  <2> QED BY <2>2, <2>3, <2>4
<1>8. Counted'
  <2>1. /\ Cardinality(Abroad') = Cardinality(Abroad) - 1
        /\ Cardinality(Abroad) \in Nat
    BY <1>7, FS_RemoveElement, FS_CardinalityType
  <2>2. /\ Cardinality(Cached') <= Cardinality(Cached) + 1
        /\ Cardinality(Cached) \in Nat /\ Cardinality(Cached') \in Nat
    <3>1. Cardinality(Cached) \in Nat
      BY <1>7, FS_CardinalityType
    <3>2. Cardinality(Cached \cup { a }) =
              IF a \in Cached THEN Cardinality(Cached) ELSE Cardinality(Cached) + 1
      BY <1>7, FS_AddElement
    <3> QED BY <1>7, <3>1, <3>2
  <2> QED BY <1>7, <2>1, <2>2 DEF Counted, RegistrationTypeOK
<1>9. /\ hits' \in Nat /\ misses' \in Nat
      /\ stored' \in [Requests -> Row \cup { NoRow }] /\ stored' = stored
  BY DEF RegistrationTypeOK
<1>10. x.place = PlaceOf[x.body.address] /\ x.place # NoPlace
  BY <1>2, <1>3
<1> HIDE DEF CacheSet, a
<1> QED BY <1>1, <1>2, <1>4, <1>5, <1>6, <1>8, <1>9, <1>10, StepInv

LEMMA SaveInv ==
    ASSUME RegInv, NEW r \in Requests, Save(r)
    PROVE  RegInv'
<1> USE DEF RegInv, Save
<1> DEFINE x == [creator[r] EXCEPT !.at = "replied", !.reply = "created"]
           row == [ kind |-> creator[r].body.kind, address |-> creator[r].body.address,
                    place |-> creator[r].place, lbs |-> creator[r].body.lbs ]
<1>1. /\ creator[r] \in Creator /\ creator[r].body \in Bodies
      /\ creator[r].body.kind \in { "carrier", "shipper", "shipment" }
      /\ creator[r].body.address \in Addresses \cup { NoAddress }
      /\ creator[r].body.lbs \in Nat
  BY CreatorTyped
<1>2. x \in Creator /\ x.body = creator[r].body /\ x.at = "replied"
  BY <1>1 DEF Creator
<1>3. /\ \A a \in Addresses : cache[a] \in { NoPlace, PlaceOf[a] }
      /\ creator[r].body.kind # "shipper" => Located(r)
  BY DEF LocatedInv, LocatedRight
<1>4. creator' = [creator EXCEPT ![r] = x]
  OBVIOUS
<1>5. row \in Row
  BY <1>1 DEF Row, Creator
<1>6. row.kind \in { "carrier", "shipment" } =>
          row.place = PlaceOf[row.address] /\ row.place # NoPlace
  BY <1>3 DEF Located
<1>7. stored' = stored \/ stored' = [stored EXCEPT ![r] = row]
  OBVIOUS
<1> HIDE DEF x, row
<1>8. LookedUp' = LookedUp /\ Abroad' = Abroad /\ Cached' = Cached
  <2>1. /\ creator'[r] = x
        /\ \A q \in Requests \ { r } : creator'[q] = creator[q]
    BY <1>4 DEF RegistrationTypeOK
  <2>2. /\ LookedUp' \ { r } = LookedUp \ { r } /\ Abroad' \ { r } = Abroad \ { r }
    BY <2>1, SetsMove
  <2>3. (r \in LookedUp <=> r \in LookedUp') /\ r \notin Abroad /\ r \notin Abroad'
    BY <1>2, <2>1 DEF LookedUp, Looking, Abroad
  <2> QED BY <2>2, <2>3 DEF Cached
<1>9. Counted'
  BY <1>8 DEF Counted
<1>10. /\ cache' \in [Addresses -> Places \cup { NoPlace }]
       /\ hits' \in Nat /\ misses' \in Nat
       /\ \A a \in Addresses : cache'[a] \in { NoPlace, PlaceOf[a] }
  BY <1>3 DEF RegistrationTypeOK
<1>11. stored' \in [Requests -> Row \cup { NoRow }]
  <2>1. CASE stored' = stored
    BY <2>1 DEF RegistrationTypeOK
  <2>2. CASE stored' = [stored EXCEPT ![r] = row]
    BY <1>5, <2>2 DEF RegistrationTypeOK
  <2> QED BY <1>7, <2>1, <2>2
<1>12. \A q \in Requests :
          stored'[q] # stored[q] /\ stored'[q].kind \in { "carrier", "shipment" } =>
              /\ stored'[q].place = PlaceOf[stored'[q].address]
              /\ stored'[q].place # NoPlace
  <2>1. CASE stored' = stored
    BY <2>1
  <2>2. CASE stored' = [stored EXCEPT ![r] = row]
    BY <1>6, <2>2 DEF RegistrationTypeOK
  <2> QED BY <1>7, <2>1, <2>2
<1> HIDE DEF Save
<1> QED BY <1>1, <1>2, <1>4, <1>9, <1>10, <1>11, <1>12, StepInv

LEMMA CrashInv ==
    ASSUME RegInv, Crash
    PROVE  RegInv'
<1> USE DEF RegInv, Crash
<1>1. /\ NewCreator \in Creator
      /\ [NewCreator EXCEPT !.at = "gone"] \in Creator
  BY DEF NewCreator, Creator
<1>2. /\ creator' \in [Requests -> Creator]
      /\ \A r \in Requests : creator'[r].at \in { "new", "gone" }
  BY <1>1 DEF NewCreator
<1>3. RegistrationTypeOK'
  BY <1>2 DEF RegistrationTypeOK
<1>4. LocatedInv'
  BY <1>2 DEF LocatedInv, LocatedRight
<1>5. LookedUp' = { } /\ Cached' = { } /\ Abroad' = { }
  BY <1>2 DEF LookedUp, Cached, Abroad
<1>6. Counted'
  BY <1>5, FS_EmptySet DEF Counted
<1> QED BY <1>3, <1>4, <1>6

LEMMA NextInv == RegInv /\ [Next]_regVars => RegInv'
<1> SUFFICES ASSUME RegInv, [Next]_regVars PROVE RegInv'
  OBVIOUS
<1>1. CASE UNCHANGED regVars
  BY <1>1 DEF regVars, RegInv, RegistrationTypeOK, LocatedInv, LocatedRight, Located,
              Counted, LookedUp, Looking, Cached, Abroad
<1> QED
  BY <1>1, ReceiveInv, CacheGetInv, RecordHitInv, RecordMissInv, FetchInv,
     FetchFailsInv, CacheSetInv, SaveInv, CrashInv
  DEF Next, Continues

LEMMA RegInvariant == Spec => []RegInv
BY InitInv, NextInv, PTL DEF Spec

-----------------------------------------------------------------------------
(* What is ranked *)

\* The results of a job: as many as the ranking has places, each of a stored
\* carrier whose distance and price are numbers.
LEMMA ResultsOf ==
    ASSUME RegInv, NEW s \in Stored("shipment"), NEW free \in SUBSET Stored("carrier")
    PROVE  /\ Cardinality(Results(free, s)) \in Nat
           /\ \A x \in Results(free, s) :
                /\ x.carrier \in Stored("carrier")
                /\ x = ScoreCarrier(x.carrier, x.carrier \in free, stored[x.carrier].lbs,
                                    stored[s].lbs, Miles(x.carrier, s))
                /\ x.feasible \in BOOLEAN
                /\ x.feasible <=> CarrierFits(free, x.carrier, s)
           /\ \A c \in Stored("carrier") : CarrierFits(free, c, s) =>
                \E x \in Results(free, s) : x.feasible
           /\ \A c \in Stored("carrier") : Miles(c, s) \in Nat /\ stored[c].lbs \in Nat
           /\ stored[s].lbs \in Nat
<1> DEFINE Of(c) == ScoreCarrier(c, c \in free, stored[c].lbs, stored[s].lbs, Miles(c, s))
<1>1. \A c : /\ Of(c).carrier = c
             /\ Of(c).feasible \in BOOLEAN
             /\ Of(c).feasible <=> CarrierFits(free, c, s)
  BY DEF ScoreCarrier, CarrierFits
<1>2. Results(free, s) = { Of(c) : c \in Stored("carrier") }
  BY DEF Results
<1>3. Cardinality(Results(free, s)) \in Nat
  <2> DEFINE f == [c \in Stored("carrier") |-> Of(c)]
  <2>1. IsFiniteSet(Stored("carrier"))
    <3>1. Stored("carrier") \in SUBSET Requests
      BY DEF Stored
    <3> QED BY <3>1, RegistrationConstants, FS_Subset
  <2>2. f \in Surjection(Stored("carrier"), Results(free, s))
    <3>1. f \in [Stored("carrier") -> Results(free, s)]
      BY <1>2
    <3>2. \A x \in Results(free, s) : \E c \in Stored("carrier") : f[c] = x
      BY <1>2
    <3> HIDE DEF f
    <3> QED BY <3>1, <3>2 DEF Surjection
  <2> HIDE DEF f
  <2>3. IsFiniteSet(Results(free, s))
    BY <2>1, <2>2, FS_Surjection
  <2> QED BY <2>3, FS_CardinalityType
<1> HIDE DEF Of
<1>4. ASSUME NEW x \in Results(free, s)
      PROVE  /\ x.carrier \in Stored("carrier")
             /\ x = Of(x.carrier)
             /\ x.feasible \in BOOLEAN
             /\ x.feasible <=> CarrierFits(free, x.carrier, s)
  BY <1>1, <1>2
<1>5. ASSUME NEW c \in Stored("carrier"), CarrierFits(free, c, s)
      PROVE  \E x \in Results(free, s) : x.feasible
  BY <1>1, <1>2, <1>5
<1>6. \A q \in Requests : stored[q].kind \in { "carrier", "shipment" } =>
          /\ stored[q] \in Row
          /\ stored[q].place \in Places
          /\ stored[q].lbs \in Nat
  BY DEF RegInv, RegistrationTypeOK, LocatedInv, LocatedRight, NoRow, Row
<1>7. /\ \A c \in Stored("carrier") : Miles(c, s) \in Nat /\ stored[c].lbs \in Nat
      /\ stored[s].lbs \in Nat
  BY <1>6, RegistrationConstants DEF Stored, Miles
<1> QED BY <1>3, <1>4, <1>5, <1>7 DEF Of

LEMMA VerdictOf == RegInv => VerdictRight
<1> SUFFICES ASSUME RegInv, NEW s \in Stored("shipment"),
                    NEW free \in SUBSET Stored("carrier"),
                    NEW ranked \in Rankings(Results(free, s))
             PROVE  FoundCarrier(ranked) <=>
                        \E c \in Stored("carrier") : CarrierFits(free, c, s)
  BY DEF VerdictRight
<1> DEFINE n == Cardinality(Results(free, s))
<1>1. /\ n \in Nat /\ ranked \in [1 .. n -> Results(free, s)] /\ DOMAIN ranked = 1 .. n
      /\ \A x \in Results(free, s) : \E i \in 1 .. n : ranked[i] = x
      /\ \A i, j \in 1 .. n : i < j => ~Before(ranked[j], ranked[i])
  BY ResultsOf DEF Rankings
<1> HIDE DEF n
<1>2. ASSUME FoundCarrier(ranked)
      PROVE  \E c \in Stored("carrier") : CarrierFits(free, c, s)
  <2>1. 1 \in 1 .. n /\ ranked[1] \in Results(free, s) /\ ranked[1].feasible
    BY <1>1, <1>2 DEF FoundCarrier
  <2> QED BY <2>1, ResultsOf
<1>3. ASSUME NEW c \in Stored("carrier"), CarrierFits(free, c, s)
      PROVE  FoundCarrier(ranked)
  <2>1. PICK x \in Results(free, s) : x.feasible
    BY <1>3, ResultsOf
  <2>2. PICK i \in 1 .. n : ranked[i] = x
    BY <1>1
  <2>3. 1 \in 1 .. n
    BY <1>1
  <2>4. CASE i = 1
    BY <1>1, <2>1, <2>2, <2>3, <2>4 DEF FoundCarrier
  <2>5. CASE i # 1
    <3>1. ~Before(x, ranked[1])
      BY <1>1, <2>2, <2>3, <2>5
    <3>2. ranked[1].feasible
      <4>1. ranked[1].feasible \in BOOLEAN /\ x.feasible \in BOOLEAN
        <5>1. ranked[1] \in Results(free, s)
          BY <1>1, <2>3
        <5> QED BY <5>1, ResultsOf
      <4> QED BY <2>1, <3>1, <4>1 DEF Before
    <3> QED BY <1>1, <2>3, <3>2 DEF FoundCarrier
  <2> QED BY <2>4, <2>5
<1> QED BY <1>2, <1>3

LEMMA NearestOf == RegInv => NearestFirst
<1> SUFFICES ASSUME RegInv, NEW s \in Stored("shipment"),
                    NEW free \in SUBSET Stored("carrier"),
                    NEW ranked \in Rankings(Results(free, s)),
                    NEW i \in DOMAIN ranked, NEW j \in DOMAIN ranked,
                    i < j, ranked[j].feasible
             PROVE  LET first == Miles(ranked[i].carrier, s)
                        other == Miles(ranked[j].carrier, s)
                    IN \/ other >= 49950
                       \/ /\ first <= other + 50
                          /\ ranked[i].price <= ranked[j].price + 105
  BY DEF NearestFirst
<1> DEFINE first == Miles(ranked[i].carrier, s)
           other == Miles(ranked[j].carrier, s)
           w == stored[s].lbs
<1>1. /\ ranked[i] \in Results(free, s) /\ ranked[j] \in Results(free, s)
      /\ ~Before(ranked[j], ranked[i])
  BY DEF Rankings
<1>2. first \in Nat /\ other \in Nat /\ w \in Nat
  BY <1>1, ResultsOf
<1>3. /\ ranked[i].feasible \in BOOLEAN /\ ranked[j].feasible \in BOOLEAN
  BY <1>1, ResultsOf
<1>4. ranked[i].feasible /\ ~(ranked[j].score > ranked[i].score)
  BY <1>1, <1>3 DEF Before
<1>5. /\ ranked[i].score = Score(first) /\ ranked[i].price = EstimatePrice(first, w)
      /\ ranked[j].score = Score(other) /\ ranked[j].price = EstimatePrice(other, w)
  BY <1>1, <1>4, ResultsOf DEF ScoreCarrier, CarrierFits
<1> HIDE DEF first, other, w
<1>6. CASE other < 49950
  <2>1. ~(first > other + 50)
    BY <1>2, <1>4, <1>5, <1>6, ScoreTells, ScoreTyped
  <2>2. first <= other + 50
    BY <1>2, <2>1
  <2> QED BY <1>2, <1>5, <2>2, PriceFollows DEF first, other
<1>7. CASE ~(other < 49950)
  BY <1>2, <1>7 DEF other
<1> QED BY <1>6, <1>7

-----------------------------------------------------------------------------
(* The theorems *)

\* Every state of registration is of its type (handlers.go:33-129).
THEOREM RegistrationTypeCorrect == Spec => []RegistrationTypeOK
<1>1. RegInv => RegistrationTypeOK
  BY DEF RegInv
<1> QED BY <1>1, RegInvariant, PTL

\* No failed or crossed lookup ever stands beside an address, however many
\* requests ask for it at once (geocode.go:41-55, handlers.go:47-52).
THEOREM LocatedCorrect == Spec => []LocatedRight
<1>1. RegInv => LocatedRight
  BY DEF RegInv, LocatedInv
<1> QED BY <1>1, RegInvariant, PTL

\* The counters never lose a lookup nor count one twice, and tell apart at least
\* as many misses as there are addresses in the cache (cache.go:49-68).
THEOREM StatsCorrect == Spec => []StatsTrue
<1>1. ASSUME RegInv PROVE StatsTrue
  <2>1. Cardinality(Cached) \in Nat /\ Cardinality(Abroad) \in Nat /\ misses \in Nat
    <3>1. Cached \in SUBSET Addresses /\ Abroad \in SUBSET Requests
      BY DEF Cached, Abroad
    <3>2. IsFiniteSet(Cached) /\ IsFiniteSet(Abroad)
      BY <3>1, RegistrationConstants, FS_Subset
    <3> QED BY <1>1, <3>2, FS_CardinalityType DEF RegInv, RegistrationTypeOK
  <2> QED BY <1>1, <2>1 DEF RegInv, Counted, StatsTrue
<1> QED BY <1>1, RegInvariant, PTL

\* One look at the first result tells whether any carrier will do, whatever the
\* sort made of equal scores (worker.go:52-54, matcher.go:71-85).
THEOREM VerdictCorrect == Spec => []VerdictRight
BY VerdictOf, RegInvariant, PTL

\* For any distances short of the cap the order is nearest and cheapest first, to
\* within half a mile (matcher.go:43-85, pricing.go:20-23).
THEOREM NearestCorrect == Spec => []NearestFirst
BY NearestOf, RegInvariant, PTL

=============================================================================
