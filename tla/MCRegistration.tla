--------------------------- MODULE MCRegistration ---------------------------
(***************************************************************************)
(* Four addresses: one where the shipment is, one that ties with it in     *)
(* score, one beyond the cap, and one that cannot be found.                *)
(***************************************************************************)
EXTENDS Registration

SomeBodies ==
    { [ kind |-> "shipment", address |-> "depot", lbs |-> 100 ],
      [ kind |-> "carrier",  address |-> "depot", lbs |-> 50 ],
      [ kind |-> "carrier",  address |-> "near",  lbs |-> 100 ],
      [ kind |-> "carrier",  address |-> "depot", lbs |-> 200 ],
      [ kind |-> "carrier",  address |-> "far",   lbs |-> 200 ],
      [ kind |-> "carrier",  address |-> "nowhere", lbs |-> 200 ],
      [ kind |-> "shipper",  address |-> NoAddress, lbs |-> 0 ] }

SomePlaces == { "depot", "near", "far", "origin" }

WhereIs == [a \in { "depot", "near", "far", "nowhere" } |->
               IF a = "nowhere" THEN NoPlace ELSE a]

\* On a line, in hundredths of a mile.
Milepost == [ depot |-> 0, near |-> 20, far |-> 50010, origin |-> 60000 ]

Apart == [p \in SomePlaces |-> [q \in SomePlaces |->
             IF Milepost[p] < Milepost[q] THEN Milepost[q] - Milepost[p]
                                          ELSE Milepost[p] - Milepost[q]]]

=============================================================================
