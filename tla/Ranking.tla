------------------------------- MODULE Ranking -------------------------------
(***************************************************************************)
(* matcher.go and pricing.go: how a carrier is scored and priced for a     *)
(* shipment, and in what order RankCarriers returns the fleet.             *)
(*                                                                         *)
(* The haversine distance is an input, in hundredths of a mile.  Scores    *)
(* are in tenths of a point, prices in cents and weights in pounds, so     *)
(* that rounding is what the code asks of its floats.                      *)
(***************************************************************************)
EXTENDS Integers, FiniteSets

\* math.Round(n / d), for n >= 0.
RoundDiv(n, d) == (2 * n + d) \div (2 * d)

\* The influence of distance ends at 500 miles.
Cap(distance) == IF distance < 50000 THEN distance ELSE 50000

\* math.Round((1 - cappedDist/500) * 1000): half a mile is a tenth of a point.
Score(distance) == RoundDiv(50000 - Cap(distance), 50)

\* A flat fee, a rate per mile and a rate per hundred pounds.
EstimatePrice(distance, weight) ==
    RoundDiv(750000 + 210 * distance + 15 * weight, 100)

\* A carrier that is booked or too small is scored as well, with nothing.
ScoreCarrier(carrier, available, capacity, weight, distance) ==
    IF available /\ capacity >= weight
    THEN [ carrier |-> carrier, feasible |-> TRUE, score |-> Score(distance),
           price |-> EstimatePrice(distance, weight) ]
    ELSE [ carrier |-> carrier, feasible |-> FALSE, score |-> 0, price |-> 0 ]

\* Mutant: by score alone, which is nothing for a far carrier as well.
BeforeByScore(x, y) == x.score > y.score

\* Mutant: ascending.
BeforeAscending(x, y) == IF x.feasible # y.feasible THEN x.feasible
                                                    ELSE x.score < y.score

\* The order handed to sort.Slice.
Before(x, y) == IF x.feasible # y.feasible THEN x.feasible
                                           ELSE x.score > y.score

\* What sort.Slice may make of the results: it is not stable, and which of two
\* equal ones comes first is open.
Rankings(results) ==
    { ranked \in [1 .. Cardinality(results) -> results] :
        /\ \A r \in results : \E i \in DOMAIN ranked : ranked[i] = r
        /\ \A i, j \in DOMAIN ranked : i < j => ~Before(ranked[j], ranked[i]) }

\* What a match job writes to the row.
FoundCarrier(ranked) == DOMAIN ranked # { } /\ ranked[1].feasible

=============================================================================
