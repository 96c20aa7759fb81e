--------------------------- MODULE MCCarrierMatch ---------------------------
(***************************************************************************)
(* Values for the constants of CarrierMatch and the symmetries that are    *)
(* sound for them: AllFit treats all carriers and all shipments alike, and *)
(* no definition tells two slots or two intents apart.                     *)
(***************************************************************************)
EXTENDS CarrierMatch, TLC

\* Every carrier can take every shipment.
AllFit == [s \in Shipments |-> Carriers]

SlotPermutations == Permutations(Dispatchers) \cup Permutations(Patchers)
                        \cup Permutations(Workers)

Symmetry == SlotPermutations \cup Permutations(Carriers)
                \cup Permutations(Intents) \cup Permutations(Shipments)

=============================================================================
