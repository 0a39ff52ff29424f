---------------------- MODULE MCRecommendationDelivery ----------------------
(* Small instances of RecommendationDelivery: symmetry for TLC. *)
EXTENDS RecommendationDelivery, TLC

Drains == Permutations(Workers)
=============================================================================
