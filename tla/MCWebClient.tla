----------------------------- MODULE MCWebClient ----------------------------
(* The page and the API for TLC.  Workers, connections and queries are     *)
(* model values that nothing tells apart, so the safety runs permute them. *)
EXTENDS WebClient, TLC

Symmetry ==
  Permutations(Workers) \cup Permutations(Params) \cup Permutations(Queries)

=============================================================================
