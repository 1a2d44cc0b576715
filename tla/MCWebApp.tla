------------------------------ MODULE MCWebApp ------------------------------
(* The API for TLC.  Workers and connection parameters are model values    *)
(* that nothing tells apart, so the safety runs may permute them.          *)
EXTENDS WebAppProps, TLC

Symmetry == Permutations(Workers) \cup Permutations(Params)

=============================================================================
