-------------------------- MODULE MCDocumentBuilder --------------------------
(***************************************************************************)
(* The symmetry set of the instances of DocumentBuilder: controllers, and   *)
(* the public keys that no DID's name comes from.                           *)
(***************************************************************************)
EXTENDS DocumentBuilder, TLC

Symmetry == Permutations(Controllers) \cup Permutations(Values \ {Root})

==============================================================================
