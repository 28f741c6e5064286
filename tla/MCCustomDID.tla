------------------------------ MODULE MCCustomDID ------------------------------
(***************************************************************************)
(* A customized DID among controllers who are alike.                       *)
(***************************************************************************)
EXTENDS CustomDID, TLC

Symmetry == Permutations(Controllers)

================================================================================
