------------------------------ MODULE MCLoader ------------------------------
(***************************************************************************)
(* A small instance of Loader: two contracts, codes and users.                *)
(***************************************************************************)
EXTENDS Loader, TLC

Symmetric == Permutations(Contracts) \cup Permutations(Codes) \cup Permutations(Users)
=============================================================================
