----------------------------- MODULE MCContext -----------------------------
(***************************************************************************)
(* A small instance of Context: two contracts without an owner, one owned  *)
(* by another contract and one owned by the signer.                        *)
(***************************************************************************)
EXTENDS Context

CONSTANTS a, b, c, d, alice

MCContracts == {a, b, c, d}
MCOwner == [x \in MCContracts |-> IF x = c THEN b ELSE IF x = d THEN alice ELSE Nobody]
=============================================================================
