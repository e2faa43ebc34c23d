----------------------------- MODULE MCH5Store -----------------------------
(***************************************************************************)
(* A small instance of H5Store: the two keys of one contract share a file; *)
(* both processes write the one, and one of them writes the other.         *)
(***************************************************************************)
EXTENDS H5Store, TLC

CONSTANTS p, q, x, y, f, g

OneFile == x :> f @@ y :> f
TwoWriters == x :> {p, q} @@ y :> {q}
=============================================================================
