------------------------------- MODULE MCHLC -------------------------------
(* Two threads share the clock of node a, one has that of node b.          *)
EXTENDS HLC

CONSTANTS a, b, a1, a2, b1

MCNodeOf == [t \in {a1, a2, b1} |-> IF t = b1 THEN b ELSE a]
=============================================================================
