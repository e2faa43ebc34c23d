---------------------------- MODULE StampClock ----------------------------
(***************************************************************************)
(* What contracting/hlcpy promises of a clock: each sync() or merge() that *)
(* returns leaves it later than it was, and nothing else changes it.       *)
(***************************************************************************)
EXTENDS Integers

CONSTANTS Nodes

VARIABLE now    \* the time stamp that the clock of each node shows

(* The order of tuple(): nanoseconds first.                                *)
Later(s, t) == s.nanos > t.nanos \/ (s.nanos = t.nanos /\ s.logical > t.logical)

ClockInit == now = [n \in Nodes |-> [nanos |-> 0, logical |-> 0]]

Tick == \E n \in Nodes : Later(now'[n], now[n]) /\ now' = [now EXCEPT ![n] = now'[n]]

ClockSpec == ClockInit /\ [][Tick]_now
===========================================================================
