------------------------------- MODULE Tracer -------------------------------
(***************************************************************************)
(* The tracer of contracting/execution/metering/tracer.c: what its methods *)
(* and its trace function, which Python calls for every line, do to it.    *)
(* It counts thousandths of a stamp, and kilobytes of memory.              *)
(***************************************************************************)
EXTENDS Integers

CONSTANTS
    CuCosts,        \* what an opcode may cost: the numbers in cu_costs
    Factor,         \* 1000
    MaxStamps,      \* MAX_STAMPS, which is compared with thousandths
    MaxMemory       \* 500000

ASSUME TracerAssumption ==
    /\ CuCosts \subseteq Nat /\ CuCosts # {}
    /\ Factor \in Nat \ {0}
    /\ MaxStamps \in Nat /\ MaxMemory \in Nat

TracerType == [started : BOOLEAN, cost : Nat, supplied : Nat, last : Nat, total : Int]

NewTracer == [started |-> FALSE, cost |-> 0, supplied |-> 0, last |-> 0, total |-> 0]

(* start() counts from 0; only reset() forgets the memory.                 *)
Start(t) == [t EXCEPT !.cost = 0, !.started = TRUE]

SetStamp(t, n) == [t EXCEPT !.supplied = n]

Stop(t) == [t EXCEPT !.started = FALSE]

(* Mutant: the memory is not reset.                                        *)
ResetCost(t) == [t EXCEPT !.started = FALSE, !.cost = 0, !.supplied = 0]

Reset(t) == NewTracer

StampUsed(t) == t.cost

-----------------------------------------------------------------------------
(* add_cost() adds first; the maximum is nothing to it.                    *)
AddCostRaises(t, c) == t.cost + c > t.supplied

AddCost(t, c) ==
    LET counted == [t EXCEPT !.cost = @ + c]
    IN  IF AddCostRaises(t, c) THEN Stop(counted) ELSE counted

(* The trace function sees the lines of frames that have __contract__      *)
(* among their globals.  Memory is the peak of the process, of which only  *)
(* the growth since the first such frame counts.                           *)
SeesMemory(t, memory) ==
    LET before == IF t.last = 0 THEN memory ELSE t.last
    IN  [t EXCEPT !.last = memory,
                  !.total = IF memory > before THEN @ + (memory - before) ELSE @]

(* Mutant: a line is added without comparing.                              *)
LineRaisesNever(t, c, memory) == SeesMemory(t, memory).total > MaxMemory

(* The costs are compared before the line is added to them.                *)
LineRaises(t, c, memory) ==
    \/ t.cost > t.supplied \/ t.cost > MaxStamps
    \/ SeesMemory(t, memory).total > MaxMemory

TraceLine(t, c, memory) ==
    IF LineRaises(t, c, memory) THEN Stop(SeesMemory(t, memory))
    ELSE [SeesMemory(t, memory) EXCEPT !.cost = @ + c]
=============================================================================
