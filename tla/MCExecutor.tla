----------------------------- MODULE MCExecutor -----------------------------
(***************************************************************************)
(* A small instance of Executor: one sender, whose balance is one key, and *)
(* another key that contracts read and write.  Nothing is soft applied.    *)
(***************************************************************************)
EXTENDS Executor

CONSTANTS alice, balance, x, hash

NoTime == [h \in {} |-> 0]
MCBalanceOf == [s \in {alice} |-> balance]
=============================================================================
