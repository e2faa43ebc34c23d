--------------------------- MODULE MCLedgerClient ---------------------------
(***************************************************************************)
(* Small instances of LedgerClient.  A time stamp is <<nanoseconds,        *)
(* logical>>, ordered by the nanoseconds and then the logical counter.     *)
(***************************************************************************)
EXTENDS LedgerClient, TLC

TimeOf(hlcs) == [h \in hlcs |-> 100 * h[1] + h[2]]
NanosOf(hlcs) == [h \in hlcs |-> h[1]]

TwoHlcs == {<<1, 0>>, <<2, 0>>}
TwoTime == TimeOf(TwoHlcs)
TwoNanos == NanosOf(TwoHlcs)

(* As strings, a logical counter of 10 comes before one of 2.              *)
TenHlcs == {<<1, 2>>, <<1, 10>>}
TenTime == TimeOf(TenHlcs)
TenNanos == NanosOf(TenHlcs)
TenRank == [h \in TenHlcs |-> IF h[2] = 10 THEN 0 ELSE 1]

Symmetric == Permutations(Keys) \cup Permutations(Values)
=============================================================================
