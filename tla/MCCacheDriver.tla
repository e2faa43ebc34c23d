--------------------------- MODULE MCCacheDriver ---------------------------
(***************************************************************************)
(* Small instances of CacheDriver.  A time stamp is <<nanoseconds,         *)
(* logical>>; those below sort as strings the way they sort in time.       *)
(***************************************************************************)
EXTENDS CacheDriver, TLC

MCHlcs == {<<0, 0>>, <<1, 0>>}
MCRank == [h \in MCHlcs |-> h[1] + h[2]]
MCNanos == [h \in MCHlcs |-> h[1]]

Symmetric == Permutations(Values)
=============================================================================
