---------------------------- MODULE AtomicStore ----------------------------
(***************************************************************************)
(* The durable store as CacheDriver sees it: every call of FSDriver takes  *)
(* effect on its key in one step, as the operators of RawStore say, unless *)
(* the key is in doubt when it does.                                       *)
(***************************************************************************)
EXTENDS RawStore

CONSTANT Blocks

VARIABLES
    store,
    doubted     \* the keys that a failed or overtaken call is about

AtomicInit == store = [k \in Keys |-> NoEntry]

Becomes(k, entry) == store' = [store EXCEPT ![k] = entry]

(* What writes without their guard may leave of an old and a new entry.    *)
Blend(old, new) ==
    [value : {old.value, None, new.value}, block : {old.block, NoBlock, new.block}]

BecomesDoubtful(k) ==
    /\ k \in doubted \cup doubted'
    /\ \E v \in MaybeValue, b \in Blocks \cup {NoBlock} :
         \E entry \in Blend(store[k], [value |-> v, block |-> b]) : Becomes(k, entry)

AtomicNext ==
    \E k \in Keys :
      \/ \E v \in MaybeValue : Becomes(k, FSSetPlain(store, k, v))
      \/ \E v \in MaybeValue, b \in Blocks : Becomes(k, FSSafeSet(store, k, v, b))
      \/ Becomes(k, FSDelete(store, k))
      \/ BecomesDoubtful(k)

AtomicSpec == AtomicInit /\ [][AtomicNext]_store
=============================================================================
