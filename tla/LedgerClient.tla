---------------------------- MODULE LedgerClient ----------------------------
(***************************************************************************)
(* CacheDriver used the way its tests and a node use it: transactions are  *)
(* soft applied in the order of their time stamps, hard applied from the   *)
(* oldest or rolled back from the newest, and committed only when none is  *)
(* pending.  Used so, it implements Ledger.  What the code does not        *)
(* survive is kept out by a guard each; a member of Liberties lifts it.    *)
(***************************************************************************)
EXTENDS CacheDriver

CONSTANTS
    Time,       \* the order of the time stamps as clock values
    Liberties   \* the guards that are lifted, empty in the protocol

ASSUME TimeAssumption == Time \in [Hlcs -> Nat]
ASSUME LibertiesAssumption ==
    Liberties \subseteq {"rewrite", "delete"}

May(liberty) == liberty \in Liberties

(* A key with no value is touched once: a None in pending_reads counts as  *)
(* not recorded, and a second get or set would record the first write.     *)
Touchable(k) ==
    \/ May("rewrite")
    \/ k \in DOMAIN pending_writes => Lookup(pending_reads, k) # None

ClientGet(k) ==
    /\ Touchable(k)
    /\ Get(k)

ClientSet(k, v) ==
    /\ Touchable(k)
    /\ v # None \/ May("delete")
    /\ k \notin LongKeys
    /\ Set(k, v)

(* Time moves on: past the pending deltas and past what is durable.        *)
ClientSoftApply(h) ==
    /\ \A g \in DOMAIN pending_deltas : Time[g] < Time[h]
    /\ \A k \in Keys : driver[k].block <= Nanos[h]
    /\ SoftApply(h)

ClientHardApplyOne(h) ==
    /\ UpTo(h) = {h}
    /\ HardApplyOne(h)

ClientResetCache ==
    /\ DOMAIN pending_deltas = {}
    /\ ResetCache

ClientCommit ==
    /\ DOMAIN pending_deltas = {}
    /\ Commit

ClientNext ==
    \/ \E k \in Keys : ClientGet(k)
    \/ \E k \in Keys, v \in MaybeValue : ClientSet(k, v)
    \/ \E h \in Hlcs : ClientSoftApply(h)
    \/ \E h \in Hlcs : HardApply(h)
    \/ \E h \in Hlcs : ClientHardApplyOne(h)
    \/ \E S \in SUBSET Keys : BustCache(S)
    \/ ClientResetCache
    \/ ClientCommit
    \/ RollbackAll
    \/ \E h \in Hlcs : Rollback(h)

ClientSpec == Init /\ [][ClientNext]_vars

-----------------------------------------------------------------------------
L == INSTANCE Ledger WITH
        base <- [k \in Keys |-> driver[k].value],
        txs <- [h \in DOMAIN pending_deltas |->
                 [k \in DOMAIN pending_deltas[h] |-> Post(h, k)]],
        open <- pending_writes

(* CacheDriver implements Ledger: every call is one of its steps or leaves *)
(* the base, the sealed transactions and the open one alone.               *)
ImplementsLedger == L!LedgerSpec

(* What find() returns, through three layers of which the middle one may   *)
(* be stale, absent or busted, is the newest write.                        *)
FindIsView == \A k \in Keys : Find(k) = L!View(k)

(* Only a set() or a rollback() changes what a key reads as: soft and hard *)
(* applying, busting or resetting the cache and committing do not.         *)
ReadsChangeOnlyBySetOrRollback ==
    [][\/ \A k \in Keys : Find(k)' = Find(k)
       \/ \E k \in Keys, v \in MaybeValue : Set(k, v)
       \/ RollbackAll
       \/ \E h \in Hlcs : Rollback(h)]_vars

(* rollback(h) leaves every key at the value it had before the first delta *)
(* rolled back: that of the newest older delta, or the durable one.        *)
RollbackRestores ==
    [][\A h \in Hlcs : Rollback(h) =>
         \A k \in Keys :
           FindApplied(k)' = L!Over({g \in DOMAIN pending_deltas : Time[g] < Time[h]}, k)]_vars

-----------------------------------------------------------------------------
(* The inductive invariant behind FindIsView, part by part.                *)

Protocol ==
    /\ Liberties = {}
    /\ \A g, h \in Hlcs : Rank[g] < Rank[h] <=> Time[g] < Time[h]

(* Nothing is deleted and no key too long for a file name is written.      *)
ValuesOnly ==
    /\ \A k \in DOMAIN pending_writes : pending_writes[k] \in Values /\ k \notin LongKeys
    /\ \A h \in DOMAIN pending_deltas : \A k \in DOMAIN pending_deltas[h] :
         Post(h, k) \in Values /\ k \notin LongKeys
    /\ \A k \in LongKeys : driver[k] = NoEntry /\ Lookup(cache, k) = None

(* A cached value is the newest sealed one, and what pending deltas write  *)
(* is cached.                                                              *)
CacheIsSealed ==
    \A k \in Keys : IF k \in DOMAIN cache THEN cache[k] = L!Sealed(k)
                    ELSE Writers(DOMAIN pending_deltas, k) = {}

(* The first half of every pair that soft_apply will store is the value    *)
(* below the open transaction, also when other deltas were applied since.  *)
ImageOfOpen ==
    \A k \in Keys : Lookup(pending_reads, k) # None \/ k \in DOMAIN pending_writes
                      => Lookup(pending_reads, k) = L!Sealed(k)

(* The first half of every pair is the value below its transaction.        *)
ImagesOfSealed ==
    \A h \in DOMAIN pending_deltas : \A k \in DOMAIN pending_deltas[h] :
      Pre(h, k) = L!Over({g \in DOMAIN pending_deltas : Rank[g] < Rank[h]}, k)

(* No pending delta is refused by the guard on the block number.           *)
NoneRefused ==
    \A h \in DOMAIN pending_deltas : \A k \in Keys : driver[k].block <= Nanos[h]

LedgerInv ==
    /\ TypeOK
    /\ ValuesOnly
    /\ CacheIsSealed
    /\ ImageOfOpen
    /\ ImagesOfSealed
    /\ NoneRefused
=============================================================================
