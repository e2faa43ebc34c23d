---------------------------- MODULE CacheDriver ----------------------------
(***************************************************************************)
(* CacheDriver of contracting/db/driver.py over an FSDriver: the writes    *)
(* and reads of the transaction being executed, the cache of the writes    *)
(* that were soft applied, the deltas that were soft applied and wait to   *)
(* be hard applied or rolled back, and the durable store.                  *)
(***************************************************************************)
EXTENDS RawStore, Dicts

CONSTANTS
    Hlcs,       \* the time stamps that transactions are soft applied under
    Rank,       \* their position in the order of strings, as sorted() and < see it
    Nanos,      \* the nanoseconds that get_nanos reads from them
    Guarded     \* FALSE when get_nanos raises ValueError: no block number is set

(* A time stamp starts with an ISO 8601 time of fixed width, so the order  *)
(* of strings never contradicts the order of the nanoseconds.  A Python    *)
(* dict is finite, so the time stamps in one have a first and a last.      *)
ASSUME HlcAssumption ==
    /\ Rank \in [Hlcs -> Nat]
    /\ Nanos \in [Hlcs -> Nat]
    /\ Guarded \in BOOLEAN
    /\ \A g, h \in Hlcs : Rank[g] = Rank[h] => g = h
    /\ \A g, h \in Hlcs : Rank[g] < Rank[h] => Nanos[g] <= Nanos[h]
    /\ \A S \in SUBSET Hlcs : S # {} =>
         /\ \E h \in S : \A g \in S : Rank[h] <= Rank[g]
         /\ \E h \in S : \A g \in S : Rank[g] <= Rank[h]

VARIABLES
    pending_writes,     \* L2: dict from key to value
    pending_reads,      \* dict from key to the value read first
    cache,              \* L1: dict from key to value
    driver,             \* L0: the durable store
    pending_deltas      \* dict from time stamp to what was soft applied under it

vars == <<pending_writes, pending_reads, cache, driver, pending_deltas>>

-----------------------------------------------------------------------------
(* dict.get(k)                                                             *)
Lookup(dict, k) == IF k \in DOMAIN dict THEN dict[k] ELSE None

(* The 'writes' of a delta: for each key the pair (current, v) of the      *)
(* values before and after.  Its 'reads' and 'rewards' are only reported   *)
(* to the caller, nothing here reads them back, and they are left out.     *)
Delta == Dict(Keys, MaybeValue \X MaybeValue)

TypeOK ==
    /\ pending_writes \in Dict(Keys, MaybeValue)
    /\ pending_reads \in Dict(Keys, MaybeValue)
    /\ cache \in Dict(Keys, MaybeValue)
    /\ driver \in Store
    /\ IsDict(pending_deltas, Hlcs, Delta)

Init ==
    /\ pending_writes = EmptyDict
    /\ pending_reads = EmptyDict
    /\ cache = EmptyDict
    /\ driver \in [Keys -> {NoEntry} \cup [value : Values, block : {NoBlock}]]
    /\ \A k \in LongKeys : driver[k] = NoEntry
    /\ pending_deltas = EmptyDict

-----------------------------------------------------------------------------
(* Reading and writing in a transaction.                                   *)

FindApplied(k) ==
    IF Lookup(cache, k) # None THEN cache[k] ELSE FSGet(driver, k)

Find(k) ==
    IF Lookup(pending_writes, k) # None THEN pending_writes[k] ELSE FindApplied(k)

(* Mutant: every read is recorded, over the first one.                     *)
RecordEveryRead(k) == pending_reads' = Put(pending_reads, k, Find(k))

RecordRead(k) ==
    pending_reads' = IF Lookup(pending_reads, k) = None
                     THEN Put(pending_reads, k, Find(k)) ELSE pending_reads

(* deduct_read comes after the read is recorded, so a get that runs out of *)
(* stamps leaves the same state.                                           *)
Get(k) ==
    /\ RecordRead(k)
    /\ UNCHANGED <<pending_writes, cache, driver, pending_deltas>>

(* A set that raises in deduct_write changes nothing, one that raises in   *)
(* the get it makes is that Get.  delete(key) is the set of None.          *)
Set(k, v) ==
    /\ RecordRead(k)
    /\ pending_writes' = Put(pending_writes, k, v)
    /\ UNCHANGED <<cache, driver, pending_deltas>>

-----------------------------------------------------------------------------
(* Soft apply: the writes of the transaction become visible to the next    *)
(* ones, and undoable.                                                     *)

PendingPairs ==
    [k \in DOMAIN pending_writes |-> <<Lookup(pending_reads, k), pending_writes[k]>>]

ClearTopCache ==
    /\ pending_reads' = EmptyDict
    /\ pending_writes' = EmptyDict

SoftApply(h) ==
    /\ cache' = Update(cache, pending_writes)
    /\ pending_deltas' = Put(pending_deltas, h, PendingPairs)
    /\ ClearTopCache
    /\ UNCHANGED driver

SoftApplyRewards(h) ==
    /\ h \in DOMAIN pending_deltas
    /\ cache' = Update(cache, pending_writes)
    /\ ClearTopCache
    /\ UNCHANGED <<driver, pending_deltas>>

(* KeyError on the time stamp, after the cache took the writes.            *)
SoftApplyRewardsRaises(h) ==
    /\ h \notin DOMAIN pending_deltas
    /\ cache' = Update(cache, pending_writes)
    /\ UNCHANGED <<pending_writes, pending_reads, driver, pending_deltas>>

-----------------------------------------------------------------------------
(* Hard apply: deltas reach the durable store, guarded by their time.      *)

Pre(h, k) == pending_deltas[h][k][1]
Post(h, k) == pending_deltas[h][k][2]

Writers(S, k) == {h \in S : k \in DOMAIN pending_deltas[h]}

First(S) == CHOOSE h \in S : \A g \in S : Rank[h] <= Rank[g]
Last(S) == CHOOSE h \in S : \A g \in S : Rank[g] <= Rank[h]

UpTo(h) == {g \in DOMAIN pending_deltas : Rank[g] <= Rank[h]}

(* Mutant: the first writer of a key decides instead of the last.          *)
ApplyFirst(h, k) ==
    LET w == First(Writers(UpTo(h), k))
    IN  IF Writers(UpTo(h), k) = {} THEN driver[k]
        ELSE IF Guarded THEN FSSafeSet(driver, k, Post(w, k), Nanos[w])
        ELSE FSSetPlain(driver, k, Post(w, k))

(* The deltas up to h go to the driver in sorted order under their         *)
(* nanoseconds, so for each key the last writer decides.                   *)
ApplyUpTo(h, k) ==
    LET w == Last(Writers(UpTo(h), k))
    IN  IF Writers(UpTo(h), k) = {} THEN driver[k]
        ELSE IF Guarded THEN FSSafeSet(driver, k, Post(w, k), Nanos[w])
        ELSE FSSetPlain(driver, k, Post(w, k))

(* Mutant: the deltas before h are applied and stay pending.               *)
HardApplyForgettingOne(h) ==
    /\ h \in DOMAIN pending_deltas
    /\ driver' = [k \in Keys |-> ApplyUpTo(h, k)]
    /\ pending_deltas' = Without(pending_deltas, {h})
    /\ UNCHANGED <<pending_writes, pending_reads, cache>>

HardApply(h) ==
    /\ h \in DOMAIN pending_deltas
    /\ driver' = [k \in Keys |-> ApplyUpTo(h, k)]
    /\ pending_deltas' = Without(pending_deltas, UpTo(h))
    /\ UNCHANGED <<pending_writes, pending_reads, cache>>

(* Here the nanoseconds are an int, and 0 means no block number.           *)
ApplyOnly(h, k) ==
    IF k \notin DOMAIN pending_deltas[h] THEN driver[k]
    ELSE IF Guarded THEN FSSetInt(driver, k, Post(h, k), Nanos[h])
    ELSE FSSetPlain(driver, k, Post(h, k))

HardApplyOne(h) ==
    /\ h \in DOMAIN pending_deltas
    /\ driver' = [k \in Keys |-> ApplyOnly(h, k)]
    /\ pending_deltas' = Without(pending_deltas, {h})
    /\ UNCHANGED <<pending_writes, pending_reads, cache>>

-----------------------------------------------------------------------------
(* Invalidation, commit and rollback.                                      *)

(* Mutant: without the break, the last delta of the loop decides.          *)
BustCacheByLast(S) ==
    /\ cache' = Without(cache, {k \in S : \A h \in DOMAIN pending_deltas :
                    h = Last(DOMAIN pending_deltas) => k \notin DOMAIN pending_deltas[h]})
    /\ UNCHANGED <<pending_writes, pending_reads, driver, pending_deltas>>

BustCache(S) ==
    /\ cache' = Without(cache, {k \in S : Writers(DOMAIN pending_deltas, k) = {}})
    /\ UNCHANGED <<pending_writes, pending_reads, driver, pending_deltas>>

ResetCache ==
    /\ cache' = EmptyDict
    /\ UNCHANGED <<pending_writes, pending_reads, driver, pending_deltas>>

(* Mutant: the cache hides the writes of the open transaction.             *)
CommittedCacheFirst(k) ==
    LET all == Update(pending_writes, cache)
    IN  IF k \notin DOMAIN all THEN driver[k]
        ELSE IF all[k] = None THEN FSDelete(driver, k)
        ELSE FSSetPlain(driver, k, all[k])

Committed(k) ==
    LET all == Update(cache, pending_writes)
    IN  IF k \notin DOMAIN all THEN driver[k]
        ELSE IF all[k] = None THEN FSDelete(driver, k)
        ELSE FSSetPlain(driver, k, all[k])

Commit ==
    /\ driver' = [k \in Keys |-> Committed(k)]
    /\ cache' = EmptyDict
    /\ ClearTopCache
    /\ UNCHANGED pending_deltas

RollbackAll ==
    /\ cache' = EmptyDict
    /\ pending_deltas' = EmptyDict
    /\ ClearTopCache
    /\ UNCHANGED driver

(* From the newest delta back to h, each key takes the value it had before *)
(* the delta: the oldest one decides.  The open transaction is dropped in  *)
(* the loop, so not when there is no delta at all.                         *)
From(h) == {g \in DOMAIN pending_deltas : Rank[h] <= Rank[g]}

(* Mutant: delta is stored for delta[0].                                   *)
RolledBackPairs(h) ==
    [k \in {x \in Keys : Writers(From(h), x) # {}} |->
       pending_deltas[First(Writers(From(h), k))][k]]

(* Mutant: from h up to the newest delta, so the newest decides.           *)
RolledBackForwards(h) ==
    [k \in {x \in Keys : Writers(From(h), x) # {}} |-> Pre(Last(Writers(From(h), k)), k)]

RolledBack(h) ==
    [k \in {x \in Keys : Writers(From(h), x) # {}} |-> Pre(First(Writers(From(h), k)), k)]

Rollback(h) ==
    /\ cache' = Update(cache, RolledBack(h))
    /\ pending_deltas' = Without(pending_deltas, From(h))
    /\ IF DOMAIN pending_deltas = {}
       THEN UNCHANGED <<pending_writes, pending_reads>> ELSE ClearTopCache
    /\ UNCHANGED driver

-----------------------------------------------------------------------------
Next ==
    \/ \E k \in Keys : Get(k)
    \/ \E k \in Keys, v \in MaybeValue : Set(k, v)
    \/ \E h \in Hlcs : SoftApply(h)
    \/ \E h \in Hlcs : SoftApplyRewards(h)
    \/ \E h \in Hlcs : SoftApplyRewardsRaises(h)
    \/ \E h \in Hlcs : HardApply(h)
    \/ \E h \in Hlcs : HardApplyOne(h)
    \/ \E S \in SUBSET Keys : BustCache(S)
    \/ ResetCache
    \/ Commit
    \/ RollbackAll
    \/ \E h \in Hlcs : Rollback(h)

Spec == Init /\ [][Next]_vars

-----------------------------------------------------------------------------
(* Properties of every sequence of calls.                                  *)

(* A dict that maps no key to None: None hides nothing below it.           *)
NoDeletion(dict, k) == k \in DOMAIN dict => dict[k] # None

(* commit() makes durable exactly what the transaction reads, the writes   *)
(* of the open transaction over the ones that were soft applied, for every *)
(* key that is not being deleted.                                          *)
CommitMakesReadsDurable ==
    [][Commit => \A k \in Keys \ LongKeys :
         NoDeletion(cache, k) /\ NoDeletion(pending_writes, k)
           => /\ driver'[k].value = Find(k)
              /\ Find(k)' = Find(k)]_vars

(* bust_cache() never drops the cached value of a key that some delta,     *)
(* whichever it is, still waits to write.                                  *)
BustKeepsPending ==
    [][\A S \in SUBSET Keys : BustCache(S) =>
         \A h \in DOMAIN pending_deltas : \A k \in DOMAIN pending_deltas[h] :
           FindApplied(k)' = FindApplied(k)]_vars

(* However hard_apply() and hard_apply_one() are ordered, a value that is  *)
(* durable under one time is replaced only under the same or a later one.  *)
HardApplyKeepsNewer ==
    [][\A h \in Hlcs : Guarded /\ Nanos[h] > 0 /\ (HardApply(h) \/ HardApplyOne(h)) =>
         \A k \in Keys : driver'[k] = driver[k] \/ driver'[k].block >= driver[k].block]_vars

-----------------------------------------------------------------------------
(* The loops of hard_apply() and rollback(), turn by turn, as a reference  *)
(* for ApplyUpTo and RolledBack.  sorted() visits the time stamps by rank; *)
(* a rank that no delta has is no turn.                                    *)
RankedAt(n) == {g \in DOMAIN pending_deltas : Rank[g] = n}

StoreDelta(store, h) ==
    [k \in Keys |->
       IF k \notin DOMAIN pending_deltas[h] THEN store[k]
       ELSE IF Guarded THEN FSSafeSet(store, k, Post(h, k), Nanos[h])
       ELSE FSSetPlain(store, k, Post(h, k))]

UndoDelta(dict, h) == Update(dict, [k \in DOMAIN pending_deltas[h] |-> Pre(h, k)])

StoreTurn(store, n) ==
    IF RankedAt(n) = {} THEN store ELSE StoreDelta(store, First(RankedAt(n)))

UndoTurn(dict, n) ==
    IF RankedAt(n) = {} THEN dict ELSE UndoDelta(dict, First(RankedAt(n)))

(* The driver after the deltas with a rank below n, oldest first.          *)
StoredBelow[n \in Nat] ==
    IF n = 0 THEN driver ELSE StoreTurn(StoredBelow[n - 1], n - 1)

(* The cache after the deltas with the n ranks up to that of the newest,   *)
(* newest first.                                                           *)
TopRank == Rank[Last(DOMAIN pending_deltas)]

UndoneFromTop[n \in Nat] ==
    IF n = 0 THEN cache ELSE UndoTurn(UndoneFromTop[n - 1], TopRank - (n - 1))

(* Writing only what the last writer of a key wrote leaves the store that  *)
(* the loop of hard_apply() leaves when it breaks after h, whichever       *)
(* deltas the driver's guard refuses on the way, and undoing only the      *)
(* oldest delta of a key leaves the cache that the loop of rollback()      *)
(* leaves when it breaks below h.                                          *)
ClosedFormsAreTheLoops ==
    /\ \A h \in DOMAIN pending_deltas :
         [k \in Keys |-> ApplyUpTo(h, k)] = StoredBelow[Rank[h] + 1]
    /\ \A h \in Hlcs : DOMAIN pending_deltas # {} /\ Rank[h] <= TopRank =>
         Update(cache, RolledBack(h)) = UndoneFromTop[TopRank - Rank[h] + 1]
=============================================================================
