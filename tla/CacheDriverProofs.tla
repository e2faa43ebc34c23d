------------------------- MODULE CacheDriverProofs -------------------------
(***************************************************************************)
(* CacheDriver, for any keys, values and time stamps.  Whatever is called: *)
(* its types, and what commit, busting and hard applying never do.  Used   *)
(* by LedgerClient's protocol, with time stamps that sort as strings as    *)
(* they do in time, it implements Ledger: every read returns the newest    *)
(* write (FindIsView), and every call is a step of the ledger or a stutter *)
(* (ImplementsLedger).  Used by Executor with auto_commit, it has nothing  *)
(* pending between two transactions (NothingStaysPending), and only the    *)
(* fee of one that failed (FailureLeavesTheFee).                           *)
(***************************************************************************)
EXTENDS LedgerClient, Executor, WellFoundedInduction, TLAPS

(* A dict over D into R is a function on part of D with values in R.       *)
LEMMA DictElim ==
    ASSUME NEW D, NEW R, NEW f \in Dict(D, R)
    PROVE  /\ DOMAIN f \subseteq D
           /\ \A x \in DOMAIN f : f[x] \in R
           /\ f = [x \in DOMAIN f |-> f[x]]
BY DEF Dict

LEMMA DictIntro ==
    ASSUME NEW D, NEW R, NEW S \in SUBSET D, NEW f \in [S -> R]
    PROVE  f \in Dict(D, R)
BY DEF Dict

LEMMA IsDictIsDict ==
    ASSUME NEW D, NEW R, NEW f
    PROVE  IsDict(f, D, R) <=> f \in Dict(D, R)
<1>1. ASSUME IsDict(f, D, R) PROVE f \in Dict(D, R)
  BY <1>1, DictIntro DEF IsDict
<1>2. ASSUME f \in Dict(D, R) PROVE IsDict(f, D, R)
  BY <1>2, DictElim DEF IsDict
<1>3. QED
  BY <1>1, <1>2

LEMMA EmptyDictType ==
    ASSUME NEW D, NEW R
    PROVE  EmptyDict \in Dict(D, R) /\ DOMAIN EmptyDict = {}
<1>1. EmptyDict \in [{} -> R]
  BY DEF EmptyDict
<1>2. QED
  BY <1>1, DictIntro DEF EmptyDict

(* What assignment to a key, update and pop do to a dict.                  *)
LEMMA PutType ==
    ASSUME NEW D, NEW R, NEW f \in Dict(D, R), NEW k \in D, NEW v \in R
    PROVE  /\ Put(f, k, v) \in Dict(D, R)
           /\ DOMAIN Put(f, k, v) = DOMAIN f \cup {k}
<1>1. DOMAIN f \cup {k} \in SUBSET D
  BY DictElim
<1>2. Put(f, k, v) \in [DOMAIN f \cup {k} -> R]
  BY DictElim DEF Put
<1>3. QED
  BY <1>1, <1>2, DictIntro

LEMMA UpdateType ==
    ASSUME NEW D, NEW R, NEW f \in Dict(D, R), NEW g \in Dict(D, R)
    PROVE  /\ Update(f, g) \in Dict(D, R)
           /\ DOMAIN Update(f, g) = DOMAIN f \cup DOMAIN g
<1>1. DOMAIN f \cup DOMAIN g \in SUBSET D
  BY DictElim
<1>2. Update(f, g) \in [DOMAIN f \cup DOMAIN g -> R]
  BY DictElim DEF Update
<1>3. QED
  BY <1>1, <1>2, DictIntro

LEMMA WithoutType ==
    ASSUME NEW D, NEW R, NEW f \in Dict(D, R), NEW S
    PROVE  /\ Without(f, S) \in Dict(D, R)
           /\ DOMAIN Without(f, S) = DOMAIN f \ S
<1>1. DOMAIN f \ S \in SUBSET D
  BY DictElim
<1>2. Without(f, S) \in [DOMAIN f \ S -> R]
  BY DictElim DEF Without
<1>3. QED
  BY <1>1, <1>2, DictIntro

-----------------------------------------------------------------------------
(* The first and the last of a set of time stamps are members of it.       *)
LEMMA FirstLast ==
    ASSUME NEW S \in SUBSET Hlcs, S # {}
    PROVE  /\ First(S) \in S /\ \A g \in S : Rank[First(S)] <= Rank[g]
           /\ Last(S) \in S /\ \A g \in S : Rank[g] <= Rank[Last(S)]
BY HlcAssumption DEF First, Last

(* What each call of the raw driver leaves under a key is an entry.        *)
Entry == [value : MaybeValue, block : Int]

LEMMA EntryType ==
    ASSUME NEW store \in Store, NEW k \in Keys, NEW v \in MaybeValue, NEW b \in Int
    PROVE  /\ FSGet(store, k) \in MaybeValue
           /\ FSSetPlain(store, k, v) \in Entry
           /\ FSSafeSet(store, k, v, b) \in Entry
           /\ FSSetInt(store, k, v, b) \in Entry
           /\ FSDelete(store, k) \in Entry
<1>1. store[k] \in Entry
  BY DEF Store, Entry
<1>2. None \in MaybeValue /\ NoBlock \in Int
  BY DEF MaybeValue, NoBlock
<1>3. [value |-> v, block |-> NoBlock] \in Entry /\ [value |-> v, block |-> b] \in Entry
  BY <1>2 DEF Entry
<1>4. NoEntry \in Entry
  BY <1>2 DEF NoEntry, Entry
<1>5. FSSetPlain(store, k, v) \in Entry /\ FSSafeSet(store, k, v, b) \in Entry
  BY <1>1, <1>3 DEF FSSetPlain, FSSafeSet
<1>6. QED
  BY <1>1, <1>2, <1>4, <1>5 DEF FSGet, FSSetInt, FSDelete, Entry

(* What the operators on the state return while TypeOK holds.              *)
LEMMA LookupType ==
    ASSUME NEW f \in Dict(Keys, MaybeValue), NEW k
    PROVE  Lookup(f, k) \in MaybeValue
BY DictElim DEF Lookup, MaybeValue

LEMMA FindType ==
    ASSUME TypeOK, NEW k \in Keys
    PROVE  Find(k) \in MaybeValue /\ FindApplied(k) \in MaybeValue
<1>1. Lookup(cache, k) \in MaybeValue /\ Lookup(pending_writes, k) \in MaybeValue
  BY LookupType, IsDictIsDict DEF TypeOK
<1>2. FSGet(driver, k) \in MaybeValue
  BY IsDictIsDict DEF TypeOK, FSGet, Store, MaybeValue
<1>3. QED
  BY <1>1, <1>2 DEF Find, FindApplied, Lookup, MaybeValue

LEMMA DeltaType ==
    ASSUME TypeOK, NEW h \in DOMAIN pending_deltas
    PROVE  /\ h \in Hlcs
           /\ pending_deltas[h] \in Delta
           /\ DOMAIN pending_deltas[h] \subseteq Keys
           /\ \A k \in DOMAIN pending_deltas[h] :
                Pre(h, k) \in MaybeValue /\ Post(h, k) \in MaybeValue
<1>1. h \in Hlcs /\ pending_deltas[h] \in Delta
  BY DictElim, IsDictIsDict DEF TypeOK
<1>2. QED
  BY <1>1, DictElim DEF Delta, Pre, Post

LEMMA WritersIn ==
    ASSUME TypeOK, NEW S \in SUBSET DOMAIN pending_deltas, NEW k, Writers(S, k) # {}
    PROVE  /\ First(Writers(S, k)) \in Writers(S, k)
           /\ Last(Writers(S, k)) \in Writers(S, k)
<1>1. Writers(S, k) \in SUBSET Hlcs
  BY DeltaType DEF Writers
<1>2. QED
  BY <1>1, FirstLast

-----------------------------------------------------------------------------
(* The dicts that the actions build have the types of the variables.       *)
LEMMA RecordReadType ==
    ASSUME TypeOK, NEW k \in Keys, RecordRead(k)
    PROVE  pending_reads' \in Dict(Keys, MaybeValue)
<1>1. Put(pending_reads, k, Find(k)) \in Dict(Keys, MaybeValue)
  BY FindType, PutType, IsDictIsDict DEF TypeOK
<1>2. QED
  BY <1>1, IsDictIsDict DEF RecordRead, TypeOK

LEMMA PendingPairsType ==
    ASSUME TypeOK
    PROVE  /\ PendingPairs \in Delta
           /\ DOMAIN PendingPairs = DOMAIN pending_writes
<1>1. DOMAIN pending_writes \in SUBSET Keys
  BY DictElim, IsDictIsDict DEF TypeOK
<1>2. ASSUME NEW k \in DOMAIN pending_writes
      PROVE  <<Lookup(pending_reads, k), pending_writes[k]>> \in MaybeValue \X MaybeValue
  BY DictElim, LookupType, IsDictIsDict DEF TypeOK
<1>3. PendingPairs \in [DOMAIN pending_writes -> MaybeValue \X MaybeValue]
  BY <1>2 DEF PendingPairs
<1>4. PendingPairs \in Delta
  BY <1>1, <1>3, DictIntro DEF Delta
<1>5. QED
  BY <1>3, <1>4

LEMMA RolledBackType ==
    ASSUME TypeOK, NEW h \in Hlcs
    PROVE  RolledBack(h) \in Dict(Keys, MaybeValue)
<1> DEFINE S == {x \in Keys : Writers(From(h), x) # {}}
<1>1. ASSUME NEW k \in S
      PROVE  Pre(First(Writers(From(h), k)), k) \in MaybeValue
  <2>1. From(h) \in SUBSET DOMAIN pending_deltas
    BY DEF From
  <2>2. First(Writers(From(h), k)) \in Writers(From(h), k)
    BY <2>1, WritersIn
  <2>3. QED
    BY <2>1, <2>2, DeltaType DEF Writers
<1>2. RolledBack(h) \in [S -> MaybeValue]
  BY <1>1 DEF RolledBack
<1>3. QED
  BY <1>2, DictIntro

LEMMA ApplyUpToType ==
    ASSUME TypeOK, NEW h \in Hlcs, NEW k \in Keys
    PROVE  ApplyUpTo(h, k) \in Entry
<1>1. CASE Writers(UpTo(h), k) = {}
  BY <1>1, IsDictIsDict DEF ApplyUpTo, TypeOK, Store, Entry
<1>2. CASE Writers(UpTo(h), k) # {}
  <2> DEFINE w == Last(Writers(UpTo(h), k))
  <2>1. UpTo(h) \in SUBSET DOMAIN pending_deltas
    BY DEF UpTo
  <2>2. w \in Writers(UpTo(h), k)
    BY <1>2, <2>1, WritersIn
  <2>3. w \in Hlcs /\ Post(w, k) \in MaybeValue
    BY <2>1, <2>2, DeltaType DEF Writers
  <2>4. Nanos[w] \in Int
    BY <2>3, HlcAssumption
  <2>5. /\ FSSafeSet(driver, k, Post(w, k), Nanos[w]) \in Entry
        /\ FSSetPlain(driver, k, Post(w, k)) \in Entry
    BY <2>3, <2>4, EntryType, IsDictIsDict DEF TypeOK
  <2>6. QED
    BY <1>2, <2>5 DEF ApplyUpTo
<1>3. QED
  BY <1>1, <1>2

LEMMA ApplyOnlyType ==
    ASSUME TypeOK, NEW h \in DOMAIN pending_deltas, NEW k \in Keys
    PROVE  ApplyOnly(h, k) \in Entry
<1>1. CASE k \notin DOMAIN pending_deltas[h]
  BY <1>1, IsDictIsDict DEF ApplyOnly, TypeOK, Store, Entry
<1>2. CASE k \in DOMAIN pending_deltas[h]
  <2>1. h \in Hlcs /\ Post(h, k) \in MaybeValue
    BY <1>2, DeltaType
  <2>2. Nanos[h] \in Int
    BY <2>1, HlcAssumption
  <2>3. /\ FSSetInt(driver, k, Post(h, k), Nanos[h]) \in Entry
        /\ FSSetPlain(driver, k, Post(h, k)) \in Entry
    BY <2>1, <2>2, EntryType, IsDictIsDict DEF TypeOK
  <2>4. QED
    BY <1>2, <2>3 DEF ApplyOnly
<1>3. QED
  BY <1>1, <1>2

LEMMA CommittedType ==
    ASSUME TypeOK, NEW k \in Keys
    PROVE  Committed(k) \in Entry
<1> DEFINE all == Update(cache, pending_writes)
<1>1. all \in Dict(Keys, MaybeValue)
  BY UpdateType, IsDictIsDict DEF TypeOK
<1>2. CASE k \notin DOMAIN all
  BY <1>2, IsDictIsDict DEF Committed, TypeOK, Store, Entry
<1>3. CASE k \in DOMAIN all
  <2>1. all[k] \in MaybeValue
    BY <1>1, <1>3, DictElim
  <2>2. FSDelete(driver, k) \in Entry /\ FSSetPlain(driver, k, all[k]) \in Entry
    BY <2>1, EntryType, IsDictIsDict DEF TypeOK
  <2>3. QED
    BY <1>3, <2>2 DEF Committed
<1>4. QED
  BY <1>2, <1>3

-----------------------------------------------------------------------------
(* Every call keeps the types: no call can leave a pair of a delta, a time *)
(* stamp or a missing entry where a value belongs.                         *)
LEMMA TypeInit == Init => TypeOK
<1> SUFFICES ASSUME Init PROVE TypeOK
  OBVIOUS
<1>1. EmptyDict \in Dict(Keys, MaybeValue) /\ EmptyDict \in Dict(Hlcs, Delta)
  BY EmptyDictType
<1>2. {NoEntry} \cup [value : Values, block : {NoBlock}] \subseteq Entry
  BY DEF NoEntry, NoBlock, Entry, MaybeValue
<1>3. driver \in [Keys -> Entry]
  BY <1>2 DEF Init
<1>4. QED
  BY <1>1, <1>3, IsDictIsDict DEF Init, TypeOK, Store, Entry

LEMMA TypeNext == TypeOK /\ [Next]_vars => TypeOK'
<1> SUFFICES ASSUME TypeOK, [Next]_vars PROVE TypeOK'
  OBVIOUS
<1> USE DEF TypeOK
<1>0. EmptyDict \in Dict(Keys, MaybeValue) /\ IsDict(EmptyDict, Hlcs, Delta)
  BY EmptyDictType, IsDictIsDict
<1>. /\ pending_deltas \in Dict(Hlcs, Delta)
     /\ \A f : f \in Dict(Hlcs, Delta) => IsDict(f, Hlcs, Delta)
  BY IsDictIsDict
<1>1. ASSUME NEW k \in Keys, Get(k) PROVE TypeOK'
  BY <1>1, RecordReadType DEF Get
<1>2. ASSUME NEW k \in Keys, NEW v \in MaybeValue, Set(k, v) PROVE TypeOK'
  BY <1>2, RecordReadType, PutType DEF Set
<1>3. ASSUME NEW h \in Hlcs, SoftApply(h) PROVE TypeOK'
  <2>1. Put(pending_deltas, h, PendingPairs) \in Dict(Hlcs, Delta)
    BY PendingPairsType, PutType
  <2>2. Update(cache, pending_writes) \in Dict(Keys, MaybeValue)
    BY UpdateType
  <2>3. QED
    BY <1>0, <1>3, <2>1, <2>2 DEF SoftApply, ClearTopCache
<1>4. ASSUME NEW h \in Hlcs, SoftApplyRewards(h) PROVE TypeOK'
  BY <1>0, <1>4, UpdateType DEF SoftApplyRewards, ClearTopCache
<1>5. ASSUME NEW h \in Hlcs, SoftApplyRewardsRaises(h) PROVE TypeOK'
  BY <1>5, UpdateType DEF SoftApplyRewardsRaises
<1>6. ASSUME NEW h \in Hlcs, HardApply(h) PROVE TypeOK'
  <2>1. [k \in Keys |-> ApplyUpTo(h, k)] \in Store
    BY ApplyUpToType DEF Store, Entry
  <2>2. Without(pending_deltas, UpTo(h)) \in Dict(Hlcs, Delta)
    BY WithoutType
  <2>3. QED
    BY <1>6, <2>1, <2>2 DEF HardApply
<1>7. ASSUME NEW h \in Hlcs, HardApplyOne(h) PROVE TypeOK'
  <2>1. [k \in Keys |-> ApplyOnly(h, k)] \in Store
    BY <1>7, ApplyOnlyType DEF Store, Entry, HardApplyOne
  <2>2. Without(pending_deltas, {h}) \in Dict(Hlcs, Delta)
    BY WithoutType
  <2>3. QED
    BY <1>7, <2>1, <2>2 DEF HardApplyOne
<1>8. ASSUME NEW S \in SUBSET Keys, BustCache(S) PROVE TypeOK'
  BY <1>8, WithoutType DEF BustCache
<1>9. CASE ResetCache
  BY <1>0, <1>9 DEF ResetCache
<1>10. CASE Commit
  <2>1. [k \in Keys |-> Committed(k)] \in Store
    BY CommittedType DEF Store, Entry
  <2>2. QED
    BY <1>0, <1>10, <2>1 DEF Commit, ClearTopCache
<1>11. CASE RollbackAll
  BY <1>0, <1>11 DEF RollbackAll, ClearTopCache
<1>12. ASSUME NEW h \in Hlcs, Rollback(h) PROVE TypeOK'
  <2>1. Update(cache, RolledBack(h)) \in Dict(Keys, MaybeValue)
    BY RolledBackType, UpdateType
  <2>2. Without(pending_deltas, From(h)) \in Dict(Hlcs, Delta)
    BY WithoutType
  <2>3. QED
    BY <1>0, <1>12, <2>1, <2>2 DEF Rollback, ClearTopCache
<1>13. CASE UNCHANGED vars
  BY <1>13 DEF vars
<1>14. QED
  BY <1>1, <1>2, <1>3, <1>4, <1>5, <1>6, <1>7, <1>8, <1>9, <1>10, <1>11, <1>12, <1>13
     DEF Next

(* The state of CacheDriver keeps its types whatever calls are made in     *)
(* whatever order.                                                         *)
THEOREM TypeCorrect == Spec => []TypeOK
<1>1. QED
  BY TypeInit, TypeNext, PTL DEF Spec

-----------------------------------------------------------------------------
(* The closed forms of hard_apply() and rollback() are their loops.  This  *)
(* is induction over the turns of a loop.                                  *)

(* A set of numbers with 0 and the successor of each of its members has    *)
(* them all: else it misses a least one.                                   *)
LEMMA Induction ==
    ASSUME NEW S, 0 \in S, \A n \in Nat : n \in S => n + 1 \in S
    PROVE  Nat \subseteq S
<1> DEFINE Missed == Nat \ S
<1> SUFFICES ASSUME Missed # {} PROVE FALSE
  OBVIOUS
<1>1. IsWellFoundedOn(OpToRel(<, Nat), Nat)
  BY NatLessThanWellFounded, Zenon
<1>2. PICK n \in Missed : \A m \in Missed : ~(<<m, n>> \in OpToRel(<, Nat))
  BY <1>1, WFMin, Zenon
<1>3. n # 0 /\ n - 1 \in Nat /\ n - 1 < n
  OBVIOUS
<1>4. n - 1 \notin Missed
  BY <1>2, <1>3 DEF OpToRel
<1>5. QED
  BY <1>3, <1>4

(* The recursive functions are what their definitions say.  Up to any n    *)
(* there is one function that obeys the definition, and only one.          *)
StoresUpTo(f, n) ==
    /\ f = [i \in 0..n |-> f[i]]
    /\ f[0] = driver
    /\ \A i \in 0..(n - 1) : f[i + 1] = StoreTurn(f[i], i)

LEMMA StoresExist == \A n \in Nat : \E f : StoresUpTo(f, n)
<1> DEFINE S == {n \in Nat : \E f : StoresUpTo(f, n)}
<1>1. 0 \in S
  <2> DEFINE f == [i \in 0..0 |-> driver]
  <2>1. StoresUpTo(f, 0)
    BY DEF StoresUpTo
  <2>2. QED
    BY <2>1, Zenon
<1>2. ASSUME NEW n \in Nat, n \in S PROVE n + 1 \in S
  <2>1. PICK f : StoresUpTo(f, n)
    BY <1>2
  <2>2. PICK w : w = StoreTurn(f[n], n)
    BY Zenon
  <2> DEFINE g == [i \in 0..(n + 1) |-> IF i = n + 1 THEN w ELSE f[i]]
  <2>3. ASSUME NEW i \in 0..n PROVE g[i + 1] = StoreTurn(g[i], i)
    <3>1. CASE i = n
      <4>1. n \in 0..(n + 1) /\ n + 1 \in 0..(n + 1) /\ n # n + 1
        OBVIOUS
      <4>2. g[n + 1] = w /\ g[n] = f[n]
        BY <4>1, Zenon
      <4>3. QED
        BY <2>2, <3>1, <4>2, Zenon
    <3>2. CASE i # n
      <4>1. i \in 0..(n - 1)
        BY <3>2
      <4>2. g[i] = f[i] /\ g[i + 1] = f[i + 1]
        BY <3>2
      <4>3. f[i + 1] = StoreTurn(f[i], i)
        BY <2>1, <4>1, Zenon DEF StoresUpTo
      <4>4. QED
        BY <4>2, <4>3, Zenon
    <3>3. QED
      BY <3>1, <3>2
  <2>4. StoresUpTo(g, n + 1)
    <3>1. g[0] = driver /\ g = [i \in 0..(n + 1) |-> g[i]]
      BY <2>1 DEF StoresUpTo
    <3>2. (n + 1) - 1 = n
      OBVIOUS
    <3>3. \A i \in 0..((n + 1) - 1) : g[i + 1] = StoreTurn(g[i], i)
      BY <2>3, <3>2, Zenon
    <3> HIDE DEF g
    <3>4. QED
      BY <3>1, <3>3, Zenon DEF StoresUpTo
  <2>5. \E h : StoresUpTo(h, n + 1)
    BY <2>4, Zenon
  <2>6. QED
    BY <2>5
<1>3. QED
  BY <1>1, <1>2, Induction

LEMMA StoresAgree ==
    ASSUME NEW m \in Nat, NEW n \in Nat, NEW f, NEW g, StoresUpTo(f, m), StoresUpTo(g, n),
           NEW i \in Nat, i <= m, i <= n
    PROVE  f[i] = g[i]
<1> DEFINE S == {k \in Nat : k <= m /\ k <= n => f[k] = g[k]}
<1>1. 0 \in S
  BY DEF StoresUpTo
<1>2. ASSUME NEW k \in Nat, k \in S PROVE k + 1 \in S
  <2> SUFFICES ASSUME k + 1 <= m, k + 1 <= n PROVE f[k + 1] = g[k + 1]
    OBVIOUS
  <2>1. f[k] = g[k] /\ k \in 0..(m - 1) /\ k \in 0..(n - 1)
    BY <1>2
  <2>2. QED
    BY <2>1, Zenon DEF StoresUpTo
<1>3. QED
  BY <1>1, <1>2, Induction

LEMMA StoredBelowIs ==
    StoredBelow = [n \in Nat |-> IF n = 0 THEN driver ELSE StoreTurn(StoredBelow[n - 1], n - 1)]
<1> DEFINE upTo(n) == CHOOSE f : StoresUpTo(f, n)
           G == [n \in Nat |-> upTo(n)[n]]
<1>1. \A n \in Nat : StoresUpTo(upTo(n), n)
  BY StoresExist, Zenon
<1> HIDE DEF upTo
<1>2. ASSUME NEW n \in Nat PROVE G[n] = IF n = 0 THEN driver ELSE StoreTurn(G[n - 1], n - 1)
  <2>1. CASE n = 0
    BY <1>1, <2>1 DEF StoresUpTo
  <2>2. CASE n # 0
    <3>1. n - 1 \in Nat /\ StoresUpTo(upTo(n), n) /\ StoresUpTo(upTo(n - 1), n - 1)
      BY <1>1, <2>2
    <3>2. upTo(n)[n - 1] = upTo(n - 1)[n - 1]
      BY <3>1, StoresAgree
    <3>3. n - 1 \in 0..(n - 1) /\ (n - 1) + 1 = n
      BY <2>2
    <3>4. upTo(n)[n] = StoreTurn(upTo(n)[n - 1], n - 1)
      BY <3>1, <3>3, Zenon DEF StoresUpTo
    <3>5. G[n] = upTo(n)[n] /\ G[n - 1] = upTo(n - 1)[n - 1]
      BY <3>1
    <3> HIDE DEF G
    <3>6. QED
      BY <2>2, <3>2, <3>4, <3>5, Zenon
  <2>3. QED
    BY <2>1, <2>2
<1>3. G = [n \in Nat |-> IF n = 0 THEN driver ELSE StoreTurn(G[n - 1], n - 1)]
  BY <1>2
<1>4. \E H : H = [n \in Nat |-> IF n = 0 THEN driver ELSE StoreTurn(H[n - 1], n - 1)]
  BY <1>3, Zenon
<1>5. QED
  BY <1>4, Zenon DEF StoredBelow

UndoesUpTo(f, n) ==
    /\ f = [i \in 0..n |-> f[i]]
    /\ f[0] = cache
    /\ \A i \in 0..(n - 1) : f[i + 1] = UndoTurn(f[i], TopRank - i)

LEMMA UndoesExist == \A n \in Nat : \E f : UndoesUpTo(f, n)
<1> DEFINE S == {n \in Nat : \E f : UndoesUpTo(f, n)}
<1>1. 0 \in S
  <2> DEFINE f == [i \in 0..0 |-> cache]
  <2>1. UndoesUpTo(f, 0)
    BY DEF UndoesUpTo
  <2>2. QED
    BY <2>1, Zenon
<1>2. ASSUME NEW n \in Nat, n \in S PROVE n + 1 \in S
  <2>1. PICK f : UndoesUpTo(f, n)
    BY <1>2
  <2>2. PICK w : w = UndoTurn(f[n], TopRank - n)
    BY Zenon
  <2> DEFINE g == [i \in 0..(n + 1) |-> IF i = n + 1 THEN w ELSE f[i]]
  <2>3. ASSUME NEW i \in 0..n PROVE g[i + 1] = UndoTurn(g[i], TopRank - i)
    <3>1. CASE i = n
      <4>1. n \in 0..(n + 1) /\ n + 1 \in 0..(n + 1) /\ n # n + 1
        OBVIOUS
      <4>2. g[n + 1] = w /\ g[n] = f[n]
        BY <4>1, Zenon
      <4>3. QED
        BY <2>2, <3>1, <4>2, Zenon
    <3>2. CASE i # n
      <4>1. i \in 0..(n - 1)
        BY <3>2
      <4>2. g[i] = f[i] /\ g[i + 1] = f[i + 1]
        BY <3>2
      <4>3. f[i + 1] = UndoTurn(f[i], TopRank - i)
        BY <2>1, <4>1, Zenon DEF UndoesUpTo
      <4>4. QED
        BY <4>2, <4>3, Zenon
    <3>3. QED
      BY <3>1, <3>2
  <2>4. UndoesUpTo(g, n + 1)
    <3>1. g[0] = cache /\ g = [i \in 0..(n + 1) |-> g[i]]
      BY <2>1 DEF UndoesUpTo
    <3>2. (n + 1) - 1 = n
      OBVIOUS
    <3>3. \A i \in 0..((n + 1) - 1) : g[i + 1] = UndoTurn(g[i], TopRank - i)
      BY <2>3, <3>2, Zenon
    <3> HIDE DEF g
    <3>4. QED
      BY <3>1, <3>3, Zenon DEF UndoesUpTo
  <2>5. \E h : UndoesUpTo(h, n + 1)
    BY <2>4, Zenon
  <2>6. QED
    BY <2>5
<1>3. QED
  BY <1>1, <1>2, Induction

LEMMA UndoesAgree ==
    ASSUME NEW m \in Nat, NEW n \in Nat, NEW f, NEW g, UndoesUpTo(f, m), UndoesUpTo(g, n),
           NEW i \in Nat, i <= m, i <= n
    PROVE  f[i] = g[i]
<1> DEFINE S == {k \in Nat : k <= m /\ k <= n => f[k] = g[k]}
<1>1. 0 \in S
  BY DEF UndoesUpTo
<1>2. ASSUME NEW k \in Nat, k \in S PROVE k + 1 \in S
  <2> SUFFICES ASSUME k + 1 <= m, k + 1 <= n PROVE f[k + 1] = g[k + 1]
    OBVIOUS
  <2>1. f[k] = g[k] /\ k \in 0..(m - 1) /\ k \in 0..(n - 1)
    BY <1>2
  <2>2. QED
    BY <2>1, Zenon DEF UndoesUpTo
<1>3. QED
  BY <1>1, <1>2, Induction

LEMMA UndoneFromTopIs ==
    UndoneFromTop = [n \in Nat |->
        IF n = 0 THEN cache ELSE UndoTurn(UndoneFromTop[n - 1], TopRank - (n - 1))]
<1> DEFINE upTo(n) == CHOOSE f : UndoesUpTo(f, n)
           G == [n \in Nat |-> upTo(n)[n]]
<1>1. \A n \in Nat : UndoesUpTo(upTo(n), n)
  BY UndoesExist, Zenon
<1> HIDE DEF upTo
<1>2. ASSUME NEW n \in Nat
      PROVE  G[n] = IF n = 0 THEN cache ELSE UndoTurn(G[n - 1], TopRank - (n - 1))
  <2>1. CASE n = 0
    BY <1>1, <2>1 DEF UndoesUpTo
  <2>2. CASE n # 0
    <3>1. n - 1 \in Nat /\ UndoesUpTo(upTo(n), n) /\ UndoesUpTo(upTo(n - 1), n - 1)
      BY <1>1, <2>2
    <3>2. upTo(n)[n - 1] = upTo(n - 1)[n - 1]
      BY <3>1, UndoesAgree
    <3>3. n - 1 \in 0..(n - 1) /\ (n - 1) + 1 = n
      BY <2>2
    <3>4. upTo(n)[n] = UndoTurn(upTo(n)[n - 1], TopRank - (n - 1))
      BY <3>1, <3>3, Zenon DEF UndoesUpTo
    <3>5. G[n] = upTo(n)[n] /\ G[n - 1] = upTo(n - 1)[n - 1]
      BY <3>1
    <3> HIDE DEF G
    <3>6. QED
      BY <2>2, <3>2, <3>4, <3>5, Zenon
  <2>3. QED
    BY <2>1, <2>2
<1>3. G = [n \in Nat |-> IF n = 0 THEN cache ELSE UndoTurn(G[n - 1], TopRank - (n - 1))]
  BY <1>2
<1>4. \E H : H = [n \in Nat |-> IF n = 0 THEN cache ELSE UndoTurn(H[n - 1], TopRank - (n - 1))]
  BY <1>3, Zenon
<1>5. QED
  BY <1>4, Zenon DEF UndoneFromTop

-----------------------------------------------------------------------------
(* The deltas that the loop of hard_apply() has written after n ranks.     *)
Below(n) == {g \in DOMAIN pending_deltas : Rank[g] < n}

(* What the last writer of k among the deltas of S leaves under it.        *)
AppliedOf(S, k) ==
    IF Writers(S, k) = {} THEN driver[k]
    ELSE IF Guarded
         THEN FSSafeSet(driver, k, Post(Last(Writers(S, k)), k), Nanos[Last(Writers(S, k))])
         ELSE FSSetPlain(driver, k, Post(Last(Writers(S, k)), k))

(* Each rank has one delta or none.                                        *)
LEMMA RankedAtOne ==
    ASSUME TypeOK, NEW n \in Int, RankedAt(n) # {}
    PROVE  \E g \in DOMAIN pending_deltas :
             g \in Hlcs /\ Rank[g] = n /\ RankedAt(n) = {g} /\ First(RankedAt(n)) = g
<1>1. RankedAt(n) \in SUBSET Hlcs
  BY DeltaType DEF RankedAt
<1>2. PICK g \in RankedAt(n) : TRUE
  OBVIOUS
<1>3. g \in DOMAIN pending_deltas /\ g \in Hlcs /\ Rank[g] = n
  BY <1>1, <1>2 DEF RankedAt
<1>4. RankedAt(n) = {g}
  BY <1>1, <1>3, HlcAssumption DEF RankedAt
<1>5. First(RankedAt(n)) \in RankedAt(n)
  BY <1>1, FirstLast
<1>6. QED
  BY <1>3, <1>4, <1>5

(* A newer delta is the last writer of its keys.                           *)
LEMMA NewestWrites ==
    ASSUME TypeOK, NEW n \in Int, NEW g \in DOMAIN pending_deltas, g \in Hlcs, Rank[g] = n,
           NEW k
    PROVE  /\ k \in DOMAIN pending_deltas[g] =>
                Writers(Below(n) \cup {g}, k) # {} /\ Last(Writers(Below(n) \cup {g}, k)) = g
           /\ k \notin DOMAIN pending_deltas[g] =>
                Writers(Below(n) \cup {g}, k) = Writers(Below(n), k)
<1> DEFINE W == Writers(Below(n) \cup {g}, k)
<1>1. CASE k \notin DOMAIN pending_deltas[g]
  BY <1>1 DEF Writers
<1>2. CASE k \in DOMAIN pending_deltas[g]
  <2>1. g \in W /\ W \in SUBSET Hlcs /\ \A x \in W : x = g \/ Rank[x] < n
    BY <1>2, DeltaType DEF Writers, Below
  <2>2. Last(W) \in W /\ Rank[g] <= Rank[Last(W)]
    BY <2>1, FirstLast
  <2>3. Rank[Last(W)] \in Int
    BY <2>1, <2>2, HlcAssumption
  <2>4. Last(W) = g
    BY <2>1, <2>2, <2>3
  <2>5. QED
    BY <1>2, <2>1, <2>4
<1>3. QED
  BY <1>1, <1>2

(* The driver refuses a delta on top of the earlier ones exactly if it     *)
(* would refuse it without them.                                           *)
LEMMA EarlierDoNotRefuse ==
    ASSUME TypeOK, NEW n \in Nat, NEW g \in Hlcs, Rank[g] = n, NEW k \in Keys,
           NEW store, store[k] = AppliedOf(Below(n), k), NEW v
    PROVE  /\ Guarded => FSSafeSet(store, k, v, Nanos[g]) = FSSafeSet(driver, k, v, Nanos[g])
           /\ ~Guarded => FSSetPlain(store, k, v) = FSSetPlain(driver, k, v)
<1>1. CASE Writers(Below(n), k) = {}
  BY <1>1 DEF AppliedOf, FSSafeSet, FSSetPlain
<1>2. CASE Writers(Below(n), k) # {}
  <2>1. Below(n) \in SUBSET DOMAIN pending_deltas
    BY DEF Below
  <2>2. PICK w : w = Last(Writers(Below(n), k))
    BY Zenon
  <2>3. w \in Below(n) /\ w \in Hlcs /\ Rank[w] < Rank[g]
    BY <1>2, <2>1, <2>2, WritersIn, DeltaType DEF Writers, Below
  <2>4. Nanos[w] <= Nanos[g] /\ Nanos[w] \in Nat /\ Nanos[g] \in Nat
    BY <2>3, HlcAssumption
  <2>5. driver[k].block \in Int
    BY DEF TypeOK, Store
  <2>6. store[k] = IF Guarded THEN FSSafeSet(driver, k, Post(w, k), Nanos[w])
                   ELSE FSSetPlain(driver, k, Post(w, k))
    BY <1>2, <2>2, Zenon DEF AppliedOf
  <2>7. QED
    BY <2>4, <2>5, <2>6 DEF FSSafeSet, FSSetPlain
<1>3. QED
  BY <1>1, <1>2

(* After n ranks the loop of hard_apply() has written, under each key,     *)
(* what the last of its writers leaves.                                    *)
LEMMA StoredBelowLast ==
    ASSUME TypeOK
    PROVE  \A n \in Nat : StoredBelow[n] = [k \in Keys |-> AppliedOf(Below(n), k)]
<1> DEFINE S == {n \in Nat : StoredBelow[n] = [k \in Keys |-> AppliedOf(Below(n), k)]}
<1>1. 0 \in S
  <2>1. StoredBelow[0] = driver
    BY StoredBelowIs, Zenon
  <2>2. Below(0) = {}
    BY DeltaType, HlcAssumption DEF Below
  <2>3. \A k \in Keys : AppliedOf(Below(0), k) = driver[k]
    BY <2>2 DEF AppliedOf, Writers
  <2>4. driver = [k \in Keys |-> driver[k]]
    BY DEF TypeOK, Store
  <2>5. QED
    BY <2>1, <2>3, <2>4
<1>2. ASSUME NEW n \in Nat, n \in S PROVE n + 1 \in S
  <2>1. PICK store : store = StoredBelow[n]
    BY Zenon
  <2>2. store = [k \in Keys |-> AppliedOf(Below(n), k)]
    BY <1>2, <2>1
  <2>3. n + 1 \in Nat /\ n + 1 # 0 /\ (n + 1) - 1 = n
    OBVIOUS
  <2>4. StoredBelow[n + 1] = StoreTurn(store, n)
    BY <2>1, <2>3, StoredBelowIs, Zenon
  <2>5. StoreTurn(store, n) = [k \in Keys |-> AppliedOf(Below(n + 1), k)]
    <3>1. CASE RankedAt(n) = {}
      <4>1. Below(n + 1) = Below(n)
        BY <3>1, DeltaType, HlcAssumption DEF Below, RankedAt
      <4>2. QED
        BY <2>2, <3>1, <4>1 DEF StoreTurn
    <3>2. CASE RankedAt(n) # {}
      <4>1. PICK g \in DOMAIN pending_deltas :
              g \in Hlcs /\ Rank[g] = n /\ RankedAt(n) = {g} /\ First(RankedAt(n)) = g
        BY <3>2, RankedAtOne
      <4>2. Below(n + 1) = Below(n) \cup {g}
        BY <4>1, DeltaType, HlcAssumption DEF Below, RankedAt
      <4>3. StoreTurn(store, n) = StoreDelta(store, g)
        BY <3>2, <4>1, Zenon DEF StoreTurn
      <4>4. ASSUME NEW k \in Keys
            PROVE  StoreDelta(store, g)[k] = AppliedOf(Below(n) \cup {g}, k)
        <5>1. store[k] = AppliedOf(Below(n), k)
          BY <2>2
        <5>2. CASE k \notin DOMAIN pending_deltas[g]
          <6>1. StoreDelta(store, g)[k] = store[k]
            BY <5>2 DEF StoreDelta
          <6>2. Writers(Below(n) \cup {g}, k) = Writers(Below(n), k)
            BY <4>1, <5>2, NewestWrites
          <6>3. QED
            BY <5>1, <6>1, <6>2, Zenon DEF AppliedOf
        <5>3. CASE k \in DOMAIN pending_deltas[g]
          <6>1. Writers(Below(n) \cup {g}, k) # {} /\ Last(Writers(Below(n) \cup {g}, k)) = g
            BY <4>1, <5>3, NewestWrites
          <6>2. AppliedOf(Below(n) \cup {g}, k) =
                  IF Guarded THEN FSSafeSet(driver, k, Post(g, k), Nanos[g])
                  ELSE FSSetPlain(driver, k, Post(g, k))
            BY <6>1, Zenon DEF AppliedOf
          <6>3. StoreDelta(store, g)[k] =
                  IF Guarded THEN FSSafeSet(store, k, Post(g, k), Nanos[g])
                  ELSE FSSetPlain(store, k, Post(g, k))
            BY <5>3 DEF StoreDelta
          <6>4. QED
            BY <4>1, <5>1, <6>2, <6>3, EarlierDoNotRefuse
        <5>4. QED
          BY <5>2, <5>3
      <4>5. StoreDelta(store, g) = [k \in Keys |-> StoreDelta(store, g)[k]]
        BY DEF StoreDelta
      <4>6. QED
        BY <4>2, <4>3, <4>4, <4>5
    <3>3. QED
      BY <3>1, <3>2
  <2>6. QED
    BY <2>3, <2>4, <2>5
<1> HIDE DEF S
<1>3. Nat \subseteq S
  BY <1>1, <1>2, Induction
<1> USE DEF S
<1>4. QED
  BY <1>3, Zenon

(* The deltas that the loop of rollback() has undone after n ranks, and    *)
(* what it leaves of the values that they recorded.                        *)
Above(n) == {g \in DOMAIN pending_deltas : Rank[g] > TopRank - n}

UndoneOf(S) ==
    [k \in {x \in Keys : Writers(S, x) # {}} |-> Pre(First(Writers(S, k)), k)]

(* An older delta is the first writer of its keys.                         *)
LEMMA OldestWrote ==
    ASSUME TypeOK, NEW n \in Nat, NEW g \in DOMAIN pending_deltas, g \in Hlcs,
           TopRank \in Nat, Rank[g] = TopRank - n, NEW k
    PROVE  /\ k \in DOMAIN pending_deltas[g] =>
                Writers(Above(n) \cup {g}, k) # {} /\ First(Writers(Above(n) \cup {g}, k)) = g
           /\ k \notin DOMAIN pending_deltas[g] =>
                Writers(Above(n) \cup {g}, k) = Writers(Above(n), k)
<1> DEFINE W == Writers(Above(n) \cup {g}, k)
<1>1. CASE k \notin DOMAIN pending_deltas[g]
  BY <1>1 DEF Writers
<1>2. CASE k \in DOMAIN pending_deltas[g]
  <2>1. g \in W /\ W \in SUBSET Hlcs /\ \A x \in W : x = g \/ Rank[x] > TopRank - n
    BY <1>2, DeltaType DEF Writers, Above
  <2>2. PICK u : u = First(W)
    BY Zenon
  <2>3. u \in W /\ Rank[u] <= Rank[g]
    BY <2>1, <2>2, FirstLast
  <2>4. Rank[u] \in Nat /\ Rank[g] \in Nat
    BY <2>1, <2>3, HlcAssumption
  <2>5. ~(Rank[u] > TopRank - n)
    BY <2>3, <2>4
  <2>6. u = g
    BY <2>1, <2>3, <2>5, Zenon
  <2>7. QED
    BY <1>2, <2>1, <2>2, <2>6, Zenon
<1>3. QED
  BY <1>1, <1>2

(* Undoing an older delta on top of the newer ones.                        *)
LEMMA UndoOneMore ==
    ASSUME TypeOK, NEW n \in Nat, NEW g \in DOMAIN pending_deltas, g \in Hlcs,
           TopRank \in Nat, Rank[g] = TopRank - n
    PROVE  UndoDelta(Update(cache, UndoneOf(Above(n))), g)
             = Update(cache, UndoneOf(Above(n) \cup {g}))
<1> DEFINE A == Above(n)
           B == Above(n) \cup {g}
           own == [k \in DOMAIN pending_deltas[g] |-> Pre(g, k)]
<1>1. PICK a : a = UndoneOf(A)
  BY Zenon
<1>2. PICK b : b = UndoneOf(B)
  BY Zenon
<1>3. /\ DOMAIN a = {x \in Keys : Writers(A, x) # {}}
      /\ \A k \in DOMAIN a : a[k] = Pre(First(Writers(A, k)), k)
  BY <1>1, Zenon DEF UndoneOf
<1>4. /\ DOMAIN b = {x \in Keys : Writers(B, x) # {}}
      /\ \A k \in DOMAIN b : b[k] = Pre(First(Writers(B, k)), k)
  BY <1>2, Zenon DEF UndoneOf
<1>5. DOMAIN pending_deltas[g] \subseteq Keys
  BY DeltaType
<1>6. ASSUME NEW k \in DOMAIN pending_deltas[g]
      PROVE  k \in DOMAIN b /\ b[k] = Pre(g, k)
  <2>1. Writers(B, k) # {} /\ First(Writers(B, k)) = g
    BY <1>6, OldestWrote
  <2>2. k \in Keys
    BY <1>5, <1>6
  <2>3. QED
    BY <1>4, <2>1, <2>2
<1>7. ASSUME NEW k, k \notin DOMAIN pending_deltas[g]
      PROVE  (k \in DOMAIN b <=> k \in DOMAIN a) /\ (k \in DOMAIN a => b[k] = a[k])
  <2>1. Writers(B, k) = Writers(A, k)
    BY <1>7, OldestWrote
  <2>2. QED
    BY <1>3, <1>4, <2>1
<1>8. PICK r : r = Update(cache, a)
  BY Zenon
<1>9. UndoDelta(r, g) = Update(r, own)
  BY DEF UndoDelta
<1>10. Update(Update(cache, a), own) = Update(cache, b)
  BY <1>6, <1>7 DEF Update
<1>11. QED
  BY <1>1, <1>2, <1>8, <1>9, <1>10, Zenon

LEMMA UndoneFromTopIsFirst ==
    ASSUME TypeOK, DOMAIN pending_deltas # {}
    PROVE  \A n \in Nat : UndoneFromTop[n] = Update(cache, UndoneOf(Above(n)))
<1> DEFINE S == {n \in Nat : UndoneFromTop[n] = Update(cache, UndoneOf(Above(n)))}
<1>1. /\ TopRank \in Nat
      /\ \A g \in DOMAIN pending_deltas : g \in Hlcs /\ Rank[g] \in Nat /\ Rank[g] <= TopRank
  <2>1. DOMAIN pending_deltas \in SUBSET Hlcs
    BY DeltaType
  <2>2. QED
    BY <2>1, FirstLast, HlcAssumption DEF TopRank
<1>2. 0 \in S
  <2>1. UndoneFromTop[0] = cache
    BY UndoneFromTopIs, Zenon
  <2>2. Above(0) = {}
    BY <1>1 DEF Above
  <2>3. UndoneOf(Above(0)) = [k \in {} |-> Pre(First(Writers({}, k)), k)]
    BY <2>2 DEF UndoneOf, Writers
  <2>4. cache = [k \in DOMAIN cache |-> cache[k]]
    BY DictElim DEF TypeOK
  <2>5. Update(cache, UndoneOf(Above(0))) = cache
    BY <2>3, <2>4 DEF Update
  <2>6. QED
    BY <2>1, <2>5
<1>3. ASSUME NEW n \in Nat, n \in S PROVE n + 1 \in S
  <2>1. PICK dict : dict = UndoneFromTop[n]
    BY Zenon
  <2>2. dict = Update(cache, UndoneOf(Above(n)))
    BY <1>3, <2>1
  <2>3. n + 1 \in Nat /\ n + 1 # 0 /\ (n + 1) - 1 = n
    OBVIOUS
  <2>4. UndoneFromTop[n + 1] = UndoTurn(dict, TopRank - n)
    BY <2>1, <2>3, UndoneFromTopIs, Zenon
  <2>5. TopRank - n \in Int
    BY <1>1
  <2>6. UndoTurn(dict, TopRank - n) = Update(cache, UndoneOf(Above(n + 1)))
    <3>1. CASE RankedAt(TopRank - n) = {}
      <4>1. Above(n + 1) = Above(n)
        BY <1>1, <3>1 DEF Above, RankedAt
      <4>2. QED
        BY <2>2, <3>1, <4>1, Zenon DEF UndoTurn
    <3>2. CASE RankedAt(TopRank - n) # {}
      <4>1. PICK m : m = TopRank - n
        BY Zenon
      <4>2. PICK g \in DOMAIN pending_deltas :
              g \in Hlcs /\ Rank[g] = m /\ RankedAt(m) = {g} /\ First(RankedAt(m)) = g
        BY <2>5, <3>2, <4>1, RankedAtOne
      <4>3. Above(n + 1) = Above(n) \cup {g}
        BY <1>1, <4>1, <4>2 DEF Above, RankedAt
      <4>4. UndoTurn(dict, m) = UndoDelta(dict, g)
        BY <3>2, <4>1, <4>2, Zenon DEF UndoTurn
      <4>5. UndoDelta(dict, g) = Update(cache, UndoneOf(Above(n) \cup {g}))
        BY <1>1, <2>2, <4>1, <4>2, UndoOneMore
      <4>6. QED
        BY <4>1, <4>3, <4>4, <4>5, Zenon
    <3>3. QED
      BY <3>1, <3>2
  <2>7. QED
    BY <2>3, <2>4, <2>6
<1> HIDE DEF S
<1>4. Nat \subseteq S
  BY <1>2, <1>3, Induction
<1> USE DEF S
<1>5. QED
  BY <1>4, Zenon

LEMMA ClosedFormsFromTypes == TypeOK => ClosedFormsAreTheLoops
<1> SUFFICES ASSUME TypeOK PROVE ClosedFormsAreTheLoops
  OBVIOUS
<1>1. ASSUME NEW h \in DOMAIN pending_deltas
      PROVE  [k \in Keys |-> ApplyUpTo(h, k)] = StoredBelow[Rank[h] + 1]
  <2>1. Rank[h] + 1 \in Nat /\ UpTo(h) = Below(Rank[h] + 1)
    BY <1>1, DeltaType, HlcAssumption DEF UpTo, Below
  <2>2. ASSUME NEW k \in Keys PROVE ApplyUpTo(h, k) = AppliedOf(UpTo(h), k)
    BY Zenon DEF ApplyUpTo, AppliedOf
  <2>3. StoredBelow[Rank[h] + 1] = [k \in Keys |-> AppliedOf(UpTo(h), k)]
    BY <2>1, StoredBelowLast, Zenon
  <2>4. QED
    BY <2>2, <2>3
<1>2. ASSUME NEW h \in Hlcs, DOMAIN pending_deltas # {}, Rank[h] <= TopRank
      PROVE  Update(cache, RolledBack(h)) = UndoneFromTop[TopRank - Rank[h] + 1]
  <2>1. DOMAIN pending_deltas \in SUBSET Hlcs
    BY DeltaType
  <2>2. TopRank \in Nat /\ Rank[h] \in Nat
    BY <1>2, <2>1, FirstLast, HlcAssumption DEF TopRank
  <2>3. TopRank - Rank[h] + 1 \in Nat /\ From(h) = Above(TopRank - Rank[h] + 1)
    BY <1>2, <2>1, <2>2, HlcAssumption DEF From, Above
  <2>4. RolledBack(h) = UndoneOf(From(h))
    BY Zenon DEF RolledBack, UndoneOf
  <2>5. QED
    BY <1>2, <2>3, <2>4, UndoneFromTopIsFirst, Zenon
<1>3. \A h \in DOMAIN pending_deltas :
        [k \in Keys |-> ApplyUpTo(h, k)] = StoredBelow[Rank[h] + 1]
  BY <1>1, Zenon
<1>4. \A h \in Hlcs : DOMAIN pending_deltas # {} /\ Rank[h] <= TopRank =>
        Update(cache, RolledBack(h)) = UndoneFromTop[TopRank - Rank[h] + 1]
  BY <1>2, Zenon
<1>5. QED
  BY <1>3, <1>4, Zenon DEF ClosedFormsAreTheLoops

(* Whatever was soft applied under whatever time stamps, hard_apply()'s    *)
(* loop leaves under each key what the last writer up to h makes of it,    *)
(* and rollback()'s loop what the oldest writer from h on recorded.        *)
THEOREM LoopsHaveClosedForms == Spec => []ClosedFormsAreTheLoops
<1>1. QED
  BY ClosedFormsFromTypes, TypeCorrect, PTL

-----------------------------------------------------------------------------
(* What one call does to the keys, from the types alone.                   *)

LEMMA CommitStep ==
    ASSUME Commit, NEW k \in Keys \ LongKeys,
           NoDeletion(cache, k), NoDeletion(pending_writes, k)
    PROVE  driver'[k].value = Find(k) /\ Find(k)' = Find(k)
<1> DEFINE all == Update(cache, pending_writes)
<1>1. driver'[k] = Committed(k)
  BY DEF Commit
<1>2. /\ DOMAIN all = DOMAIN cache \cup DOMAIN pending_writes
      /\ k \in DOMAIN all =>
           all[k] = IF k \in DOMAIN pending_writes THEN pending_writes[k] ELSE cache[k]
  BY DEF Update
<1>3. Find(k) = IF k \in DOMAIN all THEN all[k] ELSE driver[k].value
  BY <1>2 DEF Find, FindApplied, Lookup, FSGet, NoDeletion
<1>4. k \in DOMAIN all => all[k] # None
  BY <1>2 DEF NoDeletion
<1>5. driver'[k].value = Find(k)
  BY <1>1, <1>3, <1>4 DEF Committed, FSSetPlain
<1>6. cache' = EmptyDict /\ pending_writes' = EmptyDict
  BY DEF Commit, ClearTopCache
<1>7. Find(k)' = driver'[k].value
  BY <1>6 DEF Find, FindApplied, Lookup, FSGet, EmptyDict
<1>8. QED
  BY <1>5, <1>7

LEMMA BustStep ==
    ASSUME NEW S \in SUBSET Keys, BustCache(S),
           NEW h \in DOMAIN pending_deltas, NEW k \in DOMAIN pending_deltas[h]
    PROVE  FindApplied(k)' = FindApplied(k)
<1>1. h \in Writers(DOMAIN pending_deltas, k)
  BY DEF Writers
<1>2. Lookup(cache', k) = Lookup(cache, k)
  BY <1>1 DEF BustCache, Without, Lookup
<1>3. k \in DOMAIN cache' => cache'[k] = cache[k]
  BY DEF BustCache, Without
<1>4. FSGet(driver', k) = FSGet(driver, k)
  BY DEF BustCache
<1>5. Lookup(cache', k) # None => cache'[k] = Lookup(cache', k)
  BY DEF Lookup
<1>6. Lookup(cache, k) # None => cache[k] = Lookup(cache, k)
  BY DEF Lookup
<1>7. QED
  BY <1>2, <1>4, <1>5, <1>6 DEF FindApplied, Lookup

(* safe_set leaves an entry or a later one, if it is told a block number.  *)
LEMMA SafeSetKeepsNewer ==
    ASSUME NEW store \in Store, NEW k \in Keys, NEW v, NEW b \in Int
    PROVE  \/ FSSafeSet(store, k, v, b) = store[k]
           \/ FSSafeSet(store, k, v, b).block >= store[k].block
<1>1. store[k].block \in Int
  BY DEF Store
<1>2. QED
  BY <1>1 DEF FSSafeSet

LEMMA HardApplyStep ==
    ASSUME TypeOK, NEW h \in Hlcs, Guarded, Nanos[h] > 0, HardApply(h) \/ HardApplyOne(h),
           NEW k \in Keys
    PROVE  driver'[k] = driver[k] \/ driver'[k].block >= driver[k].block
<1>1. driver \in Store
  BY DEF TypeOK
<1>2. CASE HardApply(h)
  <2> DEFINE w == Last(Writers(UpTo(h), k))
  <2>1. driver'[k] = ApplyUpTo(h, k)
    BY <1>2 DEF HardApply
  <2>2. CASE Writers(UpTo(h), k) = {}
    BY <2>1, <2>2 DEF ApplyUpTo
  <2>3. CASE Writers(UpTo(h), k) # {}
    <3>1. UpTo(h) \in SUBSET DOMAIN pending_deltas
      BY DEF UpTo
    <3>2. w \in Writers(UpTo(h), k)
      BY <2>3, <3>1, WritersIn
    <3>3. w \in Hlcs
      BY <3>1, <3>2, DeltaType DEF Writers
    <3>4. Nanos[w] \in Int
      BY <3>3, HlcAssumption
    <3>5. driver'[k] = FSSafeSet(driver, k, Post(w, k), Nanos[w])
      BY <2>1, <2>3 DEF ApplyUpTo
    <3>6. QED
      BY <1>1, <3>4, <3>5, SafeSetKeepsNewer
  <2>4. QED
    BY <2>2, <2>3
<1>3. CASE HardApplyOne(h)
  <2>1. driver'[k] = ApplyOnly(h, k)
    BY <1>3 DEF HardApplyOne
  <2>2. Nanos[h] \in Int /\ Nanos[h] # 0
    BY HlcAssumption
  <2>3. \/ driver'[k] = driver[k]
        \/ driver'[k] = FSSafeSet(driver, k, Post(h, k), Nanos[h])
    BY <2>1, <2>2 DEF ApplyOnly, FSSetInt
  <2>4. QED
    BY <1>1, <2>2, <2>3, SafeSetKeepsNewer
<1>4. QED
  BY <1>2, <1>3

-----------------------------------------------------------------------------
(* commit() makes durable what the transaction reads, for every key that   *)
(* nothing deletes, in whichever of the layers its value is.               *)
THEOREM CommitIsDurable == Spec => CommitMakesReadsDurable
<1>1. [Commit => \A k \in Keys \ LongKeys :
         NoDeletion(cache, k) /\ NoDeletion(pending_writes, k)
           => /\ driver'[k].value = Find(k)
              /\ Find(k)' = Find(k)]_vars
  BY CommitStep
<1>2. QED
  BY <1>1, PTL DEF CommitMakesReadsDurable

(* bust_cache(), of any keys, leaves what the pending deltas write visible *)
(* to the next transaction.                                                *)
THEOREM BustingHidesNothing == Spec => BustKeepsPending
<1>1. [\A S \in SUBSET Keys : BustCache(S) =>
         \A h \in DOMAIN pending_deltas : \A k \in DOMAIN pending_deltas[h] :
           FindApplied(k)' = FindApplied(k)]_vars
  BY BustStep
<1>2. QED
  BY <1>1, PTL DEF BustKeepsPending

(* No hard apply, of any number of deltas in any order, puts an older      *)
(* value in the place of a newer one.                                      *)
THEOREM NewerIsKept == Spec => HardApplyKeepsNewer
<1>1. TypeOK /\ TypeOK' /\ [Next]_vars =>
        [\A h \in Hlcs : Guarded /\ Nanos[h] > 0 /\ (HardApply(h) \/ HardApplyOne(h)) =>
           \A k \in Keys : driver'[k] = driver[k] \/ driver'[k].block >= driver[k].block]_vars
  BY HardApplyStep
<1>2. QED
  BY <1>1, TypeCorrect, PTL DEF Spec, HardApplyKeepsNewer

-----------------------------------------------------------------------------
(* The value of k in a store with the deltas of S on top of it.            *)
WritersOf(deltas, S, k) == {h \in S : k \in DOMAIN deltas[h]}

TopOf(store, deltas, S, k) ==
    IF WritersOf(deltas, S, k) = {} THEN store[k].value
    ELSE deltas[Last(WritersOf(deltas, S, k))][k][2]

Top(S, k) == TopOf(driver, pending_deltas, S, k)

Older(h) == {g \in DOMAIN pending_deltas : Rank[g] < Rank[h]}

(* LedgerInv with Top in the place of L!Over.                              *)
CacheIsTop ==
    \A k \in Keys : IF k \in DOMAIN cache THEN cache[k] = Top(DOMAIN pending_deltas, k)
                    ELSE WritersOf(pending_deltas, DOMAIN pending_deltas, k) = {}

ImageIsTop ==
    \A k \in Keys : Lookup(pending_reads, k) # None \/ k \in DOMAIN pending_writes
                    => Lookup(pending_reads, k) = Top(DOMAIN pending_deltas, k)

ImagesAreTop ==
    \A h \in DOMAIN pending_deltas : \A k \in DOMAIN pending_deltas[h] :
      pending_deltas[h][k][1] = Top(Older(h), k)

TopInv ==
    /\ TypeOK
    /\ ValuesOnly
    /\ CacheIsTop
    /\ ImageIsTop
    /\ ImagesAreTop
    /\ NoneRefused

-----------------------------------------------------------------------------
(* The order of the time stamps has one first and one last element.        *)
LEMMA LastUnique ==
    ASSUME NEW S \in SUBSET Hlcs, NEW h \in S, \A g \in S : Rank[g] <= Rank[h]
    PROVE  Last(S) = h
<1>1. Last(S) \in S /\ \A g \in S : Rank[g] <= Rank[Last(S)]
  BY FirstLast
<1>2. Rank[Last(S)] = Rank[h]
  BY <1>1, HlcAssumption
<1>3. QED
  BY <1>1, <1>2, HlcAssumption

LEMMA NewestIsLast ==
    ASSUME Protocol, NEW S \in SUBSET Hlcs, S # {}
    PROVE  L!Newest(S) = Last(S)
<1>1. Last(S) \in S /\ \A g \in S : Rank[g] <= Rank[Last(S)]
  BY FirstLast
<1>2. \A g \in S : Time[g] <= Time[Last(S)]
  BY <1>1, HlcAssumption, TimeAssumption DEF Protocol
<1>3. L!Newest(S) \in S /\ \A g \in S : Time[g] <= Time[L!Newest(S)]
  BY <1>1, <1>2 DEF L!Newest
<1>4. \A g \in S : Rank[g] <= Rank[L!Newest(S)]
  BY <1>3, HlcAssumption, TimeAssumption DEF Protocol
<1>5. QED
  BY <1>3, <1>4, LastUnique

(* The ledger's reading of the state is Top.                               *)
LEMMA OverIsTop ==
    ASSUME Protocol, TypeOK, NEW S \in SUBSET DOMAIN pending_deltas, NEW k \in Keys
    PROVE  L!Over(S, k) = Top(S, k)
<1> DEFINE W == WritersOf(pending_deltas, S, k)
<1>1. L!WritersOf(S, k) = W
  BY DEF L!WritersOf, WritersOf
<1>2. W \in SUBSET Hlcs
  BY DictElim, IsDictIsDict DEF WritersOf, TypeOK
<1>3. CASE W = {}
  BY <1>1, <1>3 DEF L!Over, Top, TopOf
<1>4. CASE W # {}
  <2>1. Last(W) \in W
    BY <1>2, <1>4, FirstLast
  <2>2. L!Newest(L!WritersOf(S, k)) = Last(W)
    BY <1>1, <1>2, <1>4, NewestIsLast
  <2>3. Last(W) \in DOMAIN pending_deltas /\ k \in DOMAIN pending_deltas[Last(W)]
    BY <2>1 DEF WritersOf
  <2>4. L!Over(S, k) = Post(Last(W), k)
    BY <1>1, <1>4, <2>2, <2>3 DEF L!Over
  <2>5. QED
    BY <1>4, <2>4 DEF Top, TopOf, Post
<1>5. QED
  BY <1>3, <1>4

-----------------------------------------------------------------------------
(* How Top changes with the deltas.                                        *)

(* A delta on top of the others is not seen below it.                      *)
LEMMA TopBelow ==
    ASSUME NEW store, NEW deltas \in Dict(Hlcs, Delta), NEW h \in Hlcs, h \notin DOMAIN deltas,
           NEW d, NEW k, NEW S \in SUBSET DOMAIN deltas
    PROVE  /\ WritersOf(Put(deltas, h, d), S, k) = WritersOf(deltas, S, k)
           /\ TopOf(store, Put(deltas, h, d), S, k) = TopOf(store, deltas, S, k)
<1> DEFINE new == Put(deltas, h, d)
<1>1. DOMAIN deltas \subseteq Hlcs
  BY DictElim
<1>2. \A g \in DOMAIN deltas : new[g] = deltas[g]
  BY DEF Put
<1>3. WritersOf(new, S, k) = WritersOf(deltas, S, k)
  BY <1>2 DEF WritersOf
<1>4. CASE WritersOf(deltas, S, k) = {}
  BY <1>3, <1>4 DEF TopOf
<1>5. CASE WritersOf(deltas, S, k) # {}
  <2>1. Last(WritersOf(deltas, S, k)) \in S
    BY <1>1, <1>5, FirstLast DEF WritersOf
  <2>2. QED
    BY <1>2, <1>3, <1>5, <2>1 DEF TopOf
<1>6. QED
  BY <1>3, <1>4, <1>5

(* It decides the keys that it writes, and no others.                      *)
LEMMA TopPut ==
    ASSUME NEW store, NEW deltas \in Dict(Hlcs, Delta), NEW h \in Hlcs, NEW d \in Delta,
           \A g \in DOMAIN deltas : Rank[g] < Rank[h], NEW k
    PROVE  TopOf(store, Put(deltas, h, d), DOMAIN deltas \cup {h}, k)
             = IF k \in DOMAIN d THEN d[k][2] ELSE TopOf(store, deltas, DOMAIN deltas, k)
<1> DEFINE new == Put(deltas, h, d)
           S0 == DOMAIN deltas
           W == WritersOf(new, S0 \cup {h}, k)
<1>0. S0 \subseteq Hlcs
  BY DictElim
<1>1. h \notin S0
  BY <1>0, HlcAssumption
<1>2. new[h] = d
  BY DEF Put
<1>3. CASE k \notin DOMAIN d
  <2>1. W = WritersOf(new, S0, k)
    BY <1>2, <1>3 DEF WritersOf
  <2>2. TopOf(store, new, S0 \cup {h}, k) = TopOf(store, new, S0, k)
    BY <2>1 DEF TopOf
  <2>3. QED
    BY <1>1, <1>3, <2>2, TopBelow
<1>4. CASE k \in DOMAIN d
  <2>1. h \in W /\ W \in SUBSET Hlcs
    BY <1>0, <1>2, <1>4 DEF WritersOf
  <2>2. \A g \in W : Rank[g] <= Rank[h]
    BY <1>0, HlcAssumption DEF WritersOf
  <2>3. Last(W) = h
    BY <2>1, <2>2, LastUnique
  <2>4. QED
    BY <1>2, <1>4, <2>1, <2>3 DEF TopOf
<1>5. QED
  BY <1>3, <1>4

(* Moving the oldest deltas U into the store leaves the sum unchanged.     *)
LEMMA TopFold ==
    ASSUME NEW store, NEW new, NEW deltas \in Dict(Hlcs, Delta), NEW k,
           NEW S \in SUBSET DOMAIN deltas, NEW U \in SUBSET S,
           \A u \in U : \A g \in S \ U : Rank[u] < Rank[g],
           new[k].value = TopOf(store, deltas, U, k)
    PROVE  TopOf(new, Without(deltas, U), S \ U, k) = TopOf(store, deltas, S, k)
<1> DEFINE rest == Without(deltas, U)
           W == WritersOf(deltas, S \ U, k)
<1>0. DOMAIN deltas \subseteq Hlcs
  BY DictElim
<1>1. \A g \in S \ U : rest[g] = deltas[g]
  BY DEF Without
<1>2. WritersOf(rest, S \ U, k) = W
  BY <1>1 DEF WritersOf
<1>3. CASE W = {}
  <2>1. WritersOf(deltas, S, k) = WritersOf(deltas, U, k)
    BY <1>3 DEF WritersOf
  <2>2. QED
    BY <1>2, <1>3, <2>1 DEF TopOf
<1>4. CASE W # {}
  <2>1. W \in SUBSET Hlcs /\ WritersOf(deltas, S, k) \in SUBSET Hlcs
    BY <1>0 DEF WritersOf
  <2>2. Last(W) \in W /\ \A g \in W : Rank[g] <= Rank[Last(W)]
    BY <1>4, <2>1, FirstLast
  <2>3. \A g \in WritersOf(deltas, S, k) : Rank[g] <= Rank[Last(W)]
    BY <2>1, <2>2, HlcAssumption DEF WritersOf
  <2>4. Last(W) \in WritersOf(deltas, S, k)
    BY <2>2 DEF WritersOf
  <2>5. Last(WritersOf(deltas, S, k)) = Last(W)
    BY <2>1, <2>3, <2>4, LastUnique
  <2>6. rest[Last(W)] = deltas[Last(W)]
    BY <1>1, <2>2 DEF WritersOf
  <2>7. QED
    BY <1>2, <1>4, <2>4, <2>5, <2>6 DEF TopOf
<1>5. QED
  BY <1>3, <1>4

(* Dropping deltas that are not in S leaves Top over S unchanged.          *)
LEMMA TopDrop ==
    ASSUME NEW store, NEW deltas \in Dict(Hlcs, Delta), NEW k,
           NEW U, NEW S \in SUBSET (DOMAIN deltas \ U)
    PROVE  TopOf(store, Without(deltas, U), S, k) = TopOf(store, deltas, S, k)
<1>0. DOMAIN deltas \subseteq Hlcs
  BY DictElim
<1>1. \A g \in S : Without(deltas, U)[g] = deltas[g]
  BY DEF Without
<1>2. WritersOf(Without(deltas, U), S, k) = WritersOf(deltas, S, k)
  BY <1>1 DEF WritersOf
<1>3. CASE WritersOf(deltas, S, k) = {}
  BY <1>2, <1>3 DEF TopOf
<1>4. CASE WritersOf(deltas, S, k) # {}
  <2>1. Last(WritersOf(deltas, S, k)) \in S
    BY <1>0, <1>4, FirstLast DEF WritersOf
  <2>2. QED
    BY <1>1, <1>2, <1>4, <2>1 DEF TopOf
<1>5. QED
  BY <1>3, <1>4

-----------------------------------------------------------------------------
(* What the invariant says of reads.                                       *)

LEMMA TopWritten ==
    ASSUME TopInv, NEW S \in SUBSET DOMAIN pending_deltas, NEW k,
           WritersOf(pending_deltas, S, k) # {}
    PROVE  Top(S, k) \in Values /\ k \notin LongKeys
<1> DEFINE W == WritersOf(pending_deltas, S, k)
<1>1. W \in SUBSET Hlcs
  BY DictElim, IsDictIsDict DEF TopInv, TypeOK, WritersOf
<1>2. Last(W) \in W
  BY <1>1, FirstLast
<1>3. Last(W) \in DOMAIN pending_deltas /\ k \in DOMAIN pending_deltas[Last(W)]
  BY <1>2 DEF WritersOf
<1>4. QED
  BY <1>3 DEF Top, TopOf, TopInv, ValuesOnly, Post

(* Below the open transaction a key reads as the newest sealed value: from *)
(* the cache if it is there, else from the store.                          *)
LEMMA FindAppliedIsTop ==
    ASSUME TopInv, NEW k \in Keys
    PROVE  FindApplied(k) = Top(DOMAIN pending_deltas, k)
<1> DEFINE S0 == DOMAIN pending_deltas
<1>1. FSGet(driver, k) = driver[k].value
  BY DEF FSGet, TopInv, ValuesOnly, NoEntry
<1>2. CASE WritersOf(pending_deltas, S0, k) = {}
  <2>1. Top(S0, k) = driver[k].value
    BY <1>2 DEF Top, TopOf
  <2>2. k \in DOMAIN cache => cache[k] = driver[k].value
    BY <2>1 DEF TopInv, CacheIsTop
  <2>3. QED
    BY <1>1, <2>1, <2>2 DEF FindApplied, Lookup
<1>3. CASE WritersOf(pending_deltas, S0, k) # {}
  <2>1. k \in DOMAIN cache /\ cache[k] = Top(S0, k)
    BY <1>3 DEF TopInv, CacheIsTop
  <2>2. cache[k] # None
    BY <1>3, <2>1, TopWritten, NoneAssumption
  <2>3. QED
    BY <2>1, <2>2 DEF FindApplied, Lookup
<1>4. QED
  BY <1>2, <1>3

LEMMA FindIsTop ==
    ASSUME TopInv, NEW k \in Keys
    PROVE  Find(k) = IF k \in DOMAIN pending_writes THEN pending_writes[k]
                     ELSE Top(DOMAIN pending_deltas, k)
<1>1. k \in DOMAIN pending_writes => pending_writes[k] # None
  BY NoneAssumption DEF TopInv, ValuesOnly
<1>2. QED
  BY <1>1, FindAppliedIsTop DEF Find, Lookup

-----------------------------------------------------------------------------
(* The invariant holds initially and each call of the protocol keeps it.   *)

LEMMA TopInvInit == Init => TopInv
<1> SUFFICES ASSUME Init PROVE TopInv
  OBVIOUS
<1>1. TypeOK
  BY TypeInit
<1>2. DOMAIN EmptyDict = {}
  BY DEF EmptyDict
<1>3. \A k \in LongKeys : driver[k] = NoEntry /\ Lookup(cache, k) = None
  BY <1>2 DEF Init, Lookup
<1>4. ValuesOnly
  BY <1>2, <1>3 DEF ValuesOnly, Init
<1>5. CacheIsTop
  BY <1>2 DEF CacheIsTop, Init, WritersOf
<1>6. ImageIsTop
  BY <1>2 DEF ImageIsTop, Init, Lookup
<1>7. ImagesAreTop /\ NoneRefused
  BY <1>2 DEF ImagesAreTop, NoneRefused, Init
<1>8. QED
  BY <1>1, <1>4, <1>5, <1>6, <1>7 DEF TopInv

(* A read records the value below the open transaction, never a write of   *)
(* the transaction itself: that is what Touchable is for.                  *)
LEMMA RecordedImage ==
    ASSUME Protocol, TopInv, NEW k \in Keys, Touchable(k), RecordRead(k), NEW x \in Keys,
           Lookup(pending_reads', x) # None \/ x \in DOMAIN pending_writes \cup {k}
    PROVE  Lookup(pending_reads', x) = Top(DOMAIN pending_deltas, x)
<1>1. k \in DOMAIN pending_writes => Lookup(pending_reads, k) # None
  BY DEF Touchable, May, Protocol
<1>2. CASE x = k /\ Lookup(pending_reads, k) = None
  <2>1. Find(k) = Top(DOMAIN pending_deltas, k)
    BY <1>1, <1>2, FindIsTop
  <2>2. Lookup(pending_reads', k) = Find(k)
    BY <1>2 DEF RecordRead, Put, Lookup
  <2>3. QED
    BY <1>2, <2>1, <2>2
<1>3. CASE x # k \/ Lookup(pending_reads, k) # None
  <2>1. Lookup(pending_reads', x) = Lookup(pending_reads, x)
    BY <1>3 DEF RecordRead, Put, Lookup
  <2>2. Lookup(pending_reads, x) # None \/ x \in DOMAIN pending_writes
    BY <1>1, <1>3, <2>1
  <2>3. QED
    BY <2>1, <2>2 DEF TopInv, ImageIsTop
<1>4. QED
  BY <1>2, <1>3

LEMMA InvGet ==
    ASSUME Protocol, TopInv, TypeOK', NEW k \in Keys, ClientGet(k)
    PROVE  TopInv'
<1>1. /\ Touchable(k) /\ RecordRead(k)
      /\ UNCHANGED <<pending_writes, cache, driver, pending_deltas>>
  BY DEF ClientGet, Get
<1>2. ImageIsTop'
  BY <1>1, RecordedImage DEF ImageIsTop, Top
<1>3. ValuesOnly' /\ CacheIsTop' /\ ImagesAreTop' /\ NoneRefused'
  BY <1>1 DEF TopInv, ValuesOnly, CacheIsTop, ImagesAreTop, NoneRefused, Top, Older, Post
<1>4. QED
  BY <1>2, <1>3 DEF TopInv

LEMMA InvSet ==
    ASSUME Protocol, TopInv, TypeOK', NEW k \in Keys, NEW v \in MaybeValue, ClientSet(k, v)
    PROVE  TopInv'
<1>1. /\ Touchable(k) /\ RecordRead(k)
      /\ pending_writes' = Put(pending_writes, k, v)
      /\ UNCHANGED <<cache, driver, pending_deltas>>
      /\ v \in Values /\ k \notin LongKeys
  BY DEF ClientSet, Set, May, Protocol, MaybeValue
<1>2. DOMAIN pending_writes' = DOMAIN pending_writes \cup {k}
  BY <1>1 DEF Put
<1>3. ImageIsTop'
  BY <1>1, <1>2, RecordedImage DEF ImageIsTop, Top
<1>4. ValuesOnly'
  BY <1>1 DEF TopInv, ValuesOnly, Post, Put
<1>5. CacheIsTop' /\ ImagesAreTop' /\ NoneRefused'
  BY <1>1 DEF TopInv, CacheIsTop, ImagesAreTop, NoneRefused, Top, Older
<1>6. QED
  BY <1>3, <1>4, <1>5 DEF TopInv

(* The transaction becomes the newest delta: its images are the values     *)
(* below it, and the cache takes its writes.                               *)
LEMMA InvSoftApply ==
    ASSUME Protocol, TopInv, TypeOK', NEW h \in Hlcs, ClientSoftApply(h)
    PROVE  TopInv'
<1> DEFINE S0 == DOMAIN pending_deltas
<1>1. /\ cache' = Update(cache, pending_writes)
      /\ pending_deltas' = Put(pending_deltas, h, PendingPairs)
      /\ pending_writes' = EmptyDict /\ pending_reads' = EmptyDict
      /\ driver' = driver
  BY DEF ClientSoftApply, SoftApply, ClearTopCache
<1>2. S0 \subseteq Hlcs /\ pending_deltas \in Dict(Hlcs, Delta)
  BY DictElim, IsDictIsDict DEF TopInv, TypeOK
<1>3. \A g \in S0 : Rank[g] < Rank[h]
  BY <1>2 DEF ClientSoftApply, Protocol
<1>4. PendingPairs \in Delta /\ DOMAIN PendingPairs = DOMAIN pending_writes
  BY PendingPairsType DEF TopInv
<1>5. DOMAIN pending_deltas' = S0 \cup {h} /\ DOMAIN EmptyDict = {}
  BY <1>1 DEF Put, EmptyDict
<1>6. h \notin S0
  BY <1>2, <1>3, HlcAssumption
<1>7. pending_deltas'[h] = PendingPairs /\ \A g \in S0 : pending_deltas'[g] = pending_deltas[g]
  BY <1>1, <1>6 DEF Put
<1>8. ASSUME NEW k \in Keys
      PROVE  TopOf(driver', pending_deltas', S0 \cup {h}, k)
               = IF k \in DOMAIN pending_writes THEN pending_writes[k] ELSE Top(S0, k)
  <2>1. TopOf(driver, Put(pending_deltas, h, PendingPairs), S0 \cup {h}, k)
          = IF k \in DOMAIN PendingPairs THEN PendingPairs[k][2]
            ELSE TopOf(driver, pending_deltas, S0, k)
    BY <1>2, <1>3, <1>4, TopPut
  <2>2. k \in DOMAIN pending_writes => PendingPairs[k][2] = pending_writes[k]
    BY DEF PendingPairs
  <2>3. QED
    BY <1>1, <1>4, <2>1, <2>2 DEF Top
<1>9. ASSUME NEW S \in SUBSET S0, NEW k \in Keys
      PROVE  TopOf(driver', pending_deltas', S, k) = Top(S, k)
  <2>1. TopOf(driver, Put(pending_deltas, h, PendingPairs), S, k)
          = TopOf(driver, pending_deltas, S, k)
    BY <1>2, <1>6, TopBelow
  <2>2. QED
    BY <1>1, <2>1 DEF Top
<1>10. ValuesOnly'
  <2>1. \A k \in DOMAIN pending_writes' : pending_writes'[k] \in Values /\ k \notin LongKeys
    BY <1>1, <1>5
  <2>2. ASSUME NEW g \in DOMAIN pending_deltas', NEW k \in DOMAIN pending_deltas'[g]
        PROVE  pending_deltas'[g][k][2] \in Values /\ k \notin LongKeys
    BY <1>4, <1>5, <1>7, <2>2 DEF TopInv, ValuesOnly, Post, PendingPairs
  <2>3. \A k \in LongKeys : driver'[k] = NoEntry /\ Lookup(cache', k) = None
    BY <1>1 DEF TopInv, ValuesOnly, Update, Lookup
  <2>4. QED
    BY <2>1, <2>2, <2>3 DEF ValuesOnly, Post
<1>11. CacheIsTop'
  <2> SUFFICES ASSUME NEW k \in Keys
               PROVE  IF k \in DOMAIN cache'
                      THEN cache'[k] = TopOf(driver', pending_deltas', S0 \cup {h}, k)
                      ELSE WritersOf(pending_deltas', S0 \cup {h}, k) = {}
    BY <1>5 DEF CacheIsTop, Top
  <2>1. CASE k \in DOMAIN pending_writes
    BY <1>1, <1>8, <2>1 DEF Update
  <2>2. CASE k \notin DOMAIN pending_writes /\ k \in DOMAIN cache
    BY <1>1, <1>8, <2>2 DEF Update, TopInv, CacheIsTop
  <2>3. CASE k \notin DOMAIN pending_writes /\ k \notin DOMAIN cache
    <3>1. WritersOf(pending_deltas, S0, k) = {}
      BY <2>3 DEF TopInv, CacheIsTop
    <3>2. WritersOf(pending_deltas', S0 \cup {h}, k) = {}
      BY <1>4, <1>7, <2>3, <3>1 DEF WritersOf
    <3>3. QED
      BY <1>1, <2>3, <3>2 DEF Update
  <2>4. QED
    BY <2>1, <2>2, <2>3
<1>12. ImageIsTop'
  BY <1>1, <1>5 DEF ImageIsTop, Lookup
<1>13. ImagesAreTop'
  <2> SUFFICES ASSUME NEW g \in S0 \cup {h}, NEW k \in DOMAIN pending_deltas'[g]
               PROVE  pending_deltas'[g][k][1] = TopOf(driver', pending_deltas', Older(g)', k)
    BY <1>5 DEF ImagesAreTop, Top
  <2>1. CASE g = h
    <3>1. {x \in S0 \cup {h} : Rank[x] < Rank[h]} = S0
      <4>1. Rank[h] \in Nat
        BY HlcAssumption
      <4>2. QED
        BY <1>3, <4>1
    <3>2. k \in DOMAIN pending_writes /\ k \in Keys
      BY <1>4, <1>7, <2>1, DictElim, IsDictIsDict DEF TopInv, TypeOK
    <3>3. pending_deltas'[g][k][1] = Lookup(pending_reads, k)
      BY <1>7, <2>1, <3>2 DEF PendingPairs
    <3>4. Lookup(pending_reads, k) = Top(S0, k)
      BY <3>2 DEF TopInv, ImageIsTop
    <3>5. QED
      BY <1>5, <1>9, <2>1, <3>1, <3>2, <3>3, <3>4 DEF Older
  <2>2. CASE g \in S0
    <3>1. Older(g)' = Older(g)
      BY <1>2, <1>3, <1>5, <2>2, HlcAssumption DEF Older
    <3>2. Older(g) \in SUBSET S0
      BY DEF Older
    <3>3. k \in DOMAIN pending_deltas[g] /\ k \in Keys
      BY <1>7, <2>2, DeltaType DEF TopInv
    <3>4. QED
      BY <1>7, <1>9, <2>2, <3>1, <3>2, <3>3 DEF TopInv, ImagesAreTop
  <2>3. QED
    BY <2>1, <2>2
<1>14. NoneRefused'
  BY <1>1, <1>5 DEF TopInv, NoneRefused, ClientSoftApply
<1>15. QED
  BY <1>10, <1>11, <1>12, <1>13, <1>14 DEF TopInv

(* Hard applying: the oldest deltas move into the store under the guard,   *)
(* and no read, recorded image or stored image changes.                    *)
LEMMA UpToSplit ==
    ASSUME TypeOK, NEW h \in Hlcs
    PROVE  /\ UpTo(h) \in SUBSET DOMAIN pending_deltas
           /\ \A g \in DOMAIN pending_deltas \ UpTo(h) :
                /\ Rank[h] < Rank[g] /\ Nanos[h] <= Nanos[g]
                /\ \A u \in UpTo(h) : Rank[u] < Rank[g]
<1>1. DOMAIN pending_deltas \subseteq Hlcs
  BY DictElim, IsDictIsDict DEF TypeOK
<1>2. \A g \in DOMAIN pending_deltas : Rank[g] \in Nat /\ Rank[h] \in Nat
  BY <1>1, HlcAssumption
<1>3. \A g \in DOMAIN pending_deltas \ UpTo(h) : Rank[h] < Rank[g]
  BY <1>2 DEF UpTo
<1>4. QED
  BY <1>1, <1>2, <1>3, HlcAssumption DEF UpTo

LEMMA InvFold ==
    ASSUME Protocol, TopInv, TypeOK', NEW h \in DOMAIN pending_deltas,
           pending_deltas' = Without(pending_deltas, UpTo(h)),
           UNCHANGED <<pending_writes, pending_reads, cache>>,
           \A k \in Keys : /\ driver'[k].value = Top(UpTo(h), k)
                           /\ driver'[k].block = driver[k].block \/ driver'[k].block <= Nanos[h],
           \A k \in LongKeys : driver'[k] = driver[k]
    PROVE  TopInv'
<1> DEFINE S0 == DOMAIN pending_deltas
           U == UpTo(h)
<1>1. S0 \subseteq Hlcs /\ pending_deltas \in Dict(Hlcs, Delta)
  BY DictElim, IsDictIsDict DEF TopInv, TypeOK
<1>2. DOMAIN pending_deltas' = S0 \ U /\ \A g \in S0 \ U : pending_deltas'[g] = pending_deltas[g]
  BY DEF Without
<1>3. U \in SUBSET S0 /\ \A g \in S0 \ U : Nanos[h] <= Nanos[g] /\ \A u \in U : Rank[u] < Rank[g]
  BY <1>1, UpToSplit DEF TopInv
<1>4. ASSUME NEW S \in SUBSET S0, U \subseteq S, NEW k \in Keys
      PROVE  TopOf(driver', pending_deltas', S \ U, k) = Top(S, k)
  <2>1. driver'[k].value = TopOf(driver, pending_deltas, U, k)
    BY DEF Top
  <2>2. \A u \in U : \A g \in S \ U : Rank[u] < Rank[g]
    BY <1>3
  <2>3. TopOf(driver', Without(pending_deltas, U), S \ U, k) = TopOf(driver, pending_deltas, S, k)
    BY <1>1, <1>4, <2>1, <2>2, TopFold
  <2>4. QED
    BY <2>3 DEF Top
<1>5. ASSUME NEW k \in Keys
      PROVE  TopOf(driver', pending_deltas', S0 \ U, k) = Top(S0, k)
  BY <1>3, <1>4
<1>6. ValuesOnly'
  BY <1>2 DEF TopInv, ValuesOnly, Post
<1>7. CacheIsTop'
  BY <1>2, <1>5 DEF TopInv, CacheIsTop, WritersOf, Top
<1>8. ImageIsTop'
  BY <1>2, <1>5 DEF TopInv, ImageIsTop, Top
<1>9. ImagesAreTop'
  <2> SUFFICES ASSUME NEW g \in S0 \ U, NEW k \in DOMAIN pending_deltas[g]
               PROVE  pending_deltas[g][k][1] = TopOf(driver', pending_deltas', Older(g)', k)
    BY <1>2 DEF ImagesAreTop, Top
  <2>1. Older(g)' = Older(g) \ U
    BY <1>2 DEF Older
  <2>2. Older(g) \in SUBSET S0 /\ U \subseteq Older(g)
    BY <1>3 DEF Older
  <2>3. k \in Keys
    BY DeltaType DEF TopInv
  <2>4. QED
    BY <1>4, <2>1, <2>2, <2>3 DEF TopInv, ImagesAreTop
<1>10. NoneRefused'
  <2> SUFFICES ASSUME NEW g \in S0 \ U, NEW k \in Keys
               PROVE  driver'[k].block <= Nanos[g]
    BY <1>2 DEF NoneRefused
  <2>1. driver[k].block <= Nanos[g]
    BY DEF TopInv, NoneRefused
  <2>2. driver'[k].block \in Int /\ Nanos[h] \in Int /\ Nanos[g] \in Int
    BY <1>1, HlcAssumption, IsDictIsDict DEF TypeOK, Store
  <2>3. QED
    BY <1>3, <2>1, <2>2
<1>11. QED
  BY <1>6, <1>7, <1>8, <1>9, <1>10 DEF TopInv

(* What hard_apply and hard_apply_one leave under a key: no delta is       *)
(* refused, so it is the newest of the values applied.                     *)
LEMMA ApplyUpToValue ==
    ASSUME Protocol, TopInv, NEW h \in DOMAIN pending_deltas, NEW k \in Keys
    PROVE  /\ ApplyUpTo(h, k).value = Top(UpTo(h), k)
           /\ ApplyUpTo(h, k).block = driver[k].block \/ ApplyUpTo(h, k).block <= Nanos[h]
           /\ k \in LongKeys => ApplyUpTo(h, k) = driver[k]
<1> DEFINE W == WritersOf(pending_deltas, UpTo(h), k)
           w == Last(W)
<1>1. UpTo(h) \in SUBSET DOMAIN pending_deltas /\ W = Writers(UpTo(h), k)
  BY DEF UpTo, WritersOf, Writers
<1>2. CASE W = {}
  BY <1>1, <1>2 DEF ApplyUpTo, Top, TopOf
<1>3. CASE W # {}
  <2>1. w \in W
    BY <1>1, <1>3, WritersIn DEF TopInv
  <2>2. w \in DOMAIN pending_deltas /\ w \in Hlcs /\ h \in Hlcs /\ Rank[w] <= Rank[h]
    BY <1>1, <2>1, DeltaType DEF TopInv, WritersOf, UpTo
  <2>3. Nanos[w] <= Nanos[h] /\ Nanos[w] \in Nat /\ Nanos[h] \in Nat
    BY <2>2, HlcAssumption
  <2>4. driver[k].block <= Nanos[w] /\ driver[k].block \in Int
    BY <2>2, IsDictIsDict DEF TopInv, NoneRefused, TypeOK, Store
  <2>5. k \notin LongKeys
    BY <1>1, <1>3, TopWritten
  <2>6. \/ ApplyUpTo(h, k) = [value |-> Post(w, k), block |-> Nanos[w]]
        \/ ApplyUpTo(h, k) = [value |-> Post(w, k), block |-> NoBlock]
    BY <1>1, <1>3, <2>3, <2>4, <2>5 DEF ApplyUpTo, FSSafeSet, FSSetPlain
  <2>7. Top(UpTo(h), k) = Post(w, k)
    BY <1>3 DEF Top, TopOf, Post
  <2>8. QED
    BY <2>3, <2>5, <2>6, <2>7 DEF NoBlock
<1>4. QED
  BY <1>2, <1>3

LEMMA InvHardApply ==
    ASSUME Protocol, TopInv, TypeOK', NEW h \in Hlcs, HardApply(h)
    PROVE  TopInv'
<1>1. h \in DOMAIN pending_deltas /\ driver' = [k \in Keys |-> ApplyUpTo(h, k)]
  BY DEF HardApply
<1>2. \A k \in Keys : /\ driver'[k].value = Top(UpTo(h), k)
                      /\ driver'[k].block = driver[k].block \/ driver'[k].block <= Nanos[h]
  BY <1>1, ApplyUpToValue
<1>3. \A k \in LongKeys : driver'[k] = driver[k]
  BY <1>1, ApplyUpToValue, LongKeysAssumption
<1>4. QED
  BY <1>1, <1>2, <1>3, InvFold DEF HardApply

LEMMA ApplyOnlyValue ==
    ASSUME Protocol, TopInv, NEW h \in DOMAIN pending_deltas, UpTo(h) = {h}, NEW k \in Keys
    PROVE  /\ ApplyOnly(h, k).value = Top(UpTo(h), k)
           /\ ApplyOnly(h, k).block = driver[k].block \/ ApplyOnly(h, k).block <= Nanos[h]
           /\ k \in LongKeys => ApplyOnly(h, k) = driver[k]
<1> DEFINE W == WritersOf(pending_deltas, {h}, k)
<1>1. h \in Hlcs /\ Nanos[h] \in Nat
  BY DeltaType, HlcAssumption DEF TopInv
<1>2. CASE k \notin DOMAIN pending_deltas[h]
  <2>1. W = {}
    BY <1>2 DEF WritersOf
  <2>2. QED
    BY <1>2, <2>1 DEF ApplyOnly, Top, TopOf
<1>3. CASE k \in DOMAIN pending_deltas[h]
  <2>1. W = {h}
    BY <1>3 DEF WritersOf
  <2>2. Last({h}) = h
    BY <1>1, FirstLast
  <2>3. Top(UpTo(h), k) = Post(h, k)
    BY <2>1, <2>2 DEF Top, TopOf, Post
  <2>4. k \notin LongKeys
    BY <2>1, TopWritten
  <2>5. driver[k].block <= Nanos[h] /\ driver[k].block \in Int
    BY IsDictIsDict DEF TopInv, NoneRefused, TypeOK, Store
  <2>6. \/ ApplyOnly(h, k) = [value |-> Post(h, k), block |-> Nanos[h]]
        \/ ApplyOnly(h, k) = [value |-> Post(h, k), block |-> NoBlock]
    BY <1>1, <1>3, <2>4, <2>5 DEF ApplyOnly, FSSetInt, FSSafeSet, FSSetPlain
  <2>7. QED
    BY <1>1, <2>3, <2>4, <2>6 DEF NoBlock
<1>4. QED
  BY <1>2, <1>3

LEMMA InvHardApplyOne ==
    ASSUME Protocol, TopInv, TypeOK', NEW h \in Hlcs, ClientHardApplyOne(h)
    PROVE  TopInv'
<1>1. /\ h \in DOMAIN pending_deltas /\ driver' = [k \in Keys |-> ApplyOnly(h, k)]
      /\ UpTo(h) = {h}
  BY DEF ClientHardApplyOne, HardApplyOne
<1>2. \A k \in Keys : /\ driver'[k].value = Top(UpTo(h), k)
                      /\ driver'[k].block = driver[k].block \/ driver'[k].block <= Nanos[h]
  BY <1>1, ApplyOnlyValue
<1>3. \A k \in LongKeys : driver'[k] = driver[k]
  BY <1>1, ApplyOnlyValue, LongKeysAssumption
<1>4. QED
  BY <1>1, <1>2, <1>3, InvFold DEF ClientHardApplyOne, HardApplyOne

(* Dropping a cached value that no pending delta writes.                   *)
LEMMA InvDropCached ==
    ASSUME TopInv, TypeOK', NEW S,
           \A k \in S : WritersOf(pending_deltas, DOMAIN pending_deltas, k) = {},
           cache' = Without(cache, S),
           UNCHANGED <<pending_writes, pending_reads, driver, pending_deltas>>
    PROVE  TopInv'
<1>1. CacheIsTop'
  BY DEF TopInv, CacheIsTop, Top, Without
<1>2. ValuesOnly'
  BY DEF TopInv, ValuesOnly, Post, Lookup, Without
<1>3. ImageIsTop' /\ ImagesAreTop' /\ NoneRefused'
  BY DEF TopInv, ImageIsTop, ImagesAreTop, NoneRefused, Top, Older
<1>4. QED
  BY <1>1, <1>2, <1>3 DEF TopInv

LEMMA InvBustCache ==
    ASSUME Protocol, TopInv, TypeOK', NEW S \in SUBSET Keys, BustCache(S)
    PROVE  TopInv'
<1> DEFINE T == {k \in S : Writers(DOMAIN pending_deltas, k) = {}}
<1>1. \A k \in T : WritersOf(pending_deltas, DOMAIN pending_deltas, k) = {}
  BY DEF Writers, WritersOf
<1>2. /\ cache' = Without(cache, T)
      /\ UNCHANGED <<pending_writes, pending_reads, driver, pending_deltas>>
  BY DEF BustCache
<1> HIDE DEF T
<1>3. QED
  BY <1>1, <1>2, InvDropCached

LEMMA InvResetCache ==
    ASSUME Protocol, TopInv, TypeOK', ClientResetCache
    PROVE  TopInv'
<1>1. /\ DOMAIN pending_deltas = {} /\ cache' = EmptyDict
      /\ UNCHANGED <<pending_writes, pending_reads, driver, pending_deltas>>
  BY DEF ClientResetCache, ResetCache
<1>2. EmptyDict = Without(cache, DOMAIN cache)
  BY DEF EmptyDict, Without
<1>3. \A k \in DOMAIN cache : WritersOf(pending_deltas, DOMAIN pending_deltas, k) = {}
  BY <1>1 DEF WritersOf
<1>4. QED
  BY <1>1, <1>2, <1>3, InvDropCached

(* With no delta and nothing cached or pending, the invariant only asks    *)
(* that keys too long for a file name are not in the store.                *)
LEMMA InvEmpty ==
    ASSUME TypeOK', DOMAIN pending_deltas' = {},
           cache' = EmptyDict, pending_writes' = EmptyDict, pending_reads' = EmptyDict,
           \A k \in LongKeys : driver'[k] = NoEntry
    PROVE  TopInv'
<1>1. DOMAIN EmptyDict = {}
  BY DEF EmptyDict
<1>2. ValuesOnly'
  BY <1>1 DEF ValuesOnly, Lookup
<1>3. CacheIsTop'
  BY <1>1 DEF CacheIsTop, WritersOf
<1>4. ImageIsTop' /\ ImagesAreTop' /\ NoneRefused'
  BY <1>1 DEF ImageIsTop, ImagesAreTop, NoneRefused, Lookup
<1>5. QED
  BY <1>2, <1>3, <1>4 DEF TopInv

LEMMA InvCommit ==
    ASSUME Protocol, TopInv, TypeOK', ClientCommit
    PROVE  TopInv'
<1>1. /\ DOMAIN pending_deltas = {} /\ pending_deltas' = pending_deltas
      /\ driver' = [k \in Keys |-> Committed(k)]
      /\ cache' = EmptyDict /\ pending_writes' = EmptyDict /\ pending_reads' = EmptyDict
  BY DEF ClientCommit, Commit, ClearTopCache
<1>2. ASSUME NEW k \in LongKeys
      PROVE  driver'[k] = NoEntry
  <2>1. driver[k] = NoEntry /\ k \in Keys
    BY LongKeysAssumption DEF TopInv, ValuesOnly
  <2>2. Committed(k) = driver[k]
    BY <2>1 DEF Committed, FSDelete, FSSetPlain
  <2>3. QED
    BY <1>1, <2>1, <2>2
<1>3. QED
  BY <1>1, <1>2, InvEmpty

LEMMA InvRollbackAll ==
    ASSUME Protocol, TopInv, TypeOK', RollbackAll
    PROVE  TopInv'
<1>1. DOMAIN EmptyDict = {}
  BY DEF EmptyDict
<1>2. QED
  BY <1>1, InvEmpty DEF RollbackAll, ClearTopCache, TopInv, ValuesOnly

(* Rolling back: a key that a dropped delta wrote takes the image of the   *)
(* first of them, which is the value over the deltas that stay.            *)
LEMMA FromSplit ==
    ASSUME TypeOK, NEW h \in Hlcs
    PROVE  /\ From(h) \in SUBSET DOMAIN pending_deltas
           /\ DOMAIN pending_deltas \ From(h) = Older(h)
<1>1. \A g \in DOMAIN pending_deltas : Rank[g] \in Nat /\ Rank[h] \in Nat
  BY DictElim, HlcAssumption, IsDictIsDict DEF TypeOK
<1>2. QED
  BY <1>1 DEF From, Older

LEMMA RolledBackValue ==
    ASSUME TopInv, NEW h \in Hlcs, NEW k \in DOMAIN RolledBack(h)
    PROVE  RolledBack(h)[k] = Top(Older(h), k) /\ k \in Keys
<1> DEFINE W == Writers(From(h), k)
           f == First(W)
<1>1. k \in Keys /\ W # {} /\ RolledBack(h)[k] = Pre(f, k)
  BY DEF RolledBack
<1>2. From(h) \in SUBSET DOMAIN pending_deltas
  BY FromSplit DEF TopInv
<1>3. W \in SUBSET Hlcs
  BY <1>2, DeltaType DEF TopInv, Writers
<1>4. f \in W /\ \A g \in W : Rank[f] <= Rank[g]
  BY <1>1, <1>3, FirstLast
<1>5. f \in From(h) /\ f \in DOMAIN pending_deltas /\ k \in DOMAIN pending_deltas[f]
  BY <1>2, <1>4 DEF Writers
<1>6. Pre(f, k) = Top(Older(f), k)
  BY <1>5 DEF TopInv, ImagesAreTop, Pre
<1>7. WritersOf(pending_deltas, Older(f), k) = WritersOf(pending_deltas, Older(h), k)
  <2>1. \A g \in DOMAIN pending_deltas : g \in Hlcs /\ Rank[g] \in Nat
    BY DeltaType, HlcAssumption DEF TopInv
  <2>2. Rank[h] \in Nat /\ Rank[h] <= Rank[f]
    BY <1>5, HlcAssumption DEF From
  <2>3. ASSUME NEW g \in DOMAIN pending_deltas, k \in DOMAIN pending_deltas[g]
        PROVE  Rank[g] < Rank[f] <=> Rank[g] < Rank[h]
    <3>1. Rank[g] < Rank[h] => Rank[g] < Rank[f]
      BY <1>5, <2>1, <2>2
    <3>2. ~(Rank[g] < Rank[h]) => g \in W
      BY <2>1, <2>2, <2>3 DEF From, Writers
    <3>3. g \in W => ~(Rank[g] < Rank[f])
      BY <1>4, <1>5, <2>1
    <3>4. QED
      BY <3>1, <3>2, <3>3
  <2>4. QED
    BY <2>3 DEF WritersOf, Older
<1>8. QED
  BY <1>1, <1>6, <1>7 DEF Top, TopOf

LEMMA RolledBackNot ==
    ASSUME TopInv, NEW h \in Hlcs, NEW k \in Keys, k \notin DOMAIN RolledBack(h)
    PROVE  /\ Top(DOMAIN pending_deltas, k) = Top(Older(h), k)
           /\ WritersOf(pending_deltas, DOMAIN pending_deltas, k)
                = WritersOf(pending_deltas, Older(h), k)
<1>1. Writers(From(h), k) = {}
  BY DEF RolledBack
<1>2. DOMAIN pending_deltas \ From(h) = Older(h)
  BY FromSplit DEF TopInv
<1>3. WritersOf(pending_deltas, DOMAIN pending_deltas, k)
        = WritersOf(pending_deltas, Older(h), k)
  BY <1>1, <1>2 DEF WritersOf, Writers
<1>4. QED
  BY <1>3 DEF Top, TopOf

LEMMA InvRollback ==
    ASSUME Protocol, TopInv, TypeOK', NEW h \in Hlcs, Rollback(h)
    PROVE  TopInv'
<1> DEFINE S0 == DOMAIN pending_deltas
<1>1. /\ cache' = Update(cache, RolledBack(h))
      /\ pending_deltas' = Without(pending_deltas, From(h))
      /\ driver' = driver
  BY DEF Rollback
<1>2. From(h) \in SUBSET S0 /\ S0 \ From(h) = Older(h)
  BY FromSplit DEF TopInv
<1>3. /\ DOMAIN pending_deltas' = Older(h)
      /\ \A g \in Older(h) : pending_deltas'[g] = pending_deltas[g] /\ g \in S0
  BY <1>1, <1>2 DEF Without
<1>4. pending_deltas \in Dict(Hlcs, Delta)
  BY IsDictIsDict DEF TopInv, TypeOK
<1>5. ASSUME NEW S \in SUBSET Older(h), NEW k
      PROVE  TopOf(driver', pending_deltas', S, k) = Top(S, k)
  <2>1. S \in SUBSET (DOMAIN pending_deltas \ From(h))
    BY <1>2
  <2>2. TopOf(driver, Without(pending_deltas, From(h)), S, k) = TopOf(driver, pending_deltas, S, k)
    BY <1>4, <2>1, TopDrop
  <2>3. QED
    BY <1>1, <2>2 DEF Top
<1>6. DOMAIN cache' = DOMAIN cache \cup DOMAIN RolledBack(h)
  BY <1>1 DEF Update
<1>7. ValuesOnly'
  <2>1. \A k \in DOMAIN pending_writes' : pending_writes'[k] \in Values /\ k \notin LongKeys
    BY DEF Rollback, ClearTopCache, EmptyDict, TopInv, ValuesOnly
  <2>2. \A g \in DOMAIN pending_deltas' : \A k \in DOMAIN pending_deltas'[g] :
          pending_deltas'[g][k][2] \in Values /\ k \notin LongKeys
    BY <1>3 DEF TopInv, ValuesOnly, Post
  <2>3. ASSUME NEW k \in LongKeys
        PROVE  driver'[k] = NoEntry /\ Lookup(cache', k) = None
    <3>1. k \notin DOMAIN RolledBack(h)
      BY DEF RolledBack, Writers, From, TopInv, ValuesOnly
    <3>2. QED
      BY <1>1, <3>1 DEF Update, Lookup, TopInv, ValuesOnly
  <2>4. QED
    BY <2>1, <2>2, <2>3 DEF ValuesOnly, Post
<1>8. CacheIsTop'
  <2> SUFFICES ASSUME NEW k \in Keys
               PROVE  IF k \in DOMAIN cache' THEN cache'[k] = Top(Older(h), k)
                      ELSE WritersOf(pending_deltas', Older(h), k) = {}
    BY <1>3, <1>5 DEF CacheIsTop, Top
  <2>1. CASE k \in DOMAIN RolledBack(h)
    BY <1>1, <2>1, RolledBackValue DEF Update
  <2>2. CASE k \notin DOMAIN RolledBack(h) /\ k \in DOMAIN cache
    <3>1. cache'[k] = cache[k] /\ k \in DOMAIN cache'
      BY <1>1, <2>2 DEF Update
    <3>2. cache[k] = Top(S0, k)
      BY <2>2 DEF TopInv, CacheIsTop
    <3>3. QED
      BY <2>2, <3>1, <3>2, RolledBackNot
  <2>3. CASE k \notin DOMAIN RolledBack(h) /\ k \notin DOMAIN cache
    <3>1. WritersOf(pending_deltas, Older(h), k) = {}
      BY <2>3, RolledBackNot DEF TopInv, CacheIsTop
    <3>2. QED
      BY <1>3, <1>6, <2>3, <3>1 DEF WritersOf
  <2>4. QED
    BY <2>1, <2>2, <2>3
<1>9. ImageIsTop'
  <2>1. CASE S0 = {}
    <3>1. UNCHANGED <<pending_writes, pending_reads>>
      BY <2>1 DEF Rollback
    <3>2. Older(h) = S0
      BY <2>1 DEF Older
    <3>3. QED
      BY <1>3, <1>5, <3>1, <3>2 DEF TopInv, ImageIsTop, Top
  <2>2. CASE S0 # {}
    BY <2>2 DEF Rollback, ClearTopCache, EmptyDict, ImageIsTop, Lookup
  <2>3. QED
    BY <2>1, <2>2
<1>10. ImagesAreTop'
  <2> SUFFICES ASSUME NEW g \in Older(h), NEW k \in DOMAIN pending_deltas[g]
               PROVE  pending_deltas[g][k][1] = TopOf(driver', pending_deltas', Older(g)', k)
    BY <1>3 DEF ImagesAreTop, Top
  <2>1. \A x \in S0 : Rank[x] \in Nat
    BY DeltaType, HlcAssumption DEF TopInv
  <2>2. Older(g)' = Older(g) /\ Older(g) \in SUBSET Older(h)
    BY <1>3, <2>1, HlcAssumption DEF Older
  <2>3. QED
    BY <1>3, <1>5, <2>2 DEF TopInv, ImagesAreTop
<1>11. NoneRefused'
  BY <1>1, <1>3 DEF TopInv, NoneRefused
<1>12. QED
  BY <1>7, <1>8, <1>9, <1>10, <1>11 DEF TopInv

LEMMA TopInvNext ==
    ASSUME Protocol, TopInv, [ClientNext]_vars
    PROVE  TopInv'
<1>1. [Next]_vars
  BY DEF ClientNext, Next, ClientGet, ClientSet, ClientSoftApply,
         ClientHardApplyOne, ClientResetCache, ClientCommit
<1>2. TypeOK'
  BY <1>1, TypeNext DEF TopInv
<1>3. CASE UNCHANGED vars
  BY <1>2, <1>3 DEF vars, TopInv, ValuesOnly, CacheIsTop, ImageIsTop, ImagesAreTop,
                    NoneRefused, Top, Older, Post
<1>4. QED
  BY <1>2, <1>3, InvGet, InvSet, InvSoftApply, InvHardApply, InvHardApplyOne,
     InvBustCache, InvResetCache, InvCommit, InvRollbackAll, InvRollback DEF ClientNext

LEMMA TopInvAlways ==
    ASSUME Protocol
    PROVE  ClientSpec => []TopInv
<1>1. Init => TopInv
  BY TopInvInit
<1>2. TopInv /\ [ClientNext]_vars => TopInv'
  BY TopInvNext
<1>3. QED
  BY <1>1, <1>2, PTL DEF ClientSpec

-----------------------------------------------------------------------------
(* The theorems.                                                           *)

LEMMA SealedIsTop ==
    ASSUME Protocol, TopInv, NEW k \in Keys
    PROVE  L!Sealed(k) = Top(DOMAIN pending_deltas, k)
BY OverIsTop DEF L!Sealed, TopInv

LEMMA TopInvIsLedgerInv ==
    ASSUME Protocol, TopInv
    PROVE  LedgerInv
<1>1. CacheIsSealed
  BY SealedIsTop DEF TopInv, CacheIsTop, CacheIsSealed, Writers, WritersOf
<1>2. ImageOfOpen
  BY SealedIsTop DEF TopInv, ImageIsTop, ImageOfOpen
<1>3. ImagesOfSealed
  <2> SUFFICES ASSUME NEW h \in DOMAIN pending_deltas, NEW k \in DOMAIN pending_deltas[h]
               PROVE  Pre(h, k) = L!Over(Older(h), k)
    BY DEF ImagesOfSealed, Older
  <2>1. k \in Keys
    BY DeltaType DEF TopInv
  <2>2. L!Over(Older(h), k) = Top(Older(h), k)
    BY <2>1, OverIsTop DEF TopInv, Older
  <2>3. QED
    BY <2>2 DEF TopInv, ImagesAreTop, Pre
<1>4. QED
  BY <1>1, <1>2, <1>3 DEF LedgerInv, TopInv

(* The invariant that the protocol maintains: images, cache and store      *)
(* agree on the order of the transactions.                                 *)
THEOREM LedgerInvariant ==
    ASSUME Protocol
    PROVE  ClientSpec => []LedgerInv
<1>1. TopInv => LedgerInv
  BY TopInvIsLedgerInv
<1>2. QED
  BY <1>1, TopInvAlways, PTL

LEMMA TopInvIsFindIsView ==
    ASSUME Protocol, TopInv
    PROVE  FindIsView
<1> SUFFICES ASSUME NEW k \in Keys
             PROVE  Find(k) = L!View(k)
  BY DEF FindIsView
<1>1. QED
  BY FindIsTop, SealedIsTop DEF L!View

(* find() always returns the newest write, whatever layer holds it.        *)
THEOREM ReadsReturnTheNewestWrite ==
    ASSUME Protocol
    PROVE  ClientSpec => []FindIsView
<1>1. TopInv => FindIsView
  BY TopInvIsFindIsView
<1>2. QED
  BY <1>1, TopInvAlways, PTL

-----------------------------------------------------------------------------
(* Refinement: the state of the ledger, and each call as a step of it.     *)

TxsOf(deltas) == [h \in DOMAIN deltas |-> [k \in DOMAIN deltas[h] |-> deltas[h][k][2]]]
BaseOf(store) == [k \in Keys |-> store[k].value]

LEMMA RefinesInit == Init => L!LedgerInit
<1> SUFFICES ASSUME Init PROVE L!LedgerInit
  OBVIOUS
<1>1. TypeOK
  BY TypeInit
<1>2. BaseOf(driver) \in [Keys -> Values \cup {None}]
  BY <1>1, IsDictIsDict DEF BaseOf, TypeOK, Store, MaybeValue
<1>3. TxsOf(pending_deltas) = EmptyDict
  BY DEF TxsOf, Init, EmptyDict
<1>4. QED
  BY <1>2, <1>3 DEF L!LedgerInit, L!EmptyDict, EmptyDict, BaseOf, TxsOf, Post, Init

LEMMA RefinesWrite ==
    ASSUME Protocol, NEW k \in Keys, NEW v \in MaybeValue, ClientSet(k, v)
    PROVE  v \in Values /\ L!Write(k, v)
BY DEF ClientSet, Set, May, Protocol, MaybeValue, L!Write, L!Put, Put, Post

LEMMA RefinesSeal ==
    ASSUME Protocol, TopInv, NEW h \in Hlcs, ClientSoftApply(h)
    PROVE  L!Seal(h)
<1> DEFINE S0 == DOMAIN pending_deltas
<1>1. /\ pending_deltas' = Put(pending_deltas, h, PendingPairs)
      /\ pending_writes' = EmptyDict /\ driver' = driver
      /\ \A g \in S0 : Time[g] < Time[h]
  BY DEF ClientSoftApply, SoftApply, ClearTopCache
<1>2. S0 \subseteq Hlcs
  BY DictElim, IsDictIsDict DEF TopInv, TypeOK
<1>3. h \notin S0
  BY <1>1, <1>2, TimeAssumption
<1>4. [k \in DOMAIN PendingPairs |-> PendingPairs[k][2]] = pending_writes
  BY DictElim, IsDictIsDict DEF PendingPairs, TopInv, TypeOK
<1>5. TxsOf(pending_deltas') = Put(TxsOf(pending_deltas), h, pending_writes)
  BY <1>1, <1>3, <1>4 DEF TxsOf, Put
<1>6. QED
  BY <1>1, <1>5 DEF L!Seal, L!Put, L!EmptyDict, Put, EmptyDict, TxsOf, Post

LEMMA RefinesFinalize ==
    ASSUME Protocol, TopInv, NEW h \in DOMAIN pending_deltas,
           pending_deltas' = Without(pending_deltas, UpTo(h)),
           pending_writes' = pending_writes,
           driver' \in Store,
           \A k \in Keys : driver'[k].value = Top(UpTo(h), k)
    PROVE  L!Finalize(h)
<1>1. DOMAIN pending_deltas \subseteq Hlcs /\ h \in Hlcs
  BY DictElim, IsDictIsDict DEF TopInv, TypeOK
<1>2. L!NotAfter(h) = UpTo(h)
  BY <1>1, HlcAssumption, TimeAssumption DEF Protocol, L!NotAfter, UpTo
<1>3. \A k \in Keys : L!Over(UpTo(h), k) = Top(UpTo(h), k)
  BY OverIsTop DEF TopInv, UpTo
<1>4. BaseOf(driver') = [k \in Keys |-> L!Over(L!NotAfter(h), k)]
  BY <1>2, <1>3 DEF BaseOf
<1>5. TxsOf(pending_deltas') = Without(TxsOf(pending_deltas), UpTo(h))
  BY DEF TxsOf, Without
<1>6. QED
  BY <1>2, <1>4, <1>5 DEF L!Finalize, L!Without, Without, TxsOf, BaseOf, Post

LEMMA RefinesHardApply ==
    ASSUME Protocol, TopInv, TypeOK', NEW h \in Hlcs, HardApply(h) \/ ClientHardApplyOne(h)
    PROVE  L!Finalize(h)
<1>1. h \in DOMAIN pending_deltas /\ pending_writes' = pending_writes
  BY DEF HardApply, ClientHardApplyOne, HardApplyOne
<1>2. pending_deltas' = Without(pending_deltas, UpTo(h))
  BY DEF HardApply, ClientHardApplyOne, HardApplyOne
<1>3. \A k \in Keys : driver'[k].value = Top(UpTo(h), k)
  <2>1. CASE HardApply(h)
    BY <1>1, <2>1, ApplyUpToValue DEF HardApply
  <2>2. CASE ClientHardApplyOne(h)
    BY <1>1, <2>2, ApplyOnlyValue DEF ClientHardApplyOne, HardApplyOne
  <2>3. QED
    BY <2>1, <2>2
<1>4. QED
  BY <1>1, <1>2, <1>3, RefinesFinalize, IsDictIsDict DEF TypeOK

LEMMA CommittedValue ==
    ASSUME Protocol, TopInv, DOMAIN pending_deltas = {}, NEW k \in Keys
    PROVE  Committed(k).value = Find(k)
<1>1. Top(DOMAIN pending_deltas, k) = driver[k].value
  BY DEF Top, TopOf, WritersOf
<1>2. CASE k \in DOMAIN pending_writes
  <2>1. pending_writes[k] \in Values /\ k \notin LongKeys
    BY <1>2 DEF TopInv, ValuesOnly
  <2>2. Committed(k) = FSSetPlain(driver, k, pending_writes[k])
    BY <1>2, <2>1, NoneAssumption DEF Committed, Update
  <2>3. QED
    BY <1>2, <2>1, <2>2, FindIsTop DEF FSSetPlain
<1>3. CASE k \notin DOMAIN pending_writes /\ k \in DOMAIN cache
  <2>1. cache[k] = driver[k].value
    BY <1>1, <1>3 DEF TopInv, CacheIsTop
  <2>2. Find(k) = cache[k]
    BY <1>1, <1>3, <2>1, FindIsTop
  <2>3. k \in LongKeys => driver[k] = NoEntry
    BY DEF TopInv, ValuesOnly
  <2>4. \/ Committed(k) = FSDelete(driver, k) /\ cache[k] = None
        \/ Committed(k) = FSSetPlain(driver, k, cache[k])
    BY <1>3 DEF Committed, Update
  <2>5. QED
    BY <2>1, <2>2, <2>3, <2>4 DEF FSDelete, FSSetPlain, NoEntry
<1>4. CASE k \notin DOMAIN pending_writes /\ k \notin DOMAIN cache
  BY <1>1, <1>4, FindIsTop DEF Committed, Update
<1>5. QED
  BY <1>2, <1>3, <1>4

LEMMA RefinesMerge ==
    ASSUME Protocol, TopInv, ClientCommit
    PROVE  L!Merge
<1>1. /\ DOMAIN pending_deltas = {} /\ pending_deltas' = pending_deltas
      /\ driver' = [k \in Keys |-> Committed(k)]
      /\ pending_writes' = EmptyDict
  BY DEF ClientCommit, Commit, ClearTopCache
<1>2. FindIsView
  BY TopInvIsFindIsView
<1>3. BaseOf(driver') = [k \in Keys |-> L!View(k)]
  BY <1>1, <1>2, CommittedValue DEF FindIsView, BaseOf
<1>4. QED
  BY <1>1, <1>3 DEF L!Merge, L!EmptyDict, EmptyDict, BaseOf, Post

LEMMA RefinesAbortAll ==
    ASSUME RollbackAll
    PROVE  L!AbortAll
<1>1. TxsOf(pending_deltas') = EmptyDict
  BY DEF RollbackAll, TxsOf, EmptyDict
<1>2. QED
  BY <1>1 DEF RollbackAll, ClearTopCache, L!AbortAll, L!EmptyDict, EmptyDict, TxsOf, Post

LEMMA RefinesAbort ==
    ASSUME Protocol, TopInv, NEW h \in Hlcs, Rollback(h)
    PROVE  L!Abort(h)
<1>1. DOMAIN pending_deltas \subseteq Hlcs
  BY DictElim, IsDictIsDict DEF TopInv, TypeOK
<1>2. L!NotBefore(h) = From(h)
  BY <1>1, HlcAssumption, TimeAssumption DEF Protocol, L!NotBefore, From
<1>3. TxsOf(pending_deltas') = Without(TxsOf(pending_deltas), From(h))
  BY DEF Rollback, TxsOf, Without
<1>4. pending_writes' = IF DOMAIN TxsOf(pending_deltas) = {} THEN pending_writes ELSE EmptyDict
  BY DEF Rollback, ClearTopCache, TxsOf
<1>5. QED
  BY <1>2, <1>3, <1>4 DEF Rollback, L!Abort, L!Without, Without, L!EmptyDict, EmptyDict, TxsOf, Post

LEMMA RefinesStutter ==
    ASSUME UNCHANGED <<pending_writes, driver, pending_deltas>>
    PROVE  UNCHANGED L!ledger
BY DEF L!ledger, Post

LEMMA RefinesNext ==
    ASSUME Protocol, TopInv, TopInv', [ClientNext]_vars
    PROVE  [L!LedgerNext]_(L!ledger)
<1>1. TypeOK'
  BY DEF TopInv
<1>2. ASSUME NEW k \in Keys, NEW v \in MaybeValue, ClientSet(k, v) PROVE L!LedgerNext
  BY <1>2, RefinesWrite DEF L!LedgerNext
<1>3. ASSUME NEW h \in Hlcs, ClientSoftApply(h) PROVE L!LedgerNext
  BY <1>3, RefinesSeal DEF L!LedgerNext
<1>4. ASSUME NEW h \in Hlcs, HardApply(h) \/ ClientHardApplyOne(h) PROVE L!LedgerNext
  BY <1>1, <1>4, RefinesHardApply DEF L!LedgerNext
<1>5. CASE ClientCommit
  BY <1>5, RefinesMerge DEF L!LedgerNext
<1>6. CASE RollbackAll
  BY <1>6, RefinesAbortAll DEF L!LedgerNext
<1>7. ASSUME NEW h \in Hlcs, Rollback(h) PROVE L!LedgerNext
  BY <1>7, RefinesAbort DEF L!LedgerNext
<1>8. ASSUME \/ \E k \in Keys : ClientGet(k)
             \/ \E S \in SUBSET Keys : BustCache(S)
             \/ ClientResetCache
             \/ UNCHANGED vars
      PROVE  UNCHANGED L!ledger
  BY <1>8, RefinesStutter DEF ClientGet, Get, BustCache, ClientResetCache, ResetCache, vars
<1>9. QED
  BY <1>2, <1>3, <1>4, <1>5, <1>6, <1>7, <1>8 DEF ClientNext

(* Every behaviour of CacheDriver under the protocol is, seen through the  *)
(* store, the pending deltas and the pending writes, one of the ledger.    *)
THEOREM CacheDriverImplementsLedger ==
    ASSUME Protocol
    PROVE  ClientSpec => ImplementsLedger
<1>1. Init => L!LedgerInit
  BY RefinesInit
<1>2. TopInv /\ TopInv' /\ [ClientNext]_vars => [L!LedgerNext]_(L!ledger)
  BY RefinesNext
<1>3. QED
  BY <1>1, <1>2, TopInvAlways, PTL DEF ClientSpec, ImplementsLedger, L!LedgerSpec

-----------------------------------------------------------------------------
(* The action properties, from FindIsTop before and after the step.        *)

ReadsAreTop ==
    \A k \in Keys :
      /\ FindApplied(k) = Top(DOMAIN pending_deltas, k)
      /\ Find(k) = IF k \in DOMAIN pending_writes THEN pending_writes[k]
                   ELSE Top(DOMAIN pending_deltas, k)

LEMMA ReadsTop == TopInv => ReadsAreTop
BY FindAppliedIsTop, FindIsTop DEF ReadsAreTop

LEMMA ReadsTopNext == TopInv' => ReadsAreTop'
BY ReadsTop, PTL

LEMMA RollbackStep ==
    ASSUME Protocol, TopInv, TopInv', NEW h \in Hlcs, Rollback(h), NEW k \in Keys
    PROVE  FindApplied(k)' = L!Over({g \in DOMAIN pending_deltas : Time[g] < Time[h]}, k)
<1> DEFINE S0 == DOMAIN pending_deltas
<1>1. S0 \subseteq Hlcs /\ pending_deltas \in Dict(Hlcs, Delta)
  BY DictElim, IsDictIsDict DEF TopInv, TypeOK
<1>2. {g \in S0 : Time[g] < Time[h]} = Older(h)
  BY <1>1 DEF Protocol, Older
<1>3. S0 \ From(h) = Older(h)
  BY FromSplit DEF TopInv
<1>4. pending_deltas' = Without(pending_deltas, From(h)) /\ driver' = driver
  BY DEF Rollback
<1>5. DOMAIN pending_deltas' = Older(h)
  BY <1>3, <1>4 DEF Without
<1>6. FindApplied(k)' = TopOf(driver', pending_deltas', Older(h), k)
  BY <1>5, ReadsTopNext DEF ReadsAreTop, Top
<1>7. TopOf(driver, Without(pending_deltas, From(h)), Older(h), k) = Top(Older(h), k)
  BY <1>1, <1>3, TopDrop DEF Top
<1>8. L!Over(Older(h), k) = Top(Older(h), k)
  BY OverIsTop DEF TopInv, Older
<1>9. QED
  BY <1>2, <1>4, <1>6, <1>7, <1>8

(* rollback(h) restores what every key had before the first delta rolled   *)
(* back, however many deltas wrote it and whatever was hard applied since. *)
THEOREM RollbackIsExact ==
    ASSUME Protocol
    PROVE  ClientSpec => RollbackRestores
<1>1. TopInv /\ TopInv' /\ [ClientNext]_vars =>
        [\A h \in Hlcs : Rollback(h) => \A k \in Keys :
           FindApplied(k)' = L!Over({g \in DOMAIN pending_deltas : Time[g] < Time[h]}, k)]_vars
  BY RollbackStep
<1>2. QED
  BY <1>1, TopInvAlways, PTL DEF ClientSpec, RollbackRestores

LEMMA FoldKeepsTop ==
    ASSUME TopInv, NEW h \in Hlcs, NEW k \in Keys,
           pending_deltas' = Without(pending_deltas, UpTo(h)),
           driver'[k].value = Top(UpTo(h), k)
    PROVE  Top(DOMAIN pending_deltas, k)' = Top(DOMAIN pending_deltas, k)
<1> DEFINE S0 == DOMAIN pending_deltas
           U == UpTo(h)
<1>1. pending_deltas \in Dict(Hlcs, Delta)
  BY IsDictIsDict DEF TopInv, TypeOK
<1>2. U \in SUBSET S0 /\ \A u \in U : \A g \in S0 \ U : Rank[u] < Rank[g]
  BY UpToSplit DEF TopInv
<1>3. driver'[k].value = TopOf(driver, pending_deltas, U, k)
  BY DEF Top
<1>4. TopOf(driver', Without(pending_deltas, U), S0 \ U, k) = TopOf(driver, pending_deltas, S0, k)
  BY <1>1, <1>2, <1>3, TopFold
<1>5. DOMAIN pending_deltas' = S0 \ U
  BY DEF Without
<1>6. QED
  BY <1>4, <1>5 DEF Top

LEMMA SealKeepsFind ==
    ASSUME Protocol, TopInv, TopInv', NEW h \in Hlcs, ClientSoftApply(h), NEW k \in Keys
    PROVE  Find(k)' = Find(k)
<1>1. NoDeletion(pending_writes, k)
  BY NoneAssumption DEF NoDeletion, TopInv, ValuesOnly
<1>2. /\ cache' = Update(cache, pending_writes)
      /\ pending_writes' = EmptyDict /\ driver' = driver
  BY DEF ClientSoftApply, SoftApply, ClearTopCache
<1>3. QED
  BY <1>1, <1>2 DEF NoDeletion, Find, FindApplied, Lookup, Update, EmptyDict

LEMMA ReadsStep ==
    ASSUME Protocol, TopInv, TopInv', [ClientNext]_vars,
           ~ \E k \in Keys, v \in MaybeValue : Set(k, v),
           ~ RollbackAll, ~ \E h \in Hlcs : Rollback(h), NEW k \in Keys
    PROVE  Find(k)' = Find(k)
<1>1. ReadsAreTop /\ ReadsAreTop'
  BY ReadsTop, ReadsTopNext
<1>2. ASSUME UNCHANGED <<pending_writes, driver, pending_deltas>>
      PROVE  Find(k)' = Find(k)
  BY <1>1, <1>2 DEF ReadsAreTop, Top
<1>3. ASSUME NEW h \in Hlcs, HardApply(h) \/ ClientHardApplyOne(h)
      PROVE  Find(k)' = Find(k)
  <2>1. pending_deltas' = Without(pending_deltas, UpTo(h)) /\ pending_writes' = pending_writes
    BY <1>3 DEF HardApply, ClientHardApplyOne, HardApplyOne
  <2>2. driver'[k].value = Top(UpTo(h), k)
    BY <1>3, ApplyUpToValue, ApplyOnlyValue DEF HardApply, ClientHardApplyOne, HardApplyOne
  <2>3. QED
    BY <1>1, <2>1, <2>2, FoldKeepsTop DEF ReadsAreTop
<1>4. CASE ClientCommit
  <2>1. /\ DOMAIN pending_deltas = {} /\ pending_deltas' = pending_deltas
        /\ driver' = [x \in Keys |-> Committed(x)] /\ pending_writes' = EmptyDict
    BY <1>4 DEF ClientCommit, Commit, ClearTopCache
  <2>2. Find(k)' = driver'[k].value
    BY <1>1, <2>1 DEF ReadsAreTop, Top, TopOf, WritersOf, EmptyDict
  <2>3. QED
    BY <2>1, <2>2, CommittedValue
<1>5. ASSUME NEW x \in Keys, NEW v \in MaybeValue, ClientSet(x, v) PROVE FALSE
  BY <1>5 DEF ClientSet
<1>6. QED
  BY <1>2, <1>3, <1>4, <1>5, SealKeepsFind
     DEF ClientNext, ClientGet, Get, BustCache, ClientResetCache, ResetCache, vars

(* Soft applying, hard applying, committing and dropping cached values are *)
(* invisible to readers.                                                   *)
THEOREM ReadsAreStable ==
    ASSUME Protocol
    PROVE  ClientSpec => ReadsChangeOnlyBySetOrRollback
<1>1. TopInv /\ TopInv' /\ [ClientNext]_vars =>
        [\/ \A k \in Keys : Find(k)' = Find(k)
         \/ \E k \in Keys, v \in MaybeValue : Set(k, v)
         \/ RollbackAll
         \/ \E h \in Hlcs : Rollback(h)]_vars
  BY ReadsStep
<1>2. QED
  BY <1>1, TopInvAlways, PTL DEF ClientSpec, ReadsChangeOnlyBySetOrRollback

-----------------------------------------------------------------------------
(* Executor with auto_commit, for any senders, keys, stamps and costs: a   *)
(* transaction leaves nothing pending, a failed one leaves its fee alone,  *)
(* the stamps are accounted and nothing is inherited by the next one.      *)

AutoCommit == Modes \subseteq {TRUE}

(* What is in the layers, and in which phase.                              *)
LayersOK ==
    /\ phase # "idle" => tx.auto
    /\ cache = EmptyDict
    /\ phase \in {"idle", "charging"} => pending_writes = EmptyDict /\ pending_reads = EmptyDict
    /\ phase = "settling" =>
         /\ DOMAIN pending_writes \subseteq {Balance}
         /\ ~tx.meter => pending_writes = EmptyDict /\ pending_reads = EmptyDict

Had == IF before[Balance] = None THEN 0 ELSE before[Balance]

(* The store holds what the transaction found, until it is committed.      *)
StoreKept ==
    /\ phase \in {"running", "failed"} => \A k \in Keys : FSGet(driver, k) = before[k]
    /\ phase \in {"charging", "settling", "idle"} /\ status = 1 =>
         \A k \in Keys \ {Balance} : FSGet(driver, k) = before[k]

FeeKept ==
    /\ phase # "idle" /\ tx.meter /\ tx.enough => Had >= tx.stamps
    /\ phase \in {"running", "failed"} /\ ~spent => Balance \notin DOMAIN pending_writes
    /\ phase = "charging" /\ (status = 1 \/ ~spent) => FSGet(driver, Balance) = before[Balance]
    /\ FeeIsExact

Metered ==
    /\ phase = "idle" => tracer = NewTracer
    /\ phase = "running" \/ (phase = "charging" /\ status = 0) => tx.enough
    /\ phase # "idle" /\ ~(tx.meter /\ tx.enough) => tracer = NewTracer
    /\ phase # "idle" /\ tx.meter /\ tx.enough => tracer.supplied = tx.stamps * Factor
    /\ phase = "running" /\ tx.meter => \E c \in CuCosts : tracer.cost <= tracer.supplied + c
    /\ OverdrawnByALineAtMost

Memory ==
    /\ base = 0 <=> tracer.last = 0
    /\ tracer.total = tracer.last - base
    /\ base <= tracer.last /\ tracer.last <= peak
    /\ phase = "running" \/ (phase = "charging" /\ status = 0) => tracer.total <= MaxMemory

Surroundings ==
    /\ phase = "idle" => env = {} /\ ~seeded
    /\ RuntimeIsItsOwn

Bypassed == bypass => raised \/ (phase # "idle" /\ tx.call = "private")

(* What holds in every mode, and what holds with auto_commit.              *)
Inv == ExecutorTypeOK /\ Metered /\ Memory /\ Surroundings /\ Bypassed

CommittingInv == Inv /\ LayersOK /\ StoreKept /\ FeeKept

-----------------------------------------------------------------------------
(* Numbers.                                                                *)

LEMMA OneMoreFactor ==
    ASSUME NEW s \in Nat, NEW q \in Nat, NEW d \in Nat \ {0}, q < s
    PROVE  q * d + d <= s * d
<1>1. s * d = (q + (s - q)) * d
  OBVIOUS
<1>2. s - q >= 1 /\ s - q \in Nat
  OBVIOUS
<1>3. (s - q) * d >= d
  BY <1>2
<1>4. QED
  BY <1>1, <1>3

(* What overdraws s stamps rounds up to more than s.                       *)
LEMMA OverdraftRoundsUp ==
    ASSUME NEW s \in Nat, NEW x \in Nat, NEW d \in Nat \ {0}, x > s * d
    PROVE  x \div d + 1 > s
<1>1. x \div d \in Nat /\ x % d \in 0..(d - 1) /\ (x \div d) * d + (x % d) = x
  OBVIOUS
<1>2. SUFFICES ASSUME x \div d < s PROVE FALSE
  BY <1>1
<1>3. (x \div d) * d + d <= s * d
  BY <1>1, <1>2, OneMoreFactor
<1>4. (x \div d) * d \in Int /\ s * d \in Int
  BY <1>1
<1>5. QED
  BY <1>1, <1>3, <1>4
-----------------------------------------------------------------------------
(* The layers.                                                             *)

LEMMA Shared ==
    ASSUME TypeOK,
           \/ \E k \in Keys : Get(k)
           \/ \E k \in Keys, v \in MaybeValue : Set(k, v)
           \/ Commit
           \/ RollbackAll
           \/ UNCHANGED caches
    PROVE  TypeOK'
BY TypeNext DEF Next, caches, vars

(* With nothing above it the store is what is read.                        *)
LEMMA ReadsTheStore ==
    ASSUME cache = EmptyDict, pending_writes = EmptyDict, NEW k \in Keys
    PROVE  Find(k) = FSGet(driver, k)
<1>1. k \notin DOMAIN pending_writes /\ k \notin DOMAIN cache
  BY DEF EmptyDict
<1>2. QED
  BY <1>1 DEF Find, FindApplied, Lookup

(* commit() leaves alone what no write is pending for.                     *)
LEMMA CommitKeeps ==
    ASSUME cache = EmptyDict, Commit, NEW k \in Keys, k \notin DOMAIN pending_writes
    PROVE  FSGet(driver', k) = FSGet(driver, k)
<1>1. k \notin DOMAIN Update(cache, pending_writes)
  BY DEF Update, EmptyDict
<1>2. driver'[k] = driver[k]
  BY <1>1 DEF Commit, Committed
<1>3. QED
  BY <1>2 DEF FSGet

(* What is set is read back.                                               *)
LEMMA SetIsRead ==
    ASSUME TypeOK, NEW k \in Keys, NEW v \in Values, Set(k, v)
    PROVE  Find(k)' = v
<1>1. Put(pending_writes, k, v)[k] = v /\ k \in DOMAIN Put(pending_writes, k, v)
  BY DEF Put
<1>2. v # None
  BY NoneAssumption
<1>3. QED
  BY <1>1, <1>2 DEF Set, Find, Lookup

LEMMA SetDomain ==
    ASSUME NEW k, NEW v, Set(k, v)
    PROVE  DOMAIN pending_writes' = DOMAIN pending_writes \cup {k}
BY DEF Set, Put

LEMMA AmountType ==
    ASSUME TypeOK, NEW k \in Keys
    PROVE  /\ Amount(k) \in Nat
           /\ Amount(k) \in Values
           /\ \A n \in Int : n <= Amount(k) /\ n >= 0 => n \in Values
<1>1. Find(k) \in MaybeValue
  BY FindType
<1>2. Amount(k) \in Values
  BY <1>1, ExecutorAssumption DEF Amount, MaybeValue
<1>3. Amount(k) \in Nat /\ 0..Amount(k) \subseteq Values
  BY <1>2, ExecutorAssumption
<1>4. ASSUME NEW n \in Int, n <= Amount(k), n >= 0 PROVE n \in Values
  BY <1>3, <1>4
<1>5. QED
  BY <1>2, <1>3, <1>4

-----------------------------------------------------------------------------
(* The type of the tracer and of what is charged.                          *)

LEMMA BalanceType ==
    ASSUME ExecutorTypeOK
    PROVE  /\ Balance \in Keys
           /\ tx.sender \in Senders
           /\ tx.stamps \in Nat
           /\ tx.meter \in BOOLEAN /\ tx.enough \in BOOLEAN
BY ExecutorAssumption DEF ExecutorTypeOK, TxType, Balance

LEMMA TracerSteps ==
    ASSUME NEW t \in TracerType, NEW c \in Nat, NEW memory \in Nat
    PROVE  /\ AddCost(t, c) \in TracerType
           /\ TraceLine(t, c, memory) \in TracerType
           /\ Stop(t) \in TracerType /\ Start(t) \in TracerType
           /\ NewTracer \in TracerType
           /\ \A n \in Nat : SetStamp(t, n) \in TracerType
<1>1. NewTracer \in TracerType
  BY DEF NewTracer, TracerType
<1>2. SeesMemory(t, memory) \in TracerType
  <2>1. t.last \in Nat /\ t.total \in Int
    BY DEF TracerType
  <2>2. ASSUME NEW n \in Int PROVE [t EXCEPT !.last = memory, !.total = n] \in TracerType
    BY DEF TracerType
  <2> DEFINE known == IF t.last = 0 THEN memory ELSE t.last
             total == IF memory > known THEN t.total + (memory - known) ELSE t.total
  <2>3. total \in Int
    BY <2>1
  <2>4. SeesMemory(t, memory) = [t EXCEPT !.last = memory, !.total = total]
    BY DEF SeesMemory, TracerType
  <2>5. QED
    BY <2>2, <2>3, <2>4
<1>3. Stop(t) \in TracerType /\ Start(t) \in TracerType /\ Stop(SeesMemory(t, memory)) \in TracerType
  BY <1>2 DEF Stop, Start, TracerType
<1>4. \A n \in Nat : SetStamp(t, n) \in TracerType
  BY DEF SetStamp, TracerType
<1>5. TraceLine(t, c, memory) \in TracerType
  BY <1>2, <1>3 DEF TraceLine, TracerType
<1>6. AddCost(t, c) \in TracerType
  <2>1. [t EXCEPT !.cost = @ + c] \in TracerType
    BY DEF TracerType
  <2>2. Stop([t EXCEPT !.cost = @ + c]) \in TracerType
    BY <2>1 DEF Stop, TracerType
  <2>3. QED
    BY <2>1, <2>2 DEF AddCost
<1>7. QED
  BY <1>1, <1>3, <1>4, <1>5, <1>6

LEMMA StampsUsedType ==
    ASSUME ExecutorTypeOK
    PROVE  StampsUsed \in 0..tx.stamps
<1>1. tracer.cost \in Nat
  BY DEF ExecutorTypeOK, TracerType
<1>2. tracer.cost \div Factor \in Nat
  BY <1>1, TracerAssumption
<1>3. QED
  BY <1>2, BalanceType DEF StampsUsed, StampUsed

LEMMA SetUpType ==
    ASSUME tracer \in TracerType, NEW n \in Nat, NEW meter \in BOOLEAN
    PROVE  SetUp(n, meter) \in TracerType
<1>1. n * Factor \in Nat
  BY TracerAssumption
<1>2. SetStamp(tracer, n * Factor) \in TracerType
  BY <1>1, TracerSteps
<1>3. QED
  BY <1>2, TracerSteps DEF SetUp
-----------------------------------------------------------------------------
(* Type correctness.                                                       *)

Requests ==
    {u \in TxType : u.stamps \in Stamps /\ u.auto \in Modes /\ u.meter \in Metering /\ ~u.enough}

LEMMA RequestType ==
    ASSUME NEW t \in Requests
    PROVE  /\ t \in TxType
           /\ t.sender \in Senders /\ BalanceOf[t.sender] \in Keys
           /\ t.stamps \in Nat /\ t.meter \in BOOLEAN
           /\ t.environment \subseteq Environment
           /\ \A e \in BOOLEAN : [t EXCEPT !.enough = e] \in TxType
BY ExecutorAssumption DEF Requests, TxType

LEMMA ExecutorTypeInit == ExecutorInit => ExecutorTypeOK
<1> SUFFICES ASSUME ExecutorInit PROVE ExecutorTypeOK
  OBVIOUS
<1>1. TypeOK
  BY TypeInit DEF ExecutorInit
<1>2. NoTx \in TxType
  BY ExecutorAssumption DEF NoTx, TxType
<1>3. tracer \in TracerType
  BY DEF ExecutorInit, NewTracer, TracerType
<1>4. before \in [Keys -> MaybeValue]
  BY <1>1, FindType DEF ExecutorInit
<1>5. peak \in 1..MaxPeak /\ base \in 0..peak
  BY ExecutorAssumption DEF ExecutorInit
<1>6. QED
  BY <1>1, <1>2, <1>3, <1>4, <1>5 DEF ExecutorInit, ExecutorTypeOK

LEMMA BeginType ==
    ASSUME ExecutorTypeOK, NEW t \in Requests, Begin(t), bypass' \in BOOLEAN, raised' = raised
    PROVE  ExecutorTypeOK'
<1>1. TypeOK'
  BY Shared, RequestType DEF ExecutorTypeOK, Begin
<1>2. tx' \in TxType
  BY RequestType DEF Begin, Enough
<1>3. tracer' \in TracerType
  BY SetUpType, RequestType DEF Begin, ExecutorTypeOK
<1>4. before' \in [Keys -> MaybeValue]
  BY FindType DEF Begin, ExecutorTypeOK
<1>5. env' \subseteq Environment
  BY RequestType DEF Begin, ExecutorTypeOK
<1>6. phase' \in {"running", "failed"}
  BY DEF Begin
<1>7. peak' \in 1..MaxPeak /\ base' \in 0..peak' /\ status' \in {0, 1} /\ written' \in Nat
  BY DEF Begin, ExecutorTypeOK
<1>8. {seeded', bypass', spent', drawable', raised'} \subseteq BOOLEAN
  BY DEF Begin, ExecutorTypeOK
<1>9. QED
  BY <1>1, <1>2, <1>3, <1>4, <1>5, <1>6, <1>7, <1>8 DEF ExecutorTypeOK

LEMMA WriteType ==
    ASSUME ExecutorTypeOK, NEW k \in Keys, NEW v \in MaybeValue, Write(k, v)
    PROVE  ExecutorTypeOK'
<1>1. TypeOK'
  BY Shared DEF ExecutorTypeOK, Write
<1>2. WriteCost \in Nat /\ WriteCost + ReadFirst(k) \in Nat
  BY ExecutorAssumption DEF ReadFirst
<1>3. tracer' \in TracerType
  BY <1>2, TracerSteps DEF Write, Deduct, ExecutorTypeOK
<1>4. phase' \in {"running", "failed"}
  BY DEF Write, Deduct, Fail, Continue
<1>5. written' \in Nat
  BY DEF Write, ExecutorTypeOK
<1>6. spent' \in BOOLEAN
  <2>1. spent \in BOOLEAN
    BY DEF ExecutorTypeOK
  <2>2. spent' = spent \/ spent' = (spent \/ k = Balance)
    BY DEF Write, Balance
  <2>3. QED
    BY <2>1, <2>2
<1>7. UNCHANGED <<env, seeded, caller, before, base, drawable, status, peak>>
  BY DEF Write
<1>8. QED
  BY <1>1, <1>3, <1>4, <1>5, <1>6, <1>7 DEF ExecutorTypeOK, caller

LEMMA ExecutorTypeNext ==
    ASSUME ExecutorTypeOK, [ExecutorNext]_evars
    PROVE  ExecutorTypeOK'
<1> USE DEF ExecutorTypeOK
<1>1. ASSUME NEW t \in Requests, Execute(t) PROVE ExecutorTypeOK'
  BY <1>1, BeginType DEF Execute
<1>2. ASSUME NEW t \in Requests, RunPrivateFunction(t) PROVE ExecutorTypeOK'
  BY <1>2, BeginType DEF RunPrivateFunction
<1>3. ASSUME NEW c \in CuCosts, NEW memory \in 1..MaxPeak, Line(c, memory) PROVE ExecutorTypeOK'
  <2>1. TypeOK'
    BY <1>3, Shared DEF Line
  <2>2. tracer' \in TracerType
    BY <1>3, TracerSteps, TracerAssumption DEF Line
  <2>3. peak' \in 1..MaxPeak /\ base' \in 0..peak'
    BY <1>3, ExecutorAssumption DEF Line
  <2>4. QED
    BY <1>3, <2>1, <2>2, <2>3 DEF Line, Fail, Continue, runtime, caller
<1>4. ASSUME NEW k \in Keys, Read(k) PROVE ExecutorTypeOK'
  <2>1. TypeOK'
    BY <1>4, Shared DEF Read
  <2>2. tracer' \in TracerType
    BY <1>4, TracerSteps, ExecutorAssumption DEF Read, Deduct
  <2>3. QED
    BY <1>4, <2>1, <2>2 DEF Read, Deduct, Fail, Continue, runtime, caller, history
<1>5. ASSUME NEW k \in Keys, NEW v \in MaybeValue, Write(k, v) PROVE ExecutorTypeOK'
  BY <1>5, WriteType
<1>6. ASSUME Seed PROVE ExecutorTypeOK'
  <2>1. TypeOK'
    BY <1>6, Shared DEF Seed
  <2>2. QED
    BY <1>6, <2>1 DEF Seed, caller
<1>7. ASSUME Draw \/ Raise PROVE ExecutorTypeOK'
  <2>1. TypeOK'
    BY <1>7, Shared DEF Draw, Raise
  <2>2. QED
    BY <1>7, <2>1 DEF Draw, Raise, Fail, Continue, runtime, caller, history
<1>8. ASSUME Succeed \/ HandleException PROVE ExecutorTypeOK'
  <2>1. TypeOK'
    BY <1>8, Shared DEF Succeed, HandleException
  <2>2. tracer' \in TracerType
    BY <1>8, TracerSteps DEF Succeed, HandleException
  <2>3. QED
    BY <1>8, <2>1, <2>2 DEF Succeed, HandleException, runtime, caller, history
<1>9. ASSUME Charge PROVE ExecutorTypeOK'
  <2> DEFINE rest == Amount(Balance) - StampsUsed
             left == IF rest > 0 THEN rest ELSE 0
  <2>1. Amount(Balance) \in Nat /\ \A n \in Int : n <= Amount(Balance) /\ n >= 0 => n \in Values
    BY AmountType, BalanceType
  <2>2. StampsUsed \in Nat
    BY StampsUsedType, BalanceType
  <2>3. left \in MaybeValue
    BY <2>1, <2>2, ExecutorAssumption DEF MaybeValue
  <2>4. Set(Balance, left) \/ UNCHANGED caches
    BY <1>9 DEF Charge, Balance
  <2>5. TypeOK'
    BY <2>3, <2>4, Shared, BalanceType
  <2>6. QED
    BY <1>9, <2>5 DEF Charge, runtime, caller, history
<1>10. ASSUME Finish PROVE ExecutorTypeOK'
  <2>1. TypeOK'
    BY <1>10, Shared DEF Finish, Settled
  <2>2. tracer' \in TracerType
    BY <1>10, TracerSteps DEF Finish, CleanUp, Reset
  <2>3. bypass' \in BOOLEAN /\ raised' \in BOOLEAN
    <3>1. bypass \in BOOLEAN /\ raised \in BOOLEAN
      OBVIOUS
    <3>2. /\ bypass' = (bypass /\ ~(tx.call = "private" /\ status = 0))
          /\ raised' = IF tx.call = "private" THEN status = 1 ELSE raised
      BY <1>10 DEF Finish
    <3>3. QED
      BY <3>1, <3>2
  <2>4. /\ phase' = "idle" /\ tx' = tx /\ status' = status /\ before' = before /\ peak' = peak
        /\ spent' = FALSE /\ base' = 0 /\ drawable' = FALSE
        /\ written' = 0 /\ env' = {} /\ seeded' = FALSE
    BY <1>10 DEF Finish, CleanUp
  <2>5. base' \in 0..peak' /\ peak' \in 1..MaxPeak
    BY <2>4, ExecutorAssumption
  <2>6. QED
    BY <2>1, <2>2, <2>3, <2>4, <2>5
<1>11. CASE UNCHANGED evars
  <2>1. TypeOK'
    BY <1>11, Shared DEF evars
  <2>2. QED
    BY <1>11, <2>1 DEF evars, runtime, caller, history
<1>12. QED
  BY <1>1, <1>2, <1>3, <1>4, <1>5, <1>6, <1>7, <1>8, <1>9, <1>10, <1>11
  DEF ExecutorNext, Requests
-----------------------------------------------------------------------------
(* Nothing stays pending: what a transaction leaves in the layers is       *)
(* committed or dropped, then its fee is.                                  *)

LEMMA LayersInit == ExecutorInit => LayersOK
BY DEF ExecutorInit, Init, LayersOK

LEMMA LayersNext ==
    ASSUME AutoCommit, ExecutorTypeOK, LayersOK, [ExecutorNext]_evars
    PROVE  LayersOK'
<1>1. ASSUME NEW t \in Requests, Execute(t) \/ RunPrivateFunction(t) PROVE LayersOK'
  <2>1. tx'.auto
    BY <1>1 DEF Execute, RunPrivateFunction, Begin, Requests, TxType, AutoCommit
  <2>2. phase' \in {"running", "failed"} /\ cache' = cache
    BY <1>1 DEF Execute, RunPrivateFunction, Begin, Get, caches
  <2>3. QED
    BY <2>1, <2>2 DEF LayersOK
<1>2. ASSUME phase = "running", phase' \in {"running", "failed"}, cache' = cache, tx' = tx
      PROVE  LayersOK'
  BY <1>2 DEF LayersOK
<1>3. ASSUME NEW c, NEW memory, Line(c, memory) PROVE LayersOK'
  BY <1>2, <1>3 DEF Line, Fail, Continue, caches, caller
<1>4. ASSUME NEW k, Read(k) PROVE LayersOK'
  BY <1>2, <1>4 DEF Read, Deduct, Fail, Continue, Get, caller
<1>5. ASSUME NEW k, NEW v, Write(k, v) PROVE LayersOK'
  BY <1>2, <1>5 DEF Write, Deduct, Fail, Continue, Get, Set, caches, caller
<1>6. ASSUME Seed \/ Draw \/ Raise PROVE LayersOK'
  BY <1>2, <1>6 DEF Seed, Draw, Raise, Fail, Continue, caches, caller
<1>7. ASSUME Succeed \/ HandleException PROVE LayersOK'
  <2>1. tx.auto /\ tx' = tx /\ phase' = "charging"
    BY <1>7 DEF Succeed, HandleException, LayersOK, caller
  <2>2. cache' = EmptyDict /\ pending_writes' = EmptyDict /\ pending_reads' = EmptyDict
    BY <1>7, <2>1 DEF Succeed, HandleException, Commit, RollbackAll, ClearTopCache
  <2>3. QED
    BY <2>1, <2>2 DEF LayersOK
<1>8. ASSUME Charge PROVE LayersOK'
  <2>1. phase = "charging" /\ phase' = "settling" /\ tx' = tx
    BY <1>8 DEF Charge, caller
  <2>2. CASE tx.meter
    <3>1. PICK v : Set(Balance, v)
      BY <1>8, <2>2 DEF Charge, Balance
    <3>2. DOMAIN pending_writes' = {Balance}
      BY <2>1, <3>1, SetDomain DEF LayersOK, EmptyDict
    <3>3. QED
      BY <2>1, <2>2, <3>1, <3>2 DEF LayersOK, Set, Balance
  <2>3. CASE ~tx.meter
    BY <1>8, <2>1, <2>3 DEF Charge, LayersOK, caches, EmptyDict
  <2>4. QED
    BY <2>2, <2>3
<1>9. ASSUME Finish PROVE LayersOK'
  <2>1. phase = "settling" /\ phase' = "idle" /\ tx.auto
    BY <1>9 DEF Finish, LayersOK
  <2>2. cache' = EmptyDict /\ pending_writes' = EmptyDict /\ pending_reads' = EmptyDict
    BY <1>9, <2>1 DEF Finish, Settled, Commit, ClearTopCache, LayersOK, caches
  <2>3. QED
    BY <2>1, <2>2 DEF LayersOK
<1>10. CASE UNCHANGED evars
  BY <1>10 DEF evars, caches, caller, LayersOK, Balance
<1>11. QED
  BY <1>1, <1>3, <1>4, <1>5, <1>6, <1>7, <1>8, <1>9, <1>10 DEF ExecutorNext, Requests

-----------------------------------------------------------------------------
(* A failed transaction leaves its fee alone.                              *)

LEMMA KeptNext ==
    ASSUME ExecutorTypeOK, LayersOK, StoreKept, [ExecutorNext]_evars
    PROVE  StoreKept'
<1>1. ASSUME NEW t \in Requests, Execute(t) \/ RunPrivateFunction(t) PROVE StoreKept'
  <2>1. /\ phase = "idle" /\ phase' \in {"running", "failed"} /\ driver' = driver
        /\ before' = [k \in Keys |-> Find(k)]
    BY <1>1 DEF Execute, RunPrivateFunction, Begin, Get, caches
  <2>2. \A k \in Keys : Find(k) = FSGet(driver, k)
    BY <2>1, ReadsTheStore DEF LayersOK
  <2>3. QED
    BY <2>1, <2>2 DEF StoreKept
<1>2. ASSUME phase = "running", phase' \in {"running", "failed"}, driver' = driver, before' = before
      PROVE  StoreKept'
  BY <1>2 DEF StoreKept
<1>3. ASSUME NEW c, NEW memory, Line(c, memory) PROVE StoreKept'
  BY <1>2, <1>3 DEF Line, Fail, Continue, caches
<1>4. ASSUME NEW k, Read(k) PROVE StoreKept'
  BY <1>2, <1>4 DEF Read, Deduct, Fail, Continue, Get, history
<1>5. ASSUME NEW k, NEW v, Write(k, v) PROVE StoreKept'
  BY <1>2, <1>5 DEF Write, Deduct, Fail, Continue, Get, Set, caches
<1>6. ASSUME Seed \/ Draw \/ Raise PROVE StoreKept'
  BY <1>2, <1>6 DEF Seed, Draw, Raise, Fail, Continue, caches, history
<1>7. ASSUME Succeed PROVE StoreKept'
  BY <1>7 DEF Succeed, StoreKept
<1>8. ASSUME HandleException PROVE StoreKept'
  <2>1. /\ phase = "failed" /\ phase' = "charging" /\ tx' = tx /\ before' = before
        /\ driver' = driver
    BY <1>8 DEF HandleException, RollbackAll, caches, caller, history
  <2>2. QED
    BY <2>1 DEF StoreKept
<1>9. ASSUME Charge PROVE StoreKept'
  <2>1. /\ phase = "charging" /\ phase' = "settling" /\ tx' = tx /\ before' = before
        /\ driver' = driver /\ status' = status
    BY <1>9 DEF Charge, Set, caches, caller, history
  <2>2. QED
    BY <2>1 DEF StoreKept, Balance
<1>10. ASSUME Finish PROVE StoreKept'
  <2>1. /\ phase = "settling" /\ phase' = "idle" /\ tx' = tx /\ before' = before
        /\ status' = status /\ (Commit \/ driver' = driver)
    BY <1>10 DEF Finish, Settled, caches
  <2>2. \A k \in Keys \ {Balance} : FSGet(driver', k) = FSGet(driver, k)
    <3>1. ASSUME NEW k \in Keys \ {Balance} PROVE FSGet(driver', k) = FSGet(driver, k)
      <4>1. k \notin DOMAIN pending_writes /\ cache = EmptyDict
        BY <2>1 DEF LayersOK
      <4>2. QED
        BY <2>1, <4>1, CommitKeeps
    <3>2. QED
      BY <3>1
  <2>3. QED
    BY <2>1, <2>2 DEF StoreKept, Balance
<1>11. CASE UNCHANGED evars
  BY <1>11 DEF evars, caches, caller, history, StoreKept, Balance
<1>12. QED
  BY <1>1, <1>3, <1>4, <1>5, <1>6, <1>7, <1>8, <1>9, <1>10, <1>11 DEF ExecutorNext, Requests
-----------------------------------------------------------------------------
(* The fee is exact.                                                       *)

LEMMA ChargeIsExact ==
    ASSUME ExecutorTypeOK, LayersOK, FeeKept, Charge, tx.meter, tx.enough, status = 1 \/ ~spent
    PROVE  Amount(Balance)' = Had - StampsUsed
<1> DEFINE rest == Amount(Balance) - StampsUsed
           left == IF rest > 0 THEN rest ELSE 0
<1>1. phase = "charging" /\ Set(Balance, left) /\ Balance' = Balance
  BY DEF Charge, Balance, caller
<1>2. Amount(Balance) = Had
  <2>1. Find(Balance) = FSGet(driver, Balance)
    BY <1>1, ReadsTheStore, BalanceType DEF LayersOK
  <2>2. QED
    BY <1>1, <2>1 DEF FeeKept, Had, Amount
<1>3. Had >= tx.stamps /\ StampsUsed \in 0..tx.stamps /\ tx.stamps \in Nat
  BY <1>1, StampsUsedType, BalanceType DEF FeeKept
<1>4. Amount(Balance) \in Nat /\ \A n \in Int : n <= Amount(Balance) /\ n >= 0 => n \in Values
  BY AmountType, BalanceType DEF ExecutorTypeOK
<1>5. left = Had - StampsUsed /\ left \in Values
  BY <1>2, <1>3, <1>4
<1>6. Find(Balance)' = left
  <2>1. TypeOK /\ Balance \in Keys
    BY BalanceType DEF ExecutorTypeOK
  <2>2. Put(pending_writes, Balance, left)[Balance] = left
        /\ Balance \in DOMAIN Put(pending_writes, Balance, left)
    BY DEF Put
  <2>3. left # None
    BY <1>5, NoneAssumption
  <2>4. pending_writes'[Balance'] = left /\ Balance' \in DOMAIN pending_writes'
    BY <1>1, <2>2 DEF Set
  <2>5. QED
    BY <2>3, <2>4 DEF Find, Lookup
<1>7. left # None
  BY <1>5, NoneAssumption
<1>8. QED
  BY <1>5, <1>6, <1>7 DEF Amount

LEMMA FeeNext ==
    ASSUME AutoCommit, ExecutorTypeOK, LayersOK, StoreKept, FeeKept, [ExecutorNext]_evars
    PROVE  FeeKept'
<1>1. ASSUME NEW t \in Requests, Execute(t) \/ RunPrivateFunction(t) PROVE FeeKept'
  <2>1. Begin(t) /\ phase = "idle" /\ phase' \in {"running", "failed"}
    BY <1>1 DEF Execute, RunPrivateFunction, Begin
  <2>2. /\ Balance' = BalanceOf[t.sender] /\ Balance' \in Keys
        /\ tx'.stamps = t.stamps /\ tx'.meter = t.meter
        /\ tx'.enough = Enough(t)
    BY <2>1, RequestType DEF Begin, Balance, TxType
  <2>3. Had' = Amount(BalanceOf[t.sender])
    BY <2>1, <2>2 DEF Begin, Had, Amount
  <2>4. tx'.meter /\ tx'.enough => Had' >= tx'.stamps
    BY <2>2, <2>3 DEF Enough
  <2>5. Balance' \notin DOMAIN pending_writes'
    BY <2>1 DEF Begin, Get, LayersOK, EmptyDict, caches
  <2>6. QED
    BY <2>1, <2>4, <2>5 DEF FeeKept, FeeIsExact
<1>2. ASSUME phase = "running", phase' \in {"running", "failed"}, tx' = tx, before' = before,
             spent' \/ (~spent /\ (Balance \in DOMAIN pending_writes' => Balance \in DOMAIN pending_writes))
      PROVE  FeeKept'
  BY <1>2 DEF FeeKept, FeeIsExact, Had, Balance
<1>3. ASSUME NEW c, NEW memory, Line(c, memory) PROVE FeeKept'
  BY <1>2, <1>3 DEF Line, Fail, Continue, caches, caller
<1>4. ASSUME NEW k, Read(k) PROVE FeeKept'
  BY <1>2, <1>4 DEF Read, Deduct, Fail, Continue, Get, caller, history
<1>5. ASSUME NEW k, NEW v, Write(k, v) PROVE FeeKept'
  <2>1. phase = "running" /\ phase' \in {"running", "failed"} /\ tx' = tx /\ before' = before
    BY <1>5 DEF Write, Deduct, Fail, Continue, caller
  <2>2. CASE pending_writes' = pending_writes /\ spent' = spent
    BY <1>2, <2>1, <2>2
  <2>3. CASE Set(k, v) /\ spent' = (spent \/ k = Balance)
    <3>1. spent' \/ (~spent /\ k # Balance)
      BY <2>3
    <3>2. DOMAIN pending_writes' = DOMAIN pending_writes \cup {k}
      BY <2>3, SetDomain
    <3>3. QED
      BY <1>2, <2>1, <3>1, <3>2
  <2>4. QED
    BY <1>5, <2>2, <2>3 DEF Write, Get, caches, Balance
<1>6. ASSUME Seed \/ Draw \/ Raise PROVE FeeKept'
  BY <1>2, <1>6 DEF Seed, Draw, Raise, Fail, Continue, caches, caller, history
<1>7. ASSUME Succeed PROVE FeeKept'
  <2>1. /\ phase = "running" /\ phase' = "charging" /\ tx' = tx /\ before' = before
        /\ spent' = spent /\ status' = 0 /\ Commit
    BY <1>7 DEF Succeed, LayersOK, caller, history
  <2>2. ~spent => FSGet(driver', Balance) = before[Balance]
    <3>1. SUFFICES ASSUME ~spent PROVE FSGet(driver', Balance) = before[Balance]
      OBVIOUS
    <3>2. Balance \notin DOMAIN pending_writes /\ cache = EmptyDict
      BY <2>1, <3>1 DEF FeeKept, LayersOK
    <3>3. FSGet(driver', Balance) = FSGet(driver, Balance)
      BY <2>1, <3>2, CommitKeeps, BalanceType
    <3>4. QED
      BY <2>1, <3>3, BalanceType DEF StoreKept
  <2>3. QED
    BY <2>1, <2>2 DEF FeeKept, FeeIsExact, Had, Balance
<1>8. ASSUME HandleException PROVE FeeKept'
  <2>1. /\ phase = "failed" /\ phase' = "charging" /\ tx' = tx /\ before' = before
        /\ driver' = driver
    BY <1>8 DEF HandleException, RollbackAll, caches, caller, history
  <2>2. FSGet(driver, Balance) = before[Balance]
    BY <2>1, BalanceType DEF StoreKept
  <2>3. QED
    BY <2>1, <2>2 DEF FeeKept, FeeIsExact, Had, Balance
<1>9. ASSUME Charge PROVE FeeKept'
  <2>1. /\ phase = "charging" /\ phase' = "settling" /\ tx' = tx /\ before' = before
        /\ status' = status /\ spent' = spent /\ tracer' = tracer
    BY <1>9 DEF Charge, caller, history
  <2>2. StampsUsed' = StampsUsed /\ Had' = Had
    BY <2>1 DEF StampsUsed, StampUsed, Had, Balance
  <2>3. FeeIsExact'
    BY <1>9, <2>1, <2>2, ChargeIsExact DEF FeeIsExact, Had
  <2>4. QED
    BY <2>1, <2>2, <2>3 DEF FeeKept
<1>10. ASSUME Finish PROVE FeeKept'
  BY <1>10 DEF Finish, FeeKept, FeeIsExact
<1>11. CASE UNCHANGED evars
  <2>1. UNCHANGED <<pending_writes, cache, driver, tx, before, spent, phase, status, tracer>>
    BY <1>11 DEF evars, caches, caller, history
  <2>2. Amount(Balance)' = Amount(Balance) /\ StampsUsed' = StampsUsed
    BY <2>1 DEF Amount, Balance, Find, FindApplied, StampsUsed, StampUsed
  <2>3. QED
    BY <2>1, <2>2 DEF FeeKept, FeeIsExact, Had, Balance
<1>12. QED
  BY <1>1, <1>3, <1>4, <1>5, <1>6, <1>7, <1>8, <1>9, <1>10, <1>11 DEF ExecutorNext, Requests
-----------------------------------------------------------------------------
(* The stamps and the memory that the tracer counts.                       *)

LEMMA MeteredNext ==
    ASSUME ExecutorTypeOK, Metered, [ExecutorNext]_evars
    PROVE  Metered'
<1> USE DEF OverdrawnByALineAtMost
<1>0. /\ tracer \in TracerType
      /\ \A c \in CuCosts : c \in Nat
      /\ \E c \in CuCosts : TRUE
  BY TracerAssumption DEF ExecutorTypeOK
<1>1. ASSUME NEW t \in Requests, Execute(t) \/ RunPrivateFunction(t) PROVE Metered'
  <2>1. /\ Begin(t) /\ tracer = NewTracer
        /\ tx'.stamps = t.stamps /\ tx'.meter = t.meter /\ tx'.enough = Enough(t)
        /\ t.meter \in BOOLEAN /\ t.stamps \in Nat
    BY <1>1, RequestType DEF Execute, RunPrivateFunction, Begin, Metered, TxType
  <2>2. CASE ~Enough(t)
    BY <2>1, <2>2 DEF Begin, Metered
  <2>3. CASE Enough(t) /\ ~t.meter
    BY <2>1, <2>3 DEF Begin, SetUp, Metered
  <2>4. CASE Enough(t) /\ t.meter
    <3>1. phase' = "running" /\ tracer' = Start(SetStamp(tracer, t.stamps * Factor))
      BY <2>1, <2>4 DEF Begin, SetUp
    <3>2. tracer'.started /\ tracer'.cost = 0 /\ tracer'.supplied = t.stamps * Factor
      BY <3>1, <1>0 DEF Start, SetStamp, TracerType
    <3>3. t.stamps * Factor \in Nat
      BY <2>1, TracerAssumption
    <3>4. \E c \in CuCosts : tracer'.cost <= tracer'.supplied + c
      BY <1>0, <3>2, <3>3
    <3>5. QED
      BY <2>1, <2>4, <3>1, <3>2, <3>4 DEF Metered
  <2>5. QED
    BY <2>2, <2>3, <2>4
<1>2. ASSUME phase = "running", tx' = tx,
             \/ phase' = "running" /\ tracer' = tracer
             \/ phase' = "failed" /\ (tracer' = tracer \/ tracer.started)
             \/ phase' = "running" /\ tracer.started /\ tracer'.started
                /\ \E c \in CuCosts : tracer'.cost <= tracer'.supplied + c,
             tracer'.supplied = tracer.supplied
      PROVE  Metered'
  <2>1. tracer.started => tx.meter /\ tx.enough
    BY <1>2 DEF Metered, NewTracer
  <2>2. CASE tracer' = tracer
    BY <1>2, <2>1, <2>2 DEF Metered
  <2>3. CASE tracer.started /\ phase' = "failed"
    BY <1>2, <2>1, <2>3 DEF Metered
  <2>4. CASE /\ tracer.started /\ phase' = "running"
             /\ tracer'.started
             /\ \E c \in CuCosts : tracer'.cost <= tracer'.supplied + c
    <3>1. tx'.meter /\ tx'.enough /\ tracer'.supplied = tx'.stamps * Factor
      BY <1>2, <2>1, <2>4 DEF Metered
    <3>2. QED
      BY <2>4, <3>1 DEF Metered
  <2>5. QED
    BY <1>2, <2>2, <2>3, <2>4
<1>3. ASSUME NEW c \in CuCosts, NEW memory, Line(c, memory) PROVE Metered'
  <2> DEFINE seen == SeesMemory(tracer, memory)
  <2>1. /\ seen.started = tracer.started /\ seen.cost = tracer.cost
        /\ seen.supplied = tracer.supplied
        /\ DOMAIN seen = DOMAIN tracer
    BY <1>0 DEF SeesMemory, TracerType
  <2>2. tracer'.supplied = tracer.supplied
    BY <1>0, <1>3, <2>1 DEF Line, TraceLine, Stop, TracerType
  <2>3. CASE LineRaises(tracer, c, memory)
    BY <1>2, <1>3, <2>2, <2>3 DEF Line, Fail, caller
  <2>4. CASE ~LineRaises(tracer, c, memory)
    <3>1. tracer' = [seen EXCEPT !.cost = @ + c]
      BY <1>3, <2>4 DEF Line, TraceLine
    <3>2. tracer'.started = tracer.started /\ tracer'.cost = tracer.cost + c
      BY <1>0, <2>1, <3>1 DEF TracerType
    <3>3. tracer.cost <= tracer.supplied
      BY <1>0, <2>4 DEF LineRaises, TracerType
    <3>4. tracer'.cost <= tracer'.supplied + c
      BY <1>0, <2>2, <3>2, <3>3 DEF TracerType
    <3>5. phase' = "running" /\ tx' = tx /\ phase = "running" /\ tracer.started
      BY <1>3, <2>4 DEF Line, Continue, caller
    <3>6. QED
      BY <1>2, <2>2, <3>2, <3>4, <3>5
  <2>5. QED
    BY <2>3, <2>4
<1>4. ASSUME NEW c \in Nat, phase = "running", tx' = tx, Deduct(c) PROVE Metered'
  <2>1. CASE ~tracer.started
    BY <1>2, <1>4, <2>1 DEF Deduct, Continue
  <2>2. CASE tracer.started /\ AddCostRaises(tracer, c)
    <3>1. phase' = "failed" /\ tracer'.supplied = tracer.supplied
      BY <1>0, <1>4, <2>2 DEF Deduct, AddCost, Fail, Stop, TracerType
    <3>2. QED
      BY <1>2, <1>4, <2>2, <3>1
  <2>3. CASE tracer.started /\ ~AddCostRaises(tracer, c)
    <3>1. phase' = "running" /\ tracer' = [tracer EXCEPT !.cost = @ + c]
      BY <1>4, <2>3 DEF Deduct, AddCost, Continue
    <3>2. /\ tracer'.supplied = tracer.supplied /\ tracer'.started
          /\ tracer'.cost = tracer.cost + c
      BY <1>0, <2>3, <3>1 DEF TracerType
    <3>3. tracer'.cost <= tracer'.supplied
      BY <1>0, <1>4, <2>3, <3>2 DEF AddCostRaises, TracerType
    <3>4. \E d \in CuCosts : tracer'.cost <= tracer'.supplied + d
      BY <1>0, <1>4, <3>2, <3>3 DEF TracerType
    <3>5. QED
      BY <1>2, <1>4, <2>3, <3>1, <3>2, <3>4
  <2>4. QED
    BY <2>1, <2>2, <2>3
<1>5. ASSUME NEW k, Read(k) PROVE Metered'
  <2>1. PICK c \in Nat : Deduct(c)
    BY <1>5, ExecutorAssumption DEF Read
  <2>2. QED
    BY <1>4, <1>5, <2>1 DEF Read, caller
<1>6. ASSUME NEW k, NEW v, Write(k, v) PROVE Metered'
  <2>1. phase = "running" /\ tx' = tx
    BY <1>6 DEF Write, caller
  <2>2. (\E c \in Nat : Deduct(c)) \/ (phase' = "failed" /\ tracer' = tracer)
    <3>1. WriteCost \in Nat /\ WriteCost + ReadFirst(k) \in Nat
      BY ExecutorAssumption DEF ReadFirst
    <3>2. QED
      BY <1>6, <3>1 DEF Write, Fail
  <2>3. QED
    BY <1>2, <1>4, <2>1, <2>2
<1>7. ASSUME Seed \/ Draw \/ Raise PROVE Metered'
  BY <1>2, <1>7 DEF Seed, Draw, Raise, Fail, Continue, caller, history
<1>8. ASSUME Succeed \/ HandleException PROVE Metered'
  <2>1. /\ phase' = "charging" /\ tx' = tx /\ tracer' = Stop(tracer)
        /\ \/ phase = "running" /\ status' = 0
           \/ phase = "failed" /\ status' = 1
    BY <1>8 DEF Succeed, HandleException, caller
  <2>2. tracer'.cost = tracer.cost /\ tracer'.supplied = tracer.supplied
    BY <1>0, <2>1 DEF Stop, TracerType
  <2>3. Stop(NewTracer) = NewTracer
    <3>1. NewTracer.started = FALSE
      BY DEF NewTracer
    <3>2. ASSUME NEW t \in TracerType, t.started = FALSE
          PROVE  [t EXCEPT !.started = FALSE] = t
      BY <3>2 DEF TracerType
    <3>3. NewTracer \in TracerType
      BY DEF NewTracer, TracerType
    <3>4. QED
      BY <3>1, <3>2, <3>3 DEF Stop
  <2>4. ~(tx'.meter /\ tx'.enough) => tracer' = NewTracer
    BY <2>1, <2>3 DEF Metered
  <2>5. tx'.meter /\ tx'.enough => tracer'.supplied = tx'.stamps * Factor
    BY <2>1, <2>2 DEF Metered
  <2>6. status' = 0 => tx'.enough
    BY <2>1 DEF Metered
  <2>7. status' = 0 /\ tx'.meter => \E c \in CuCosts : tracer'.cost <= tracer'.supplied + c
    BY <2>1, <2>2 DEF Metered
  <2>8. QED
    BY <2>1, <2>4, <2>5, <2>6, <2>7 DEF Metered
<1>9. ASSUME Charge PROVE Metered'
  BY <1>9 DEF Charge, Metered, caller
<1>10. ASSUME Finish PROVE Metered'
  BY <1>10 DEF Finish, CleanUp, Reset, Metered
<1>11. CASE UNCHANGED evars
  BY <1>11 DEF evars, caller, Metered
<1>12. QED
  BY <1>1, <1>3, <1>5, <1>6, <1>7, <1>8, <1>9, <1>10, <1>11 DEF ExecutorNext, Requests

LEMMA MemoryNext ==
    ASSUME ExecutorTypeOK, Metered, Memory, [ExecutorNext]_evars
    PROVE  Memory'
<1>0. /\ tracer \in TracerType
      /\ peak \in Nat /\ peak >= 1 /\ base \in Nat
  BY DEF ExecutorTypeOK
<1>1. ASSUME NEW t \in Requests, Execute(t) \/ RunPrivateFunction(t) PROVE Memory'
  <2>1. /\ base' = 0 /\ peak' = peak /\ tracer = NewTracer
        /\ tracer' = tracer \/ tracer' = Start(SetStamp(tracer, t.stamps * Factor))
    BY <1>1 DEF Execute, RunPrivateFunction, Begin, SetUp, Metered
  <2>2. NewTracer.last = 0 /\ NewTracer.total = 0
    BY DEF NewTracer
  <2>3. \A n : Start(SetStamp(NewTracer, n)).last = 0 /\ Start(SetStamp(NewTracer, n)).total = 0
    BY DEF Start, SetStamp, NewTracer
  <2>4. tracer'.last = 0 /\ tracer'.total = 0
    BY <2>1, <2>2, <2>3
  <2>5. QED
    BY <1>0, <2>1, <2>4, TracerAssumption DEF Memory
<1>2. ASSUME phase' = "running" => phase = "running",
             phase' = "charging" => phase = "running" \/ status' = 1,
             base' = base, peak' = peak,
             tracer'.last = tracer.last, tracer'.total = tracer.total
      PROVE  Memory'
  BY <1>2 DEF Memory
<1>3. ASSUME NEW c \in CuCosts, NEW memory \in 1..MaxPeak, Line(c, memory) PROVE Memory'
  <2> DEFINE seen == SeesMemory(tracer, memory)
  <2>1. /\ phase = "running" /\ memory >= peak /\ peak' = memory
        /\ base' = IF base = 0 THEN memory ELSE base
    BY <1>3 DEF Line
  <2>2. /\ seen.last = memory
        /\ seen.total = memory - base'
    BY <1>0, <2>1 DEF SeesMemory, TracerType, Memory
  <2>3. tracer'.last = seen.last /\ tracer'.total = seen.total
    <3>1. DOMAIN seen = DOMAIN tracer
      BY DEF SeesMemory
    <3>2. QED
      BY <1>0, <1>3, <3>1 DEF Line, TraceLine, Stop, TracerType
  <2>4. phase' = "running" \/ (phase' = "failed")
    BY <1>3, <2>1 DEF Line, Fail, Continue
  <2>5. phase' = "running" => seen.total <= MaxMemory
    <3>1. phase' = "running" => ~LineRaises(tracer, c, memory)
      BY <1>3 DEF Line, Fail
    <3>2. seen.total \in Int /\ MaxMemory \in Int
      BY <1>0, <2>1, <2>2, TracerAssumption
    <3>3. QED
      BY <3>1, <3>2 DEF LineRaises
  <2>6. base' <= memory /\ base' # 0 /\ memory # 0
    <3>1. memory \in Nat /\ memory >= 1 /\ tracer.last \in Nat
      BY <1>0, ExecutorAssumption DEF TracerType
    <3>2. base <= memory
      BY <1>0, <2>1, <3>1 DEF Memory
    <3>3. QED
      BY <1>0, <2>1, <3>1, <3>2
  <2>7. QED
    BY <2>1, <2>2, <2>3, <2>4, <2>5, <2>6 DEF Memory
<1>4. ASSUME NEW c, Deduct(c)
      PROVE  tracer'.last = tracer.last /\ tracer'.total = tracer.total
  BY <1>0, <1>4 DEF Deduct, AddCost, Stop, TracerType
<1>5. ASSUME NEW k, Read(k) PROVE Memory'
  BY <1>2, <1>4, <1>5 DEF Read, history
<1>6. ASSUME NEW k, NEW v, Write(k, v) PROVE Memory'
  <2>1. phase = "running" /\ base' = base /\ peak' = peak
    BY <1>6 DEF Write
  <2>2. (\E c : Deduct(c)) \/ tracer' = tracer
    BY <1>6 DEF Write
  <2>3. QED
    BY <1>2, <1>4, <2>1, <2>2
<1>7. ASSUME Seed \/ Draw \/ Raise PROVE Memory'
  BY <1>2, <1>7 DEF Seed, Draw, Raise, history
<1>8. ASSUME Succeed \/ HandleException PROVE Memory'
  <2>1. tracer'.last = tracer.last /\ tracer'.total = tracer.total
    BY <1>0, <1>8 DEF Succeed, HandleException, Stop, TracerType
  <2>2. QED
    BY <1>2, <1>8, <2>1 DEF Succeed, HandleException, history
<1>9. ASSUME Charge PROVE Memory'
  BY <1>2, <1>9 DEF Charge, history
<1>10. ASSUME Finish PROVE Memory'
  <2>1. phase' = "idle" /\ base' = 0 /\ peak' = peak /\ tracer' = NewTracer
    BY <1>10 DEF Finish, CleanUp, Reset
  <2>2. tracer'.last = 0 /\ tracer'.total = 0
    BY <2>1 DEF NewTracer
  <2>3. QED
    BY <1>0, <2>1, <2>2 DEF Memory
<1>11. CASE UNCHANGED evars
  BY <1>11 DEF evars, history, Memory
<1>12. QED
  BY <1>1, <1>3, <1>5, <1>6, <1>7, <1>8, <1>9, <1>10, <1>11 DEF ExecutorNext, Requests
-----------------------------------------------------------------------------
(* The environment, the seed and the bypass.                               *)

LEMMA SurroundingsNext ==
    ASSUME Surroundings, [ExecutorNext]_evars
    PROVE  Surroundings'
<1> USE DEF Surroundings, RuntimeIsItsOwn
<1>1. ASSUME NEW t \in Requests, Execute(t) \/ RunPrivateFunction(t) PROVE Surroundings'
  <2>1. /\ env = {} /\ ~seeded /\ seeded' = seeded
        /\ (phase' = "running" /\ env' = env \cup t.environment) \/ phase' = "failed"
        /\ tx'.environment = t.environment
    BY <1>1 DEF Execute, RunPrivateFunction, Begin, Requests, TxType
  <2>2. QED
    BY <2>1
<1>2. ASSUME NEW c, NEW memory, Line(c, memory) PROVE Surroundings'
  BY <1>2 DEF Line, Fail, Continue, runtime, caller
<1>3. ASSUME NEW k, Read(k) PROVE Surroundings'
  BY <1>3 DEF Read, Deduct, Fail, Continue, runtime, caller, history
<1>4. ASSUME NEW k, NEW v, Write(k, v) PROVE Surroundings'
  BY <1>4 DEF Write, Deduct, Fail, Continue, caller
<1>5. ASSUME Seed \/ Draw \/ Raise PROVE Surroundings'
  BY <1>5 DEF Seed, Draw, Raise, Fail, Continue, runtime, caller, history
<1>6. ASSUME Succeed \/ HandleException \/ Charge PROVE Surroundings'
  BY <1>6 DEF Succeed, HandleException, Charge
<1>7. ASSUME Finish PROVE Surroundings'
  BY <1>7 DEF Finish, CleanUp
<1>8. CASE UNCHANGED evars
  BY <1>8 DEF evars, runtime, caller, history
<1>9. QED
  BY <1>1, <1>2, <1>3, <1>4, <1>5, <1>6, <1>7, <1>8 DEF ExecutorNext, Requests

LEMMA BypassedNext ==
    ASSUME ExecutorTypeOK, Bypassed, [ExecutorNext]_evars
    PROVE  Bypassed'
<1> USE DEF Bypassed
<1>1. ASSUME NEW t \in Requests, Execute(t) PROVE Bypassed'
  BY <1>1 DEF Execute, Begin
<1>2. ASSUME NEW t \in Requests, RunPrivateFunction(t) PROVE Bypassed'
  BY <1>2 DEF RunPrivateFunction, Begin, Requests, TxType
<1>3. ASSUME UNCHANGED caller, phase' # "idle" PROVE Bypassed'
  BY <1>3 DEF caller
<1>4. ASSUME NEW c, NEW memory, Line(c, memory) PROVE Bypassed'
  BY <1>3, <1>4 DEF Line, Fail, Continue
<1>5. ASSUME NEW k, Read(k) PROVE Bypassed'
  BY <1>3, <1>5 DEF Read, Deduct, Fail, Continue
<1>6. ASSUME NEW k, NEW v, Write(k, v) PROVE Bypassed'
  BY <1>3, <1>6 DEF Write, Deduct, Fail, Continue
<1>7. ASSUME Seed \/ Draw \/ Raise \/ Succeed \/ HandleException \/ Charge PROVE Bypassed'
  BY <1>3, <1>7 DEF Seed, Draw, Raise, Fail, Continue, Succeed, HandleException, Charge
<1>8. ASSUME Finish PROVE Bypassed'
  <2>1. /\ bypass' = (bypass /\ ~(tx.call = "private" /\ status = 0))
        /\ raised' = IF tx.call = "private" THEN status = 1 ELSE raised
        /\ status \in {0, 1}
    BY <1>8 DEF Finish, ExecutorTypeOK
  <2>2. QED
    BY <2>1
<1>9. CASE UNCHANGED evars
  BY <1>9 DEF evars, caller
<1>10. QED
  BY <1>1, <1>2, <1>4, <1>5, <1>6, <1>7, <1>8, <1>9 DEF ExecutorNext, Requests

-----------------------------------------------------------------------------
LEMMA InvInit == ExecutorInit => CommittingInv
<1> SUFFICES ASSUME ExecutorInit PROVE CommittingInv
  OBVIOUS
<1>1. ExecutorTypeOK /\ LayersOK
  BY ExecutorTypeInit, LayersInit
<1>2. phase = "idle" /\ status = 0 /\ tracer = NewTracer /\ base = 0 /\ peak = 1
      /\ env = {} /\ seeded = FALSE /\ bypass = FALSE
  BY DEF ExecutorInit
<1>3. StoreKept /\ FeeKept
  BY <1>2 DEF StoreKept, FeeKept, FeeIsExact
<1>4. Metered
  BY <1>2 DEF Metered, OverdrawnByALineAtMost
<1>5. Memory
  BY <1>2, TracerAssumption DEF Memory, NewTracer
<1>6. Surroundings /\ Bypassed
  BY <1>2 DEF Surroundings, RuntimeIsItsOwn, Bypassed
<1>7. QED
  BY <1>1, <1>3, <1>4, <1>5, <1>6 DEF Inv, CommittingInv

LEMMA InvNext ==
    ASSUME Inv, [ExecutorNext]_evars
    PROVE  Inv'
BY ExecutorTypeNext, MeteredNext, MemoryNext, SurroundingsNext, BypassedNext DEF Inv

LEMMA CommittingInvNext ==
    ASSUME AutoCommit, CommittingInv, [ExecutorNext]_evars
    PROVE  CommittingInv'
BY InvNext, LayersNext, KeptNext, FeeNext DEF Inv, CommittingInv

LEMMA InvAlways == ExecutorSpec => []Inv
<1>1. ExecutorInit => Inv
  BY InvInit DEF CommittingInv
<1>2. Inv /\ [ExecutorNext]_evars => Inv'
  BY InvNext
<1>3. QED
  BY <1>1, <1>2, PTL DEF ExecutorSpec

LEMMA CommittingInvAlways ==
    ASSUME AutoCommit
    PROVE  ExecutorSpec => []CommittingInv
<1>1. CommittingInv /\ [ExecutorNext]_evars => CommittingInv'
  BY CommittingInvNext
<1>2. QED
  BY InvInit, <1>1, PTL DEF ExecutorSpec

(* Whatever is executed, and however it ends, between two transactions     *)
(* nothing of the last one is pending, when auto_commit is in use.         *)
THEOREM NothingStaysPending == AutoCommit => (ExecutorSpec => []ExecutorInv)
<1> SUFFICES ASSUME AutoCommit PROVE ExecutorSpec => []ExecutorInv
  OBVIOUS
<1>1. CommittingInv => ExecutorInv
  BY DEF CommittingInv, Inv, LayersOK, ExecutorInv, NothingPending
<1>2. QED
  BY <1>1, CommittingInvAlways, PTL

(* A transaction that failed has changed the balance of its sender alone.  *)
THEOREM FailureLeavesTheFee == AutoCommit => (ExecutorSpec => []FailedTxReverts)
<1> SUFFICES ASSUME AutoCommit PROVE ExecutorSpec => []FailedTxReverts
  OBVIOUS
<1>1. CommittingInv => FailedTxReverts
  <2>1. SUFFICES ASSUME CommittingInv, phase = "idle", status = 1, NEW k \in Keys \ {Balance}
                 PROVE  Find(k) = before[k]
    BY DEF FailedTxReverts
  <2>2. Find(k) = FSGet(driver, k)
    BY <2>1, ReadsTheStore DEF CommittingInv, LayersOK
  <2>3. QED
    BY <2>1, <2>2 DEF CommittingInv, StoreKept
<1>2. QED
  BY <1>1, CommittingInvAlways, PTL

(* What is paid is what was used, capped by what was supplied, which only  *)
(* a last line can exceed.                                                 *)
THEOREM FeesAreExact == AutoCommit => (ExecutorSpec => []StampsAreAccounted)
<1> SUFFICES ASSUME AutoCommit PROVE ExecutorSpec => []StampsAreAccounted
  OBVIOUS
<1>1. CommittingInv => StampsAreAccounted
  <2>1. SUFFICES ASSUME CommittingInv PROVE StampsAreAccounted
    OBVIOUS
  <2>2. FeeIsExact /\ OverdrawnByALineAtMost
    BY <2>1 DEF CommittingInv, Inv, FeeKept, Metered
  <2>3. OutOfStampsPaysAll
    <3>1. SUFFICES ASSUME phase = "charging", tx.meter, tx.enough, tracer.cost > tracer.supplied
                   PROVE  StampsUsed = tx.stamps
      BY DEF OutOfStampsPaysAll
    <3>2. tracer.supplied = tx.stamps * Factor
      BY <2>1, <3>1 DEF CommittingInv, Inv, Metered
    <3>3. tracer.cost \in Nat /\ tx.stamps \in Nat
      BY <2>1, BalanceType DEF CommittingInv, Inv, ExecutorTypeOK, TracerType
    <3>4. tracer.cost \div Factor + 1 > tx.stamps
      BY <3>1, <3>2, <3>3, OverdraftRoundsUp, TracerAssumption
    <3>5. QED
      BY <3>4 DEF StampsUsed, StampUsed
  <2>4. QED
    BY <2>2, <2>3 DEF StampsAreAccounted
<1>2. QED
  BY <1>1, CommittingInvAlways, PTL

(* The memory that counts, the environment and the seed are those of the   *)
(* transaction itself.                                                     *)
THEOREM TransactionsAreApart == ExecutorSpec => []NothingIsInherited
<1>1. Inv => NothingIsInherited
  <2>1. SUFFICES ASSUME Inv PROVE NothingIsInherited
    OBVIOUS
  <2>2. RuntimeIsItsOwn
    BY <2>1 DEF Inv, Surroundings
  <2>3. tracer.total = IF base = 0 THEN 0 ELSE tracer.last - base
    BY <2>1 DEF Inv, Memory, ExecutorTypeOK, TracerType
  <2>4. phase = "running" \/ (phase = "charging" /\ status = 0) => tracer.total <= MaxMemory
    BY <2>1 DEF Inv, Memory
  <2>5. MemoryIsItsOwn
    BY <2>3, <2>4 DEF MemoryIsItsOwn
  <2>6. QED
    BY <2>2, <2>5 DEF NothingIsInherited
<1>2. QED
  BY <1>1, InvAlways, PTL

(* Private functions need run_private_function(), or one that raised.      *)
THEOREM PrivatesStayPrivate == ExecutorSpec => PrivatesNeedABypass
<1> DEFINE Step == phase = "idle" /\ phase' # "idle" /\ tx'.private => tx'.call = "private" \/ raised
<1>1. Inv /\ [ExecutorNext]_evars => [Step]_evars
  <2>1. SUFFICES ASSUME Inv, ExecutorNext, phase = "idle", phase' # "idle", tx'.private
                 PROVE  tx'.call = "private" \/ raised
    OBVIOUS
  <2>2. PICK t \in Requests : Execute(t) \/ RunPrivateFunction(t)
    BY <2>1 DEF ExecutorNext, Requests, Line, Read, Write, Seed, Draw, Raise, Succeed,
                HandleException, Charge, Finish
  <2>3. tx'.private = t.private /\ tx'.call = t.call
    BY <2>2 DEF Execute, RunPrivateFunction, Begin, Requests, TxType
  <2>4. QED
    BY <2>1, <2>2, <2>3 DEF Execute, RunPrivateFunction, Refused, Inv, Bypassed
<1>2. QED
  BY <1>1, InvAlways, PTL DEF ExecutorSpec, PrivatesNeedABypass
=============================================================================
