------------------------------- MODULE Ledger -------------------------------
(***************************************************************************)
(* What CacheDriver promises a node that executes transactions ahead of    *)
(* consensus: a durable base, the transactions sealed on top of it in the  *)
(* order of their time stamps, and the open one.  A read sees the newest   *)
(* write; finalizing moves the oldest transactions into the base, aborting *)
(* drops the newest ones, and neither disturbs the others.                 *)
(***************************************************************************)
EXTENDS Integers, Dicts

CONSTANTS Keys, Values, None, Hlcs, Time

VARIABLES
    base,   \* the durable value of each key, or None
    txs,    \* the writes of each sealed transaction, by time stamp
    open    \* the writes of the open transaction

ledger == <<base, txs, open>>

Newest(S) == CHOOSE h \in S : \A g \in S : Time[g] <= Time[h]

WritersOf(S, k) == {h \in S : k \in DOMAIN txs[h]}

(* The value of k once the transactions of S are on top of the base.       *)
Over(S, k) ==
    IF WritersOf(S, k) = {} THEN base[k] ELSE txs[Newest(WritersOf(S, k))][k]

Sealed(k) == Over(DOMAIN txs, k)

View(k) == IF k \in DOMAIN open THEN open[k] ELSE Sealed(k)

NotAfter(h) == {g \in DOMAIN txs : Time[g] <= Time[h]}
NotBefore(h) == {g \in DOMAIN txs : Time[h] <= Time[g]}

LedgerInit ==
    /\ base \in [Keys -> Values \cup {None}]
    /\ txs = EmptyDict
    /\ open = EmptyDict

Write(k, v) ==
    /\ open' = Put(open, k, v)
    /\ UNCHANGED <<base, txs>>

Seal(h) ==
    /\ \A g \in DOMAIN txs : Time[g] < Time[h]
    /\ txs' = Put(txs, h, open)
    /\ open' = EmptyDict
    /\ UNCHANGED base

Finalize(h) ==
    /\ h \in DOMAIN txs
    /\ base' = [k \in Keys |-> Over(NotAfter(h), k)]
    /\ txs' = Without(txs, NotAfter(h))
    /\ UNCHANGED open

(* The open transaction goes with the sealed ones, if there are any.       *)
Abort(h) ==
    /\ txs' = Without(txs, NotBefore(h))
    /\ open' = IF DOMAIN txs = {} THEN open ELSE EmptyDict
    /\ UNCHANGED base

AbortAll ==
    /\ txs' = EmptyDict
    /\ open' = EmptyDict
    /\ UNCHANGED base

Merge ==
    /\ DOMAIN txs = {}
    /\ base' = [k \in Keys |-> View(k)]
    /\ open' = EmptyDict
    /\ UNCHANGED txs

LedgerNext ==
    \/ \E k \in Keys, v \in Values : Write(k, v)
    \/ \E h \in Hlcs : Seal(h) \/ Finalize(h) \/ Abort(h)
    \/ AbortAll
    \/ Merge

LedgerSpec == LedgerInit /\ [][LedgerNext]_ledger
=============================================================================
