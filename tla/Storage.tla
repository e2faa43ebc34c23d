------------------------------ MODULE Storage ------------------------------
(***************************************************************************)
(* ContractDriver of contracting/db/driver.py over CacheDriver and an      *)
(* FSDriver: listing the keys under a prefix, clearing a Hash of           *)
(* contracting/db/orm.py, storing and deleting contracts, and              *)
(* set_submission_contract() of contracting/client.py.                     *)
(***************************************************************************)
EXTENDS CacheDriver, HashKeys

CONSTANTS
    Text,       \* what each key reads
    Contracts,  \* names of contracts
    Hashes,     \* the Hash objects: pairs of a contract and a name
    Indices,    \* what contracts index them by, in bounds and out of them
    Args,       \* what they list and clear them by
    CodeName    \* "__code__", which stands for all that set_contract sets

(* Where FSDriver keeps each key, and what it lists it as.                 *)
Place == [k \in Keys |-> CellOf(Text[k])]
Spelling == [k \in Keys |-> KeyOf(Place[k])]

Named(text) == CHOOSE k \in Keys : Text[k] = text

(* The keys that occur, as functions that TLC computes once.               *)
CodeKey == [c \in Contracts |-> Named(MakeKey(c, CodeName, <<>>))]

Items == {i \in Hashes \X Indices : ValidKey(i[2])}
ItemKey == [i \in Items |-> Named(HashKey(i[1], i[2]))]

Listings == {l \in Hashes \X Args : ValidKey(l[2])}
Prefix == [l \in Listings |-> PrefixForArgs(l[1], l[2])]
AttributePrefix == [h \in Hashes |-> Append(MakeKey(h[1], h[2], <<>>), Colon)]
Prefixes == Contracts \cup {Prefix[l] : l \in Listings} \cup {AttributePrefix[h] : h \in Hashes}

Under ==
    [l \in Listings |->
       {i \in Items : i[1] = l[1] /\ Len(i[2]) > Len(l[2]) /\ StartsWith(i[2], l[2])}]

(* What submit_contract() takes for a name, and what Python does.          *)
IsName(text) == text \in Seq(Nat) /\ ~Has(text, Dot) /\ ~Has(text, Colon)

(* An empty argument lists the whole hash, as no argument does, and is     *)
(* left out, as is h[()], which is h[''].  FSDriver must give all keys     *)
(* back as they are spelled: Hash takes h['a/b'] and h['a', ''] too, but   *)
(* the first has the group of h['a', 'b'], the second that of h['a'].      *)
ASSUME StorageAssumption ==
    /\ Text \in [Keys -> Seq(Nat)] /\ \A j, k \in Keys : Text[j] = Text[k] => j = k
    /\ \A k \in Keys : Spelling[k] = Text[k]
    /\ \A c \in Contracts : IsName(c) /\ \E k \in Keys : Text[k] = MakeKey(c, CodeName, <<>>)
    /\ \A h \in Hashes : h = <<h[1], h[2]>> /\ IsName(h[1]) /\ IsName(h[2])
    /\ IsName(CodeName)
    /\ \A i \in Items : \E k \in Keys : Text[k] = HashKey(i[1], i[2])
    /\ Indices \subseteq Seq(Seq(Nat)) \ {<<>>} /\ Args \subseteq Seq(Seq(Nat))
    /\ \A args \in Args : \A i \in DOMAIN args : args[i] # <<>>

VARIABLES
    client,     \* where set_submission_contract() or quick_write() is, and with what
    cleared     \* history: the keys of the items cleared and not set again

svars == <<vars, client, cleared>>

Idle == [step |-> "idle"]

StorageTypeOK ==
    /\ TypeOK
    /\ client \in {Idle} \cup [step : {"write"}] \cup
         [step : {"delete", "set", "commit", "done"}, contract : Contracts, code : Values]
    /\ cleared \subseteq Keys

StorageInit == Init /\ client = Idle /\ cleared = {}

-----------------------------------------------------------------------------
(* Listing.                                                                *)

(* get_groups: a group with an attribute left, if only the block number.   *)
Listed(k) == driver[k] # NoEntry

Matches == [p \in Prefixes |-> {k \in Keys : StartsWith(Text[k], p)}]

(* A prefix without a dot is taken for a key of the file __misc, where     *)
(* nothing that starts with a contract's name is found.                    *)
Iter(p) ==
    IF p \in Contracts THEN {}
    ELSE {k \in Matches[p] : \E j \in Keys : Listed(j) /\ Spelling[j] = Text[k]}

(* The keys under p that a dict holds a value for.                         *)
Held(dict, p) == {k \in Matches[p] \cap DOMAIN dict : dict[k] # None}

(* Mutant: only what was soft applied is looked at.                        *)
ItemKeysOfCache(p) == Held(cache, p) \cup Iter(p)

ItemKeys(p) == Held(pending_writes, p) \cup Held(cache, p) \cup Iter(p)

FromDisk(p) == Iter(p) \ (Held(pending_writes, p) \cup Held(cache, p))

ItemsOf(p) ==
    [k \in ItemKeys(p) |-> IF k \in Held(cache, p) THEN cache[k] ELSE Find(k)]

(* pending_reads after a get() of every key of S.                          *)
ReadsOf(S) ==
    Update(pending_reads, [k \in {x \in S : Lookup(pending_reads, x) = None} |-> Find(k)])

(* items(), keys() and values() leave the reads of the keys on disk.       *)
ListItems(p) ==
    /\ pending_reads' = ReadsOf(FromDisk(p))
    /\ UNCHANGED <<pending_writes, cache, driver, pending_deltas>>

(* AbstractContract.__getattr__: what is no key of the contract may be a   *)
(* hash with items; a protected name is read, and any other key is made a  *)
(* Variable, which reads nothing yet.                                      *)
HashAttribute(h) == ListItems(AttributePrefix[h])

CodeAttribute(c) == CodeKey[c] \in ItemKeys(c) /\ Get(CodeKey[c])

-----------------------------------------------------------------------------
(* Mutant: only the durable keys are deleted.                              *)
ClearDurable(p) ==
    /\ pending_reads' = ReadsOf(Iter(p))
    /\ pending_writes' = Update(pending_writes, [k \in Iter(p) |-> None])
    /\ UNCHANGED <<cache, driver, pending_deltas>>

(* Hash.clear                                                              *)
Clear(p) ==
    /\ pending_reads' = ReadsOf(ItemKeys(p))
    /\ pending_writes' = Update(pending_writes, [k \in ItemKeys(p) |-> None])
    /\ UNCHANGED <<cache, driver, pending_deltas>>

(* set_contract: a contract that is there already stays as it is.          *)
SetContract(c, code) ==
    IF Find(CodeKey[c]) = None THEN Set(CodeKey[c], code) ELSE Get(CodeKey[c])

DeleteContract(c) ==
    LET p == c
    IN  /\ pending_reads' = ReadsOf(FromDisk(p))
        /\ cache' = Without(cache, Held(cache, p))
        /\ pending_writes' = Without(pending_writes, Held(pending_writes, p))
        /\ driver' = [k \in Keys |-> IF k \in ItemKeys(p) THEN FSDelete(driver, k) ELSE driver[k]]
        /\ UNCHANGED pending_deltas

(* Mutant: the directories are not built again.                            *)
FlushForGood ==
    /\ driver' = EmptyDict
    /\ cache' = EmptyDict
    /\ pending_deltas' = EmptyDict
    /\ ClearTopCache

(* The files are removed, and what is pending is dropped.                  *)
Flush ==
    /\ driver' = [k \in Keys |-> NoEntry]
    /\ cache' = EmptyDict
    /\ pending_deltas' = EmptyDict
    /\ ClearTopCache

-----------------------------------------------------------------------------
(* The client: set_submission_contract, three calls in a row and a read;   *)
(* its __init__, which deletes nothing; and quick_write, which commits all *)
(* that is pending with what it sets.                                      *)

(* get_contract, which makes its answer of the code alone.                 *)
GetContract(c) == Get(CodeKey[c])

SubmissionRead(c, code) ==
    /\ client = Idle /\ pending_deltas = EmptyDict
    /\ GetContract(c)
    /\ client' = [step |-> "delete", contract |-> c, code |-> code]
    /\ UNCHANGED cleared

SubmissionDelete ==
    /\ client.step = "delete"
    /\ DeleteContract(client.contract)
    /\ client' = [client EXCEPT !.step = "set"]
    /\ UNCHANGED cleared

ClientStart(c, code) ==
    /\ client = Idle /\ pending_deltas = EmptyDict
    /\ client' = [step |-> "set", contract |-> c, code |-> code]
    /\ UNCHANGED <<vars, cleared>>

SubmissionSet ==
    /\ client.step = "set"
    /\ SetContract(client.contract, client.code)
    /\ client' = [client EXCEPT !.step = "commit"]
    /\ cleared' = cleared \ {CodeKey[client.contract]}

SubmissionCommit ==
    /\ client.step = "commit"
    /\ Commit
    /\ client' = [client EXCEPT !.step = "done"]
    /\ cleared' = {}

SubmissionDone ==
    /\ client.step = "done"
    /\ GetContract(client.contract)
    /\ client' = Idle
    /\ UNCHANGED cleared

Quick == {q \in Hashes \X Indices : \E k \in Keys : Text[k] = MakeKey(q[1][1], q[1][2], q[2])}
QuickKey == [q \in Quick |-> Named(MakeKey(q[1][1], q[1][2], q[2]))]

QuickRead(q) == Get(QuickKey[q])

QuickWrite(q, v) ==
    /\ client = Idle /\ pending_deltas = EmptyDict
    /\ Set(QuickKey[q], v)
    /\ client' = [step |-> "write"]
    /\ cleared' = IF v = None THEN cleared ELSE cleared \ {QuickKey[q]}

QuickCommit ==
    /\ client.step = "write"
    /\ Commit
    /\ client' = Idle
    /\ cleared' = {}

-----------------------------------------------------------------------------
(* Every other call; soft applies come in the order of time, after what is *)
(* pending and what is durable.  Contracts are deleted and transactions    *)
(* committed only when no delta is pending, which would bring back what is *)
(* gone.  A rollback takes back the clears too.                            *)
(* No name in a contract starts with an underscore, so only set_contract() *)
(* sets contract.__code__; foreign objects have no set and no clear.       *)

Latest(h) ==
    /\ \A g \in DOMAIN pending_deltas : Rank[g] < Rank[h]
    /\ \A k \in Keys : driver[k].block <= Nanos[h]

Clears(l) ==
    /\ Clear(Prefix[l])
    /\ cleared' = cleared \cup {ItemKey[i] : i \in Under[l]}

SetItem(i, v) ==
    /\ Set(ItemKey[i], v)
    /\ cleared' = IF v = None THEN cleared ELSE cleared \ {ItemKey[i]}

GetItem(i) == Get(ItemKey[i])

Stores(c, code) == SetContract(c, code) /\ cleared' = cleared \ {CodeKey[c]}

Keeping ==
    \/ \E i \in Items : GetItem(i)
    \/ \E q \in Quick : QuickRead(q)
    \/ \E l \in Listings : ListItems(Prefix[l])
    \/ \E c \in Contracts : ListItems(c)
    \/ \E h \in Hashes : HashAttribute(h)
    \/ \E c \in Contracts : CodeAttribute(c)
    \/ \E c \in Contracts : pending_deltas = EmptyDict /\ DeleteContract(c)
    \/ \E h \in Hlcs : Latest(h) /\ SoftApply(h)
    \/ \E h \in Hlcs : HardApply(h)
    \/ \E S \in SUBSET Keys : BustCache(S)

Forgetting ==
    \/ pending_deltas = EmptyDict /\ Commit
    \/ RollbackAll
    \/ Flush
    \/ \E h \in Hlcs : Rollback(h)

Calls ==
    \/ \E l \in Listings : Clears(l)
    \/ \E i \in Items, v \in MaybeValue : SetItem(i, v)
    \/ \E c \in Contracts, v \in Values : Stores(c, v)
    \/ Keeping /\ UNCHANGED cleared
    \/ Forgetting /\ cleared' = {}

StorageNext ==
    \/ client = Idle /\ Calls /\ UNCHANGED client
    \/ \E c \in Contracts, v \in Values : SubmissionRead(c, v)
    \/ SubmissionDelete
    \/ \E c \in Contracts, v \in Values : ClientStart(c, v)
    \/ SubmissionSet
    \/ SubmissionCommit
    \/ SubmissionDone
    \/ \E q \in Quick, v \in MaybeValue : QuickWrite(q, v)
    \/ QuickCommit

StorageSpec == StorageInit /\ [][StorageNext]_svars
-----------------------------------------------------------------------------
(* What the properties need of the names.  set_var() and quick_write() do  *)
(* not look at an index, so they could put a key under a hash that is no   *)
(* item of it; FSDriver writes nothing of a contract with a long name.     *)
OnlyItems == \A k \in Keys : Has(Text[k], Colon) => \E i \in Items : ItemKey[i] = k
ShortNames == \A c \in Contracts : CodeKey[c] \notin LongKeys

(* Whatever is written, cached, durable or deleted, listing a hash finds   *)
(* a value under exactly the keys that a read finds one under.             *)
ListedIsReadable ==
    \A l \in Listings :
      LET p == Prefix[l]
      IN  /\ {k \in ItemKeys(p) : ItemsOf(p)[k] # None} =
               {k \in {ItemKey[i] : i \in Under[l]} : Find(k) # None}
          /\ \A k \in ItemKeys(p) \ (Held(pending_writes, p) \cap Held(cache, p)) :
               ItemsOf(p)[k] = Find(k)

(* Once committed, no item of a hash that was cleared and not set again is *)
(* left, wherever its value was when the hash was cleared.                 *)
CommitCompletesClear ==
    [][Commit => \A k \in cleared : Find(k)' = None]_svars

(* Different indices are different items: setting one, or clearing those   *)
(* under some arguments, disturbs no reader of another, though all are     *)
(* texts that start alike.  Nor does a write to the disk: no other key is  *)
(* kept in the group of an item.                                           *)
ItemsAreApart ==
    [][/\ pending_writes' # pending_writes
          /\ UNCHANGED <<client, cache, driver, pending_deltas>> =>
            /\ \A i \in Items, v \in MaybeValue : SetItem(i, v) =>
                 \A j \in Items \ {i} : Find(ItemKey[j])' = Find(ItemKey[j])
            /\ \A l \in Listings : Clears(l) =>
                 \A j \in Items \ Under[l] : Find(ItemKey[j])' = Find(ItemKey[j])
       /\ \A k \in Keys : driver'[k] # driver[k] =>
            \A i \in Items : ItemKey[i] # k => Place[ItemKey[i]] # Place[k]]_svars

(* set_submission_contract() leaves a contract, and leaves it durable; so  *)
(* does starting a client over a database that has one.                    *)
SubmissionIsThere ==
    client.step = "done" =>
      LET k == CodeKey[client.contract]
      IN  Find(k) # None /\ driver[k].value = Find(k)

(* The contracts that a client relies on are there, whatever was listed,   *)
(* deleted or flushed in between, and nothing is stored of another type.   *)
StorageInv == StorageTypeOK /\ SubmissionIsThere
=============================================================================
