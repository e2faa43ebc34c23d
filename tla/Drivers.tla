------------------------------ MODULE Drivers ------------------------------
(***************************************************************************)
(* The drivers of contracting/db/driver.py that a CacheDriver can sit on,  *)
(* given the same calls: FSDriver, InMemDriver, and Driver over MongoDB.   *)
(* Keys are sequences of characters here, because the drivers split them,  *)
(* replace characters in them and compare prefixes of them.                *)
(***************************************************************************)
EXTENDS Integers, SequencesExt, Dicts, Groups

CONSTANTS
    Names,              \* the keys in use
    Values,             \* the encodable values other than None
    None,               \* Python's None
    Blocks,             \* the block numbers in use
    Asked,              \* the prefixes that are listed
    Lengths,            \* the lengths that listings are limited to
    Underscore,         \* characters are numbers in the order of their codes
    LongFiles           \* the file names of FILENAME_LEN_MAX or more characters

-----------------------------------------------------------------------------
(* The cells of the keys, as a function that TLC computes once.            *)
Cell == [k \in Names |-> CellOf(k)]

Cells == {Cell[k] : k \in Names}

Files == {FileOf(k) : k \in Names}

LongCells == {c \in Cells : c[1] \in LongFiles}

(* Whether a file is in run_state, not in contract_state.                 *)
OfRunState(f) == IsPrefix(<<Underscore, Underscore>>, f)

(* The integer 0 would count as no block number for FSDriver alone; `x` is *)
(* the same key as `__misc.x`; a slash in the name of a contract would be  *)
(* one in the path of its file; and without a variable there is no group.  *)
ASSUME DriversAssumption ==
    /\ Names \subseteq Seq(Nat)
    /\ Asked \subseteq Seq(Nat)
    /\ Underscore \in Nat
    /\ OfRunState(Misc) /\ Misc \notin LongFiles
    /\ \A k \in Names \cup Asked : HasDot(k) => FileOf(k) # Misc
    /\ \A k \in Names : Cell[k][2] # <<>> /\ FileOf(k) # <<>> /\ ~Has(FileOf(k), Slash)
    /\ Blocks \subseteq Nat \ {0}
    /\ Lengths \subseteq Nat
    /\ None \notin Values \cup Blocks

R == INSTANCE RawStore WITH Keys <- Cells, LongKeys <- LongCells

-----------------------------------------------------------------------------
VARIABLES
    fs,         \* the HDF5 groups of FSDriver,
    files,      \* and the files they are in
    mem,        \* the dict of InMemDriver
    db,         \* the collection of Driver
    numbered    \* history: the keys written with a block number

vars == <<fs, files, mem, db, numbered>>

(* str(None), which InMemDriver keeps for a block number it was not given. *)
TextNone == None

TypeOK ==
    /\ fs \in [Cells -> [value : Values \cup {None}, block : Blocks \cup {R!NoBlock}]]
    /\ files \subseteq Files \ LongFiles
    /\ IsDict(mem, Names, [value : Values, block : Blocks \cup {TextNone}])
    /\ IsDict(db, Names, Values)
    /\ numbered \subseteq Names

Init ==
    /\ fs = [c \in Cells |-> R!NoEntry]
    /\ files = {}
    /\ mem = EmptyDict
    /\ db = EmptyDict
    /\ numbered = {}

-----------------------------------------------------------------------------
(* Reading.                                                                *)

FSGet(k) == R!FSGet(fs, Cell[k])
FSGetBlock(k) == IF Cell[k] \in LongCells THEN R!NoBlock ELSE fs[Cell[k]].block

MemGet(k) == IF k \in DOMAIN mem THEN mem[k].value ELSE None

(* int() of the text None raises ValueError.                               *)
MemGetBlockRaises(k) == k \in DOMAIN mem /\ mem[k].block = TextNone
MemGetBlock(k) ==
    IF k \notin DOMAIN mem \/ MemGetBlockRaises(k) THEN R!NoBlock ELSE mem[k].block

MongoGet(k) == IF k \in DOMAIN db THEN db[k] ELSE None

-----------------------------------------------------------------------------
(* Listing.  All lists are sorted, so that they are sets here.             *)

Before(s, t) ==
    \/ IsStrictPrefix(s, t)
    \/ \E i \in DOMAIN s \cap DOMAIN t :
         s[i] < t[i] /\ \A j \in 1..(i - 1) : s[j] = t[j]

(* The first n of S, or all of them for 0.                                 *)
Cut(S, n) == {k \in S : n = 0 \/ Cardinality({j \in S : Before(j, k)}) < n}

KeysIn(file) == {KeyOf(c) : c \in {d \in Cells : d[1] = file /\ fs[d] # R!NoEntry}}

(* Mutant: only the files of contracts are walked.                         *)
FSKeysOfContracts == UNION {KeysIn(f) : f \in {g \in files : ~OfRunState(g)}}

(* keys() and __get_files: contract_state and run_state.                   *)
FSKeys == UNION {KeysIn(f) : f \in files}

(* Mutant: of run_state only __misc is left out.                           *)
FSContractsButMisc == files \ {Misc}

(* get_contracts: the files of contract_state.                             *)
FSContracts == {f \in files : ~OfRunState(f)}

FSIter(p, n) ==
    IF FileOf(p) \notin files THEN {} ELSE Cut({k \in KeysIn(FileOf(p)) : IsPrefix(p, k)}, n)

(* Mutant: the limit counts the keys that do not start with the prefix.    *)
MemIterCounting(p, n) == {k \in Cut(DOMAIN mem, n) : IsPrefix(p, k)}

MemIter(p, n) == Cut({k \in DOMAIN mem : IsPrefix(p, k)}, n)

(* The prefix is a regular expression, whose dots match any character.     *)
MongoMatches(p, k) ==
    Len(p) <= Len(k) /\ \A i \in DOMAIN p : p[i] = Dot \/ p[i] = k[i]

(* MongoDB may return any of the keys first: the lists of iter().          *)
MongoIters(p, n) ==
    LET S == {k \in DOMAIN db : MongoMatches(p, k)}
    IN  IF n = 0 \/ Cardinality(S) <= n THEN {S} ELSE kSubset(n, S)

-----------------------------------------------------------------------------
(* Writing.                                                                *)

FSWrite(k, entry) ==
    /\ fs' = [fs EXCEPT ![Cell[k]] = entry]
    /\ files' = files \cup ({FileOf(k)} \ LongFiles)

(* Mutant: None is taken for nothing to do.                                *)
MemSetStateUnlessNone(k, v, b) ==
    IF v = None THEN mem ELSE Put(mem, k, [value |-> v, block |-> b])

MemSetState(k, v, b) ==
    IF v = None THEN Without(mem, {k}) ELSE Put(mem, k, [value |-> v, block |-> b])

(* Mutant: a block does not overwrite what it wrote itself.                *)
MemSafeSetLater(k, v, b) ==
    IF b > MemGetBlock(k) THEN MemSetState(k, v, b) ELSE mem

(* Where get_block() raises, safe_set() raises and sets nothing.           *)
MemSafeSet(k, v, b) ==
    IF ~MemGetBlockRaises(k) /\ b >= MemGetBlock(k) THEN MemSetState(k, v, b) ELSE mem

(* Mutant: None is a value like another.                                   *)
MongoSetNone(k, v) == Put(db, k, v)

(* The block number is ignored.                                            *)
MongoSet(k, v) == IF v = None THEN Without(db, {k}) ELSE Put(db, k, v)

(* set(k, v), as by commit().                                              *)
SetPlain(k, v) ==
    /\ FSWrite(k, R!FSSetPlain(fs, Cell[k], v))
    /\ mem' = MemSetState(k, v, TextNone)
    /\ db' = MongoSet(k, v)
    /\ UNCHANGED numbered

(* set(k, v, block_num), as by hard_apply(), and safe_set().               *)
SetNumbered(k, v, b) ==
    /\ FSWrite(k, R!FSSafeSet(fs, Cell[k], v, b))
    /\ mem' = MemSafeSet(k, v, b)
    /\ db' = MongoSet(k, v)
    /\ numbered' = numbered \cup {k}

(* delete(k); of the three only FSDriver leaves something: the file.       *)
Delete(k) ==
    /\ fs' = [fs EXCEPT ![Cell[k]] = R!FSDelete(fs, Cell[k])]
    /\ mem' = Without(mem, {k})
    /\ db' = Without(db, {k})
    /\ UNCHANGED <<files, numbered>>

Flush ==
    /\ fs' = [c \in Cells |-> R!NoEntry]
    /\ files' = {}
    /\ mem' = EmptyDict
    /\ db' = EmptyDict
    /\ numbered' = {}

FileFlushed(f) == [c \in Cells |-> IF c[1] = f THEN R!NoEntry ELSE fs[c]]

(* flush_file(f), next to deleting the keys of that file one by one.       *)
FlushFile(f) ==
    LET gone == {k \in Names : FileOf(k) = f}
    IN  /\ fs' = FileFlushed(f)
        /\ files' = files \ {f}
        /\ mem' = Without(mem, gone)
        /\ db' = Without(db, gone)
        /\ UNCHANGED numbered

Next ==
    \/ \E k \in Names, v \in Values \cup {None} :
         \/ SetPlain(k, v)
         \/ \E b \in Blocks : SetNumbered(k, v, b)
    \/ \E k \in Names : Delete(k)
    \/ \E f \in Files : FlushFile(f)
    \/ Flush

Spec == Init /\ [][Next]_vars
-----------------------------------------------------------------------------
(* The keys that FSDriver keeps where it keeps no other: ordinary ones,    *)
(* that no other key, with a slash or an empty part, comes down to.        *)
Apart ==
    {k \in Names : Ordinary(k) /\ \A j \in Names : Ordinary(j) \/ Cell[j] # Cell[k]}

(* A key that is never written with a block number reads the same from     *)
(* every driver, however its siblings are written, unless its file name is *)
(* too long for FSDriver, which then has nothing.  The dicts tell all keys *)
(* from each other, so that FSDriver must tell the ordinary ones.          *)
PlainReadsAgree ==
    \A k \in Apart \ numbered :
      /\ MongoGet(k) = MemGet(k)
      /\ FSGet(k) = IF FileOf(k) \in LongFiles THEN None ELSE MemGet(k)

(* Where block numbers are used, InMemDriver never has a later block than  *)
(* FSDriver, and what both have from the same block is the same: a delete  *)
(* is the only write after which one of them takes an older block.         *)
LaterBlockWins ==
    \A k \in {n \in Apart : FileOf(n) \notin LongFiles} :
      /\ MemGetBlock(k) <= FSGetBlock(k)
      /\ MemGetBlock(k) = FSGetBlock(k) => MemGet(k) = FSGet(k)

(* Where the drivers can list the same: below contract.variable, of keys   *)
(* that have no block numbers and that FSDriver gives back as they were.   *)
Comparable(p) ==
    /\ HasDot(p) /\ FileOf(p) \notin LongFiles
    /\ \A k \in Names : FileOf(k) = FileOf(p) => Ordinary(k)
    /\ \A k \in Names : MongoMatches(p, k) => k \notin numbered

(* There FSDriver and InMemDriver list the same keys in the same order     *)
(* under the same limit.  MongoDB may find others too, as a dot of the     *)
(* prefix matches every character of a name, and any of them first; but it *)
(* misses none as long as it stays below the limit, or has no limit, and   *)
(* under a limit never has fewer than the others.                          *)
ListingsAgree ==
    \A p \in Asked, n \in Lengths : Comparable(p) =>
      /\ FSIter(p, n) = MemIter(p, n)
      /\ \A S \in MongoIters(p, n) :
           LET found == {k \in S : IsPrefix(p, k)}
           IN  /\ found \subseteq FSIter(p, 0)
               /\ n = 0 \/ Cardinality(S) < n => found = FSIter(p, 0)
               /\ n > 0 => Cardinality(S) >= Cardinality(FSIter(p, n))

(* keys() of FSDriver is what iter() finds in one file after the other,    *)
(* and leaves out no key that reads as a value; get_contracts() gives the  *)
(* contract of one unless it is named as the files of run_state are.       *)
KeysAreTheIters ==
    /\ FSKeys = UNION {FSIter(f \o <<Dot>>, 0) : f \in Files}
    /\ \A k \in Names : FSGet(k) # None =>
         /\ KeyOf(Cell[k]) \in FSKeys
         /\ HasDot(k) => (FileOf(k) \in FSContracts <=> ~OfRunState(FileOf(k)))
    /\ \A k \in Names : FileOf(k) \in FSContracts => HasDot(k)

(* Whatever is called, later blocks win in both drivers that number them.  *)
DriversInv == TypeOK /\ LaterBlockWins

(* All ways to list find the same keys, and those that can be read.        *)
ListingsFindTheKeys == ListingsAgree /\ KeysAreTheIters
=============================================================================
