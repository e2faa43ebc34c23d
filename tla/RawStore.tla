------------------------------ MODULE RawStore ------------------------------
(***************************************************************************)
(* FSDriver of contracting/db/driver.py, the durable "L0 cache": a map     *)
(* from keys to an encoded value and the number of the block that wrote    *)
(* it.  Operators only: each gives the entry that a call leaves under k,   *)
(* and the modules that own a store variable apply them.                   *)
(***************************************************************************)
EXTENDS Integers

CONSTANTS
    Keys,       \* the strings contract.variable:arg used as keys
    Values,     \* the encodable Python values other than None
    None,       \* Python's None
    LongKeys    \* the keys whose file name has FILENAME_LEN_MAX characters or more

ASSUME NoneAssumption == None \notin Values
ASSUME LongKeysAssumption == LongKeys \subseteq Keys

MaybeValue == Values \cup {None}

NoBlock == -1           \* config.BLOCK_NUM_DEFAULT: no block is stored

Store == [Keys -> [value : MaybeValue, block : Int]]

NoEntry == [value |-> None, block |-> NoBlock]
-----------------------------------------------------------------------------
(* A key is an HDF5 group with the attributes "value" and "block", both    *)
(* deleted by every write and created again when they are not None.        *)

FSGet(store, k) == IF k \in LongKeys THEN None ELSE store[k].value

FSSetPlain(store, k, v) ==
    IF k \in LongKeys THEN store[k] ELSE [value |-> v, block |-> NoBlock]

(* Mutant: a late write under an older block number replaces a newer one.  *)
FSSafeSetUnguarded(store, k, v, b) ==
    IF k \in LongKeys THEN store[k] ELSE [value |-> v, block |-> b]

FSSafeSet(store, k, v, b) ==
    IF k \in LongKeys \/ b < store[k].block THEN store[k]
    ELSE [value |-> v, block |-> b]

(* `if block_num:` is false for the integer 0, and true for the text "0".  *)
FSSetInt(store, k, v, b) ==
    IF b = 0 THEN FSSetPlain(store, k, v) ELSE FSSafeSet(store, k, v, b)

FSDelete(store, k) == IF k \in LongKeys THEN store[k] ELSE NoEntry
=============================================================================
