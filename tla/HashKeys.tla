------------------------------ MODULE HashKeys ------------------------------
(***************************************************************************)
(* How a contract, a variable and an index become a key: make_key() of     *)
(* contracting/db/driver.py, and Hash of contracting/db/orm.py, which      *)
(* refuses the indices that would name the key of another one.  The parts  *)
(* of an index are what str() makes of them, so that h[1] is h['1'].       *)
(***************************************************************************)
EXTENDS Groups

CONSTANTS
    MaxDimensions,  \* MAX_HASH_DIMENSIONS
    MaxKeySize      \* MAX_KEY_SIZE

(* ':'.join(parts)                                                         *)
Joined(parts) ==
    LET text == Seqs!FlattenSeq([i \in DOMAIN parts |-> Append(parts[i], Colon)])
    IN  SubSeq(text, 1, Len(text) - 1)

(* arguments are not checked: the client may name any key of a hash.       *)
MakeKey(contract, variable, arguments) ==
    Joined(<<contract \o <<Dot>> \o variable>> \o arguments)

StartsWith(text, prefix) == Seqs!IsPrefix(prefix, text)

(* Mutant: a part of an index may be any text.                             *)
ValidKeyOfAnyText(index) ==
    Len(index) <= MaxDimensions /\ Len(Joined(index)) <= MaxKeySize

(* _validate_key raises for the others.                                    *)
ValidKey(index) ==
    /\ Len(index) <= MaxDimensions
    /\ \A i \in DOMAIN index : ~Has(index[i], Colon) /\ ~Has(index[i], Dot)
    /\ Len(Joined(index)) <= MaxKeySize

(* A hash is the pair of its contract and its name.                        *)
HashKey(h, index) == MakeKey(h[1], h[2], <<Joined(index)>>)

(* _prefix_for_args: without arguments, or with one empty one, all of it.  *)
PrefixForArgs(h, args) ==
    IF Joined(args) = <<>> THEN HashKey(h, <<>>) ELSE Append(HashKey(h, args), Colon)
=============================================================================
