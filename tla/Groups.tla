------------------------------- MODULE Groups -------------------------------
(***************************************************************************)
(* Where FSDriver of contracting/db/driver.py keeps a key: the file and    *)
(* the HDF5 group that its text names, and the text that it makes of a     *)
(* group again.  Texts are sequences of characters, which are numbers.     *)
(***************************************************************************)
EXTENDS Integers, Sequences, FiniteSets

CONSTANTS
    Dot,            \* INDEX_SEPARATOR
    Slash,          \* HDF5_GROUP_SEPARATOR
    Colon,          \* DELIMITER
    Misc            \* the file name __misc

ASSUME GroupsAssumption ==
    /\ {Dot, Slash, Colon} \subseteq Nat /\ Dot # Slash /\ Dot # Colon /\ Slash # Colon
    /\ Misc \in Seq(Nat \ {Dot})

Seqs == INSTANCE SequencesExt

Has(text, c) == Seqs!Contains(text, c)

-----------------------------------------------------------------------------
(* __parse_key: what is before the first dot and what is after it.         *)
HasDot(s) == Has(s, Dot)

FirstDot(s) == Seqs!SelectInSeq(s, LAMBDA c : c = Dot)

FileOf(k) == IF HasDot(k) THEN SubSeq(k, 1, FirstDot(k) - 1) ELSE Misc

VariableOf(k) == IF HasDot(k) THEN SubSeq(k, FirstDot(k) + 1, Len(k)) ELSE k

(* HDF5 takes no notice of the parts of a path that are empty or a dot.    *)
Ends(path, i) == i \notin DOMAIN path \/ path[i] = Slash

Letters(path) ==
    {i \in DOMAIN path :
       path[i] # Slash /\ ~(path[i] = Dot /\ Ends(path, i - 1) /\ Ends(path, i + 1))}

Separators(path) ==
    {i \in DOMAIN path :
       path[i] = Slash /\ i + 1 \in Letters(path) /\ \E j \in Letters(path) : j < i}

(* The characters of a text at some places, in their order.                *)
At(s, places) ==
    [n \in 1..Cardinality(places) |->
       s[CHOOSE i \in places : Cardinality({j \in places : j <= i}) = n]]

Group(path) == At(path, Letters(path) \cup Separators(path))

CellOf(k) == <<FileOf(k), Group(Seqs!ReplaceAll(VariableOf(k), Colon, Slash))>>

(* __get_keys_from_file                                                    *)
KeyOf(cell) == cell[1] \o <<Dot>> \o Seqs!ReplaceAll(cell[2], Slash, Colon)

-----------------------------------------------------------------------------
(* A key that FSDriver lists as it was spelled.                            *)
Spelled(k) == KeyOf(CellOf(k)) = k

(* What is spelled so: after the dot parts that are there, with colons     *)
(* between them, none a dot by itself, and no slash.                       *)
Between(v, i) == i \notin DOMAIN v \/ v[i] = Colon

Ordinary(k) ==
    LET v == VariableOf(k)
    IN  /\ ~Has(v, Slash)
        /\ \A i \in DOMAIN v :
             /\ v[i] = Colon => ~Between(v, i - 1) /\ ~Between(v, i + 1)
             /\ v[i] = Dot => ~(Between(v, i - 1) /\ Between(v, i + 1))
=============================================================================
