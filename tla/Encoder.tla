------------------------------ MODULE Encoder ------------------------------
(***************************************************************************)
(* encode() and decode() of contracting/db/encoder.py, between the Python  *)
(* values that contracts store and the JSON texts that drivers store.      *)
(* Both are trees: a function from the paths that lead from its root to    *)
(* its nodes, each a tuple of a type and what it holds.  A path is the     *)
(* sequence of keys of dicts and indices of lists that it passes.  In a    *)
(* text an object with one of the five tags is a node of its own: str() of *)
(* a number and bytes.hex() can be read back exactly, and so keep what     *)
(* they are given.  A key of a dict is known by its text, and the dict has *)
(* the set of those that are no strings, but ints, bools or None: a dict   *)
(* with both 1 and '1', which come down to one text, is left out.          *)
(***************************************************************************)
EXTENDS Decimals, Times, Sequences

CONSTANTS
    MongoMin, MongoMax      \* MONGO_MIN_INT = -2^63, MONGO_MAX_INT = 2^63 - 1

ASSUME EncoderAssumption == MongoMin \in Int /\ MongoMax \in Int

Key(k) == <<"key", k>>
Item(i) == <<"item", i>>

(* The nodes that others are below of: what they hold is below them.       *)
DictOver(others) == <<"dict", others>>
PyDict == DictOver({})
PyList == <<"list">>
PyTuple == <<"tuple">>

Scalar(node) == [p \in {<<>>} |-> node]
Root(v) == v[<<>>]

(* Every step of a path leads down from a dict, a list or a tuple.         *)
Steps == ({"key"} \X STRING) \cup ({"item"} \X Nat)
IsTree(v) ==
    /\ v = [p \in DOMAIN v |-> v[p]]
    /\ <<>> \in DOMAIN v
    /\ \A p \in DOMAIN v :
         /\ p \in Seq(Steps)
         /\ \A i \in 1..Len(p) :
              LET above == SubSeq(p, 1, i - 1)
              IN  /\ above \in DOMAIN v
                  /\ IF p[i][1] = "key" THEN v[above][1] = "dict"
                     ELSE v[above] \in {PyList, PyTuple}

-----------------------------------------------------------------------------
(* Mutant: 2^63 - 1 and more are written as they are.                      *)
EncodeIntUpTo(n) ==
    IF MongoMin < n THEN <<"int", n>> ELSE <<"__big_int__", n>>

EncodeInt(n) ==
    IF MongoMin < n /\ n < MongoMax THEN <<"int", n>> ELSE <<"__big_int__", n>>

(* Dicts are searched, and the lists in them, but no tuple, and no list    *)
(* that is the root or in another list.                                    *)
Reached(v, p) ==
    \A i \in 1..Len(p) : p[i][1] = "item" =>
      i > 1 /\ p[i - 1][1] = "key" /\ v[SubSeq(p, 1, i - 1)] = PyList

EncodeInts(v) ==
    [p \in DOMAIN v |->
      IF v[p][1] = "int" /\ Reached(v, p) THEN EncodeInt(v[p][2]) ELSE v[p]]

(* Mutant: the time of day is dropped.                                     *)
FieldsOfDay(moment) == <<moment \div (SecondsInDay * Tick), 0>>

(* The numbers of a __time__: the date, and the time of day.               *)
Fields(moment) == <<moment \div (SecondsInDay * Tick), moment % (SecondsInDay * Tick)>>

(* What json.dumps makes of a node: keys are texts and tuples are lists in *)
(* JSON, and Encoder.default is for what JSON has no form for.             *)
Default(node) ==
    CASE node[1] = "dict" -> PyDict
      [] node = PyTuple -> PyList
      [] node[1] = "Datetime" -> <<"__time__", Fields(node[2])>>
      [] node[1] = "Timedelta" -> <<"__delta__", node[2]>>
      [] node[1] = "bytes" -> <<"__bytes__", node[2]>>
      [] node[1] \in {"Decimal", "ContractingDecimal"} ->
           <<"__fixed__", FixPrecision(node[2])[2]>>
      [] OTHER -> node

(* json.dumps with that default.                                           *)
Dumps(v) == [p \in DOMAIN v |-> Default(v[p])]

Encode(v) == Dumps(EncodeInts(v))

-----------------------------------------------------------------------------
(* as_object and convert, which agree on what Default makes.               *)
AsObject(node) ==
    CASE node[1] = "__time__" -> Datetime(node[2][1] * (SecondsInDay * Tick) + node[2][2])
      [] node[1] = "__delta__" -> OfDaysSeconds(node[2][1], node[2][2])
      [] node[1] = "__bytes__" -> <<"bytes", node[2]>>
      [] node[1] = "__fixed__" -> <<"ContractingDecimal", node[2]>>
      [] node[1] = "__big_int__" -> <<"int", node[2]>>
      [] OTHER -> node

(* decode: json.loads calls as_object for every object.                    *)
Decode(text) == [p \in DOMAIN text |-> AsObject(text[p])]

(* Mutant: what is in a list is left alone.                                *)
ConvertDictOutsideLists(d) ==
    [p \in DOMAIN d |->
      IF \A i \in 1..Len(p) : p[i][1] = "key" THEN AsObject(d[p]) ELSE d[p]]

(* convert_dict, which leaves the lists in lists alone as well.            *)
ConvertDict(d) == [p \in DOMAIN d |-> IF Reached(d, p) THEN AsObject(d[p]) ELSE d[p]]
=============================================================================
