------------------------------ MODULE MCValues ------------------------------
(* Numbers have two digits before and two after the point, and integers    *)
(* three bits; minutes to weeks are as long as they are.                   *)
EXTENDS Values, TLC

MCMongoMin == -4
MCMinExponent == -3

Decimal(c, e) == <<"Decimal", <<c, e>>>>
Contracting(c, e) == <<"ContractingDecimal", <<c, e>>>>

(* 3, 0.3, 9.99, the plain Decimal 10 and the fraction 1.5E-2.             *)
MCNumbers == {<<"int", 3>>, Contracting(3, -1), Contracting(999, -2), Decimal(1, 1),
              Contracting(15, -3)}

MCDates == {Datetime(0), Datetime(90001), Datetime(3 * SecondsInDay * Tick - 1)}
MCSpans == {Timedelta(0, 1, 0, 0, -1), Timedelta(0, 0, 1, 1, 1), Timedelta(1, 0, 0, -1, 0)}

Leaves == {<<"int", n>> : n \in {-4, -3, 0, 2, 3}}
          \cup {<<"bool", TRUE>>, <<"None">>, <<"str", "a">>, <<"bytes", "b">>,
                Contracting(1, 0), Contracting(-1234, -3), Datetime(90001), Timedelta(1, 2, 3, 4, 5)}

(* The dict or list whose steps lead to those trees.                       *)
Above(node, trees) ==
    LET paths == UNION {{<<step>> \o p : p \in DOMAIN trees[step]} : step \in DOMAIN trees}
    IN  [p \in {<<>>} \cup paths |-> IF p = <<>> THEN node ELSE trees[Head(p)][Tail(p)]]

DictOf(v) == Above(PyDict, Key("k") :> v)
NumberedOf(v) == Above(DictOver({"1"}), Key("1") :> v @@ Key("k") :> v)
ListOf(v, w) == Above(PyList, Item(1) :> v @@ Item(2) :> w)
TupleOf(v) == Above(PyTuple, Item(1) :> v)

MCInputs ==
    LET scalars == {Scalar(node) : node \in Leaves}
    IN  scalars
          \cup {DictOf(v) : v \in scalars}
          \cup {Above(PyDict, Key("k") :> ListOf(v, DictOf(v)) @@ Key("l") :> DictOf(v))
                  : v \in scalars}
          \cup {ListOf(v, Above(PyList, Item(1) :> v)) : v \in scalars}
          \cup {ListOf(DictOf(v), v) : v \in scalars}
          \cup {NumberedOf(v) : v \in scalars}
          \cup {DictOf(TupleOf(v)) : v \in scalars}
          \cup {TupleOf(NumberedOf(v)) : v \in scalars}
=============================================================================
