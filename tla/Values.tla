------------------------------- MODULE Values -------------------------------
(***************************************************************************)
(* One variable of a contract.  CacheDriver keeps the Python object that   *)
(* was set, and drivers keep what encode() makes of it: a contract that    *)
(* reads the variable computes with the one or, on a node that has lost    *)
(* its cache, with what decode() makes of the other.                       *)
(***************************************************************************)
EXTENDS Encoder

CONSTANTS
    Inputs,         \* what is set at first: data without a tag of its own
    Numbers,        \* the other operands of computations with numbers
    Dates, Spans,   \* and of those with Datetimes and Timedeltas
    MinExponent,    \* bounds on the exponents of numbers
    MaxExponent,
    MaxSpan,        \* bounds on the days of a Timedelta, and on the seconds of
    MaxFactor,      \* those that are multiplied,
    MaxComputed     \* and on the length of a computation

IsDecimal(node) == node[1] \in {"Decimal", "ContractingDecimal"}
IsNumber(node) == node[1] \in Types

(* A Timedelta made of days and seconds.                                   *)
IsSpan(node) ==
    /\ node[1] = "Timedelta"
    /\ node[2] \in Int \X (0..(SecondsInDay - 1))
    /\ node = <<"Timedelta", node[2], Span(node)>>

(* What contracts can set; encode() raises for decimals that               *)
(* fix_precision() raises for.                                             *)
IsData(node) ==
    \/ node \in {PyList, PyTuple, <<"None">>}
    \/ node \in {"dict"} \X SUBSET STRING
    \/ node \in {"bool"} \X BOOLEAN
    \/ node \in {"str", "bytes"} \X STRING
    \/ node \in {"int"} \X Int
    \/ node \in {"Datetime"} \X Moments
    \/ IsSpan(node)
    \/ /\ node \in {"Decimal", "ContractingDecimal"} \X (Int \X (MinExponent..MaxExponent))
       /\ IsDecimal(FixPrecision(node[2]))

(* The exponents that fix_precision() gives are within the bounds.         *)
ASSUME ValuesAssumption ==
    /\ \A v \in Inputs : IsTree(v) /\ \A p \in DOMAIN v : IsData(v[p])
    /\ \A x \in Numbers : x \in {"int"} \X Int \/ (IsDecimal(x) /\ x[2] \in Int \X Int)
    /\ \A d \in Dates : d \in {"Datetime"} \X Moments
    /\ \A t \in Spans : IsSpan(t)
    /\ {MinExponent, MaxExponent, MaxSpan, MaxFactor} \subseteq Int /\ MaxComputed \in Nat
    /\ MinExponent <= -Lower /\ Upper - 1 <= MaxExponent

VARIABLES
    held,       \* what CacheDriver has in its cache
    text,       \* what the driver has, or NoText before a commit
    computed    \* the computations that led to what is held

vars == <<held, text, computed>>

NoText == Scalar(<<"no text">>)

HasDecimal(v) == \E p \in DOMAIN v : IsDecimal(v[p])

(* A value with texts for the keys of its dicts, and lists for its tuples. *)
JsonForm(node) ==
    CASE node[1] = "dict" -> PyDict
      [] node = PyTuple -> PyList
      [] OTHER -> node
AsJson(v) == [p \in DOMAIN v |-> JsonForm(v[p])]

InputsAsJson == {AsJson(v) : v \in Inputs}

TypeOK ==
    LET node == Root(held)
    IN  /\ CASE IsDecimal(node) ->
                  /\ node[2] \in Int \X (MinExponent..MaxExponent)
                  /\ computed > 0 => Digits(node[2][1]) <= Prec
             [] node[1] = "Datetime" -> node[2] \in Moments
             [] node[1] = "Timedelta" -> IsSpan(node)
             [] OTHER -> HasDecimal(held) \/ held \in Inputs \cup InputsAsJson
        /\ computed \in 0..MaxComputed
        /\ text # NoText /\ Root(text)[1] = "int" =>
             MongoMin < Root(text)[2] /\ Root(text)[2] < MongoMax

Init == held \in Inputs /\ text = NoText /\ computed = 0

(* The contract sets what it has computed; bounds keep results small.      *)
Set(node) ==
    /\ computed < MaxComputed /\ computed' = computed + 1
    /\ held' = Scalar(node)
    /\ text' = NoText

(* set() encodes what it is given: what raises is not set.                 *)
SetNumber(node) ==
    /\ IsDecimal(node) /\ node[2][2] \in MinExponent..MaxExponent
    /\ IsDecimal(FixPrecision(node[2]))
    /\ Set(node)
SetDate(node) == node[2] \in Moments /\ Set(node)
SetSpan(node) == node[2][1] \in -MaxSpan..MaxSpan /\ Set(node)

(* Decimal has no operation on a bool, a str and the like.                 *)
Compute(x, y) ==
    /\ IsNumber(x) /\ IsNumber(y) /\ (IsDecimal(x) \/ IsDecimal(y))
    /\ LET u == IF x[1] = "int" THEN <<"int", FromInt(x[2])>> ELSE x
           w == IF y[1] = "int" THEN <<"int", FromInt(y[2])>> ELSE y
       IN  \/ SetNumber(Add(u, w))
           \/ SetNumber(Subtract(u, w))
           \/ SetNumber(Multiply(u, w))
           \* DivisionByZero or InvalidOperation is raised, or too many digits:
           \/ w[2][1] # 0 /\ SetNumber(Divide(u, w))
           \/ /\ w[2][1] # 0 /\ Digits(Ratio(u[2], w[2])) <= Prec
              /\ \/ SetNumber(FloorDivide(u, w))
                 \/ SetNumber(Modulo(u, w))

Negation == IsDecimal(Root(held)) /\ SetNumber(Negate(Root(held)))

ComputeDate(c) ==
    /\ c[1] = "Datetime"
    /\ \/ \E d \in Dates : SetSpan(Since(c, d))
       \/ \E t \in Spans : SetDate(After(c, t)) \/ SetDate(Ago(t, c))

ComputeSpan(t) ==
    /\ t[1] = "Timedelta"
    /\ \/ \E d \in Dates : SetDate(After(d, t)) \/ SetDate(Ago(t, d))
       \/ \E u \in Spans :
            \/ SetSpan(PlusDelta(t, u))
            \/ SetSpan(MinusDelta(t, u))
            \/ {t[2][2], u[2][2]} \subseteq 0..MaxFactor /\ SetSpan(TimesDelta(t, u))
       \/ \E y \in Numbers : y[1] = "int" /\ SetSpan(TimesInt(t, y[2]))

Commit == text = NoText /\ text' = Encode(held) /\ UNCHANGED <<held, computed>>

(* The cache is dropped, or the variable is read on another node.          *)
Reload == text # NoText /\ held' = Decode(text) /\ UNCHANGED <<text, computed>>

Next ==
    \/ \E y \in Numbers : Compute(Root(held), y) \/ Compute(y, Root(held))
    \/ Negation
    \/ ComputeDate(Root(held))
    \/ ComputeSpan(Root(held))
    \/ Commit
    \/ Reload

Spec == Init /\ [][Next]_vars
-----------------------------------------------------------------------------
(* What is read back is what was set, at whatever depth, but that the keys *)
(* of dicts are texts and tuples are lists; decimals may change, and all   *)
(* that changes does so only once: what was read back reads the same from  *)
(* then on, with or without the cache, and set again or not.               *)
ReadBack ==
    text # NoText =>
      LET back == Decode(text)
      IN  /\ ~HasDecimal(held) => back = AsJson(held)
          /\ AsJson(back) = back /\ Decode(Encode(back)) = back

(* A decimal comes back from disk as no larger a number than the cache     *)
(* has, and smaller by less than one unit of the last decimal, unless it   *)
(* is above the maximum: a plain Decimal, left over from a division, can   *)
(* grow beyond it.                                                         *)
DiskIsNoMore ==
    text # NoText /\ IsDecimal(Root(held)) =>
      LET kept == Root(held)[2]
          back == Root(Decode(text))[2]
      IN  /\ ~Exceeds(back, kept)
          /\ \/ Exceeds(Plus(back, Unit), kept)
             \/ Exceeds(kept, MaxDecimal) /\ SameNumber(back, MaxDecimal)

(* Amounts that are whole in the last decimal and below the maximum are    *)
(* neither created nor lost by a transfer: what one balance loses is what  *)
(* the other gains, whatever types they have by now.                       *)
IsWhole(x) == SameNumber(FlooredTo(x[2], -Lower), x[2])
Small(d) == ~Exceeds(d, MaxDecimal) /\ ~Exceeds(<<-d[1], d[2]>>, MaxDecimal)
TransfersConserve ==
    LET own == Root(held)
    IN  IsDecimal(own) /\ IsWhole(own) /\ Small(own[2]) =>
          \A x, y \in {n \in Numbers : IsDecimal(n) /\ IsWhole(n)} :
            LET paid == Subtract(own, x)
                received == Add(y, x)
            IN  Small(Difference(own[2], x[2])) /\ Small(Sum(y[2], x[2])) =>
                  SameNumber(Sum(paid[2], received[2]), Sum(own[2], y[2]))

(* Whoever divides by a positive number and multiplies by it again gets no *)
(* more than before, negative amounts and plain Decimals included.         *)
SharesAddUpToNoMore ==
    LET own == Root(held)
    IN  IsDecimal(own) =>
          \A y \in {n \in Numbers : IsDecimal(n) /\ n[2][1] > 0} :
            LET share == Divide(own, y)
                whole == Multiply(share, y)
            IN  IsDecimal(share) /\ IsDecimal(whole) => ~Exceeds(whole[2], own[2])

(* Adding the difference of two moments to the earlier one gives the later *)
(* one back, but for its fraction of a second, and a moment is later than  *)
(* another exactly if it is reached by a positive difference or the same   *)
(* second.                                                                 *)
DifferencesLeadBack ==
    LET c == Root(held)
    IN  c[1] = "Datetime" =>
          \A d \in Dates :
            LET gap == Since(c, d)
                back == After(d, gap)
            IN  /\ ~Earlier(c, back)
                /\ c[2] - back[2] < Tick
                /\ Seconds(gap) > 0 => Earlier(d, c)
                /\ Earlier(c, d) => Seconds(gap) < 0

(* A Timedelta is as many of the constants WEEKS, ... as its properties    *)
(* say, down to the second.                                                *)
SpansAreTheirParts ==
    LET t == Root(held)
    IN  t[1] = "Timedelta" =>
          \A w \in Units :
            LET count == CASE Seconds(w) = SecondsInWeek -> Weeks(t)
                           [] Seconds(w) = SecondsInDay -> Days(t)
                           [] Seconds(w) = SecondsInHour -> Hours(t)
                           [] Seconds(w) = SecondsInMinute -> Minutes(t)
                           [] OTHER -> Seconds(t)
            IN  /\ ~Shorter(t, TimesInt(w, count))
                /\ Shorter(t, TimesInt(w, count + 1))

(* convert_dict() reads an object as decode() does, unless there is a list *)
(* in a list.                                                              *)
ListsAreInDicts(v) ==
    \A p \in DOMAIN v : v[p] = PyList => p # <<>> /\ v[SubSeq(p, 1, Len(p) - 1)] = PyDict
ConvertedAlike ==
    text # NoText /\ ListsAreInDicts(text) => ConvertDict(text) = Decode(text)

(* Every value, computed or read back, is one that contracts can have, and *)
(* survives its encoding, whichever decoder reads it.                      *)
ValuesInv == TypeOK /\ ReadBack /\ ConvertedAlike

(* Neither a transfer nor a division and its inverse makes money.          *)
NoMoneyIsMade == TransfersConserve /\ SharesAddUpToNoMore

(* Dates, their differences and the spans made of weeks to seconds agree.  *)
TimesAddUp == DifferencesLeadBack /\ SpansAreTheirParts
=============================================================================
