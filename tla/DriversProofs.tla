--------------------------- MODULE DriversProofs ---------------------------
(***************************************************************************)
(* FSDriver, InMemDriver and Driver side by side, for any keys, prefixes,  *)
(* values, blocks and limits.                                              *)
(*                                                                         *)
(* First, about texts: an ordinary key has a group that no other ordinary  *)
(* key has (CellsAreApart) and is listed as it was spelled (KeyIs), a      *)
(* prefix with a dot has keys of one file (PrefixIsOfOneFile), and the     *)
(* first n of a list are n at most (CutIsBounded).  Then what each call    *)
(* leaves under its own key and under the others, the invariant (DInv),    *)
(* and what it gives: later blocks win (LaterBlocksWin), plain keys read   *)
(* the same (PlainKeysReadTheSame) and listings agree (ListingsFind).      *)
(***************************************************************************)
EXTENDS Drivers, FiniteSetTheorems, SequenceTheorems, WellFoundedInduction, TLAPS

(* A set of numbers has a least member, and Min is it.                     *)
LEMMA Least ==
    ASSUME NEW S \in SUBSET Nat, S # {}
    PROVE  Min(S) \in S /\ \A n \in S : Min(S) <= n
<1>1. IsWellFoundedOn(OpToRel(<, Nat), Nat)
  BY NatLessThanWellFounded, Zenon
<1>2. PICK n \in S : \A m \in S : ~(<<m, n>> \in OpToRel(<, Nat))
  BY <1>1, WFMin, Zenon
<1>3. \A m \in S : n <= m
  <2> SUFFICES ASSUME NEW m \in S, ~(n <= m) PROVE FALSE
    OBVIOUS
  <2>1. m \in Nat /\ n \in Nat /\ m < n
    OBVIOUS
  <2>2. <<m, n>> \in OpToRel(<, Nat)
    BY <2>1 DEF OpToRel
  <2>3. QED
    BY <1>2, <2>2
<1>4. \E x \in S : \A y \in S : x =< y
  BY <1>3
<1>5. QED
  BY <1>4 DEF Min

(* str.find and split(".", 1): the first of the dots.                      *)
LEMMA FirstDotIs ==
    ASSUME NEW s \in Seq(Nat), HasDot(s)
    PROVE  /\ FirstDot(s) \in 1..Len(s) /\ s[FirstDot(s)] = Dot
           /\ \A i \in 1..(FirstDot(s) - 1) : s[i] # Dot
<1> DEFINE I == {i \in 1..Len(s) : s[i] = Dot}
<1>1. I # {} /\ I \in SUBSET Nat
  BY DEF HasDot, Has, Seqs!Contains
<1>2. FirstDot(s) = Min(I)
  BY <1>1 DEF FirstDot, Seqs!SelectInSeq, Seqs!Min, Min
<1>3. Min(I) \in I /\ \A n \in I : Min(I) <= n
  BY <1>1, Least
<1>4. ASSUME NEW i \in 1..(FirstDot(s) - 1) PROVE s[i] # Dot
  <2>1. FirstDot(s) \in 1..Len(s) /\ i < FirstDot(s) /\ i \in 1..Len(s)
    BY <1>2, <1>3
  <2>2. i \notin I
    BY <1>2, <1>3, <2>1
  <2>3. QED
    BY <2>1, <2>2
<1>5. QED
  BY <1>2, <1>3, <1>4

LEMMA FirstDotIsThe ==
    ASSUME NEW s \in Seq(Nat), NEW n \in 1..Len(s), s[n] = Dot, \A i \in 1..(n - 1) : s[i] # Dot
    PROVE  HasDot(s) /\ FirstDot(s) = n
<1>1. HasDot(s)
  BY DEF HasDot, Has, Seqs!Contains
<1>2. Len(s) \in Nat
  OBVIOUS
<1>3. FirstDot(s) \in 1..Len(s) /\ s[FirstDot(s)] = Dot /\ \A i \in 1..(FirstDot(s) - 1) : s[i] # Dot
  BY <1>1, FirstDotIs
<1>4. ~(n < FirstDot(s))
  BY <1>2, <1>3
<1>5. ~(FirstDot(s) < n)
  BY <1>2, <1>3
<1>6. QED
  BY <1>1, <1>2, <1>3, <1>4, <1>5

(* A file and a variable, joined by a dot.                                 *)
Dotted(f, v) == f \o <<Dot>> \o v

LEMMA DottedText ==
    ASSUME NEW f \in Seq(Nat), NEW v \in Seq(Nat), NEW s, s = Dotted(f, v)
    PROVE  /\ s \in Seq(Nat) /\ Len(s) = Len(f) + 1 + Len(v)
           /\ s[Len(f) + 1] = Dot
<1>1. <<Dot>> \in Seq(Nat) /\ Len(<<Dot>>) = 1 /\ <<Dot>>[1] = Dot
  BY GroupsAssumption
<1>2. Len(f) \in Nat /\ Len(v) \in Nat
  OBVIOUS
<1>3. QED
  BY <1>1, <1>2 DEF Dotted

LEMMA DottedHead ==
    ASSUME NEW f \in Seq(Nat), NEW v \in Seq(Nat), NEW s, s = Dotted(f, v), NEW i \in 1..Len(f)
    PROVE  s[i] = f[i]
<1>1. <<Dot>> \in Seq(Nat) /\ Len(<<Dot>>) = 1 /\ <<Dot>>[1] = Dot
  BY GroupsAssumption
<1>2. Len(f) \in Nat /\ Len(v) \in Nat
  OBVIOUS
<1>3. QED
  BY <1>1, <1>2 DEF Dotted

LEMMA DottedTail ==
    ASSUME NEW f \in Seq(Nat), NEW v \in Seq(Nat), NEW s, s = Dotted(f, v), NEW i \in 1..Len(v),
           NEW j \in Nat, j = Len(f) + 1 + i
    PROVE  s[j] = v[i]
<1>1. <<Dot>> \in Seq(Nat) /\ Len(<<Dot>>) = 1 /\ <<Dot>>[1] = Dot
  BY GroupsAssumption
<1>2. Len(f) \in Nat /\ Len(v) \in Nat
  OBVIOUS
<1>3. QED
  BY <1>1, <1>2 DEF Dotted

(* The part of a text from one place to its end.                           *)
LEMMA TailText ==
    ASSUME NEW s \in Seq(Nat), NEW m \in 1..(Len(s) + 1), NEW w, w = SubSeq(s, m, Len(s))
    PROVE  w \in Seq(Nat) /\ Len(w) = Len(s) - m + 1
<1>1. Len(s) \in Nat /\ \A i \in m..Len(s) : s[i] \in Nat
  OBVIOUS
<1>2. Len(s) - m + 1 = IF m <= Len(s) THEN Len(s) - m + 1 ELSE 0
  BY <1>1
<1>3. QED
  BY <1>1, <1>2, SubSeqProperties

LEMMA TailHas ==
    ASSUME NEW s \in Seq(Nat), NEW m \in 1..(Len(s) + 1), NEW w, w = SubSeq(s, m, Len(s)),
           NEW i \in 1..Len(w)
    PROVE  w[i] = s[m + i - 1]
<1>1. Len(s) \in Nat /\ \A j \in m..Len(s) : s[j] \in Nat
  OBVIOUS
<1>2. Len(w) = Len(s) - m + 1
  BY TailText
<1>3. i \in 1..(Len(s) - m + 1)
  BY <1>2
<1>4. QED
  BY <1>1, <1>3, SubSeqProperties

(* A file and a variable, joined by the first dot.                         *)
LEMMA FileIs ==
    ASSUME NEW f \in Seq(Nat \ {Dot}), NEW v \in Seq(Nat)
    PROVE  /\ Dotted(f, v) \in Seq(Nat)
           /\ HasDot(Dotted(f, v))
           /\ FileOf(Dotted(f, v)) = f
           /\ VariableOf(Dotted(f, v)) = v
<1>s. PICK s : s = Dotted(f, v)
  OBVIOUS
<1>1. f \in Seq(Nat) /\ <<Dot>> \in Seq(Nat) /\ Len(<<Dot>>) = 1 /\ <<Dot>>[1] = Dot
  BY GroupsAssumption
<1>2. /\ Len(f) \in Nat /\ Len(v) \in Nat
      /\ \A i \in 1..Len(f) : f[i] # Dot
  OBVIOUS
<1>3. /\ s \in Seq(Nat) /\ Len(s) = Len(f) + 1 + Len(v)
      /\ \A i \in 1..Len(f) : s[i] = f[i]
      /\ s[Len(f) + 1] = Dot
      /\ \A i \in 1..Len(v) : s[Len(f) + 1 + i] = v[i]
  <2>1. s \in Seq(Nat) /\ Len(s) = Len(f) + 1 + Len(v)
    BY <1>s, <1>1, DottedText
  <2>2. \A i \in 1..Len(f) : s[i] = f[i]
    BY <1>s, <1>1, DottedHead
  <2>3. s[Len(f) + 1] = Dot
    BY <1>s, <1>1, DottedText
  <2>4. ASSUME NEW i \in 1..Len(v) PROVE s[Len(f) + 1 + i] = v[i]
    <3>1. PICK j \in Nat : j = Len(f) + 1 + i
      BY <1>2
    <3>2. s[j] = v[i]
      BY <1>s, <1>1, <3>1, DottedTail
    <3>3. QED
      BY <3>1, <3>2
  <2>5. QED
    BY <1>2, <2>1, <2>2, <2>3, <2>4
<1>4. HasDot(s) /\ FirstDot(s) = Len(f) + 1
  <2>1. Len(f) + 1 \in 1..Len(s) /\ \A i \in 1..(Len(f) + 1 - 1) : s[i] # Dot
    BY <1>2, <1>3
  <2>2. PICK n \in 1..Len(s) : n = Len(f) + 1
    BY <2>1
  <2>3. s[n] = Dot /\ \A i \in 1..(n - 1) : s[i] # Dot
    BY <1>3, <2>1, <2>2
  <2>4. HasDot(s) /\ FirstDot(s) = n
    BY <1>3, <2>3, FirstDotIsThe
  <2>5. QED
    BY <2>2, <2>4
<1>5. FileOf(s) = SubSeq(s, 1, Len(f)) /\ VariableOf(s) = SubSeq(s, Len(f) + 2, Len(s))
  BY <1>2, <1>4 DEF FileOf, VariableOf
<1>6. SubSeq(s, 1, Len(f)) = f
  <2>1. /\ SubSeq(s, 1, Len(f)) \in Seq(Nat) /\ Len(SubSeq(s, 1, Len(f))) = Len(f)
        /\ \A i \in 1..Len(f) : SubSeq(s, 1, Len(f))[i] = s[i]
    BY <1>2, <1>3
  <2>2. QED
    BY <1>1, <1>2, <1>3, <2>1, SeqEqual
<1>7. SubSeq(s, Len(f) + 2, Len(s)) = v
  <2>w. PICK w : w = SubSeq(s, Len(f) + 2, Len(s))
    OBVIOUS
  <2>m. PICK m : m = Len(f) + 2
    OBVIOUS
  <2>0. m \in 1..(Len(s) + 1)
    BY <1>2, <1>3, <2>m
  <2>1. w \in Seq(Nat) /\ Len(w) = Len(s) - m + 1
    BY <1>3, <2>w, <2>m, <2>0, TailText
  <2>2. Len(w) = Len(v)
    BY <1>2, <1>3, <2>1, <2>m
  <2>3. ASSUME NEW i \in 1..Len(v) PROVE w[i] = v[i]
    <3>1. w[i] = s[m + i - 1]
      BY <1>3, <2>w, <2>m, <2>0, <2>2, TailHas
    <3>2. m + i - 1 = Len(f) + 1 + i
      BY <1>2, <2>m
    <3>3. QED
      BY <1>3, <3>1, <3>2
  <2>4. w = v
    BY <2>1, <2>2, <2>3, SeqEqual
  <2>5. QED
    BY <2>w, <2>4
<1>8. QED
  BY <1>s, <1>3, <1>4, <1>5, <1>6, <1>7

(* And conversely, a text with a dot is a file and a variable so joined.   *)
LEMMA DottedIs ==
    ASSUME NEW s \in Seq(Nat), HasDot(s)
    PROVE  /\ FileOf(s) \in Seq(Nat \ {Dot}) /\ VariableOf(s) \in Seq(Nat)
           /\ s = Dotted(FileOf(s), VariableOf(s))
           /\ Len(FileOf(s)) = FirstDot(s) - 1
           /\ \A i \in 1..(FirstDot(s) - 1) : FileOf(s)[i] = s[i]
           /\ \A S : s \in Seq(S) => VariableOf(s) \in Seq(S)
<1> DEFINE n == FirstDot(s)
           f == SubSeq(s, 1, n - 1)
           v == SubSeq(s, n + 1, Len(s))
<1>1. n \in 1..Len(s) /\ s[n] = Dot /\ \A i \in 1..(n - 1) : s[i] # Dot
  BY FirstDotIs
<1>2. FileOf(s) = f /\ VariableOf(s) = v
  BY DEF FileOf, VariableOf
<1> HIDE DEF n
<1>3. Len(s) \in Nat /\ \A i \in 1..Len(s) : s[i] \in Nat
  OBVIOUS
<1>4. /\ f \in Seq(Nat \ {Dot}) /\ Len(f) = n - 1
      /\ \A i \in 1..(n - 1) : f[i] = s[i]
  <2>1. \A i \in 1..(n - 1) : s[i] \in Nat \ {Dot}
    BY <1>1, <1>3
  <2>2. QED
    BY <1>1, <1>3, <2>1, SubSeqProperties
<1>5. /\ v \in Seq(Nat) /\ Len(v) = Len(s) - n
      /\ \A i \in 1..(Len(s) - n) : v[i] = s[n + i]
  <2>1. \A i \in (n + 1)..Len(s) : s[i] \in Nat
    BY <1>1, <1>3
  <2>2. QED
    BY <1>1, <1>3, <2>1, SubSeqProperties
<1>6. ASSUME NEW S, s \in Seq(S) PROVE v \in Seq(S)
  <2>1. \A i \in (n + 1)..Len(s) : s[i] \in S
    BY <1>1, <1>3, <1>6
  <2>2. QED
    BY <1>1, <1>3, <2>1, SubSeqProperties
<1>7. s = Dotted(f, v)
  <2> HIDE DEF f, v
  <2>1. f \in Seq(Nat) /\ v \in Seq(Nat)
    BY <1>4, <1>5
  <2>w. PICK w : w = Dotted(f, v)
    OBVIOUS
  <2>2. /\ w \in Seq(Nat) /\ Len(w) = Len(f) + 1 + Len(v)
        /\ \A i \in 1..Len(f) : w[i] = f[i]
        /\ w[Len(f) + 1] = Dot
        /\ \A i \in 1..Len(v) : w[Len(f) + 1 + i] = v[i]
    <3>1. w \in Seq(Nat) /\ Len(w) = Len(f) + 1 + Len(v)
      BY <2>w, <2>1, DottedText
    <3>2. \A i \in 1..Len(f) : w[i] = f[i]
      BY <2>w, <2>1, DottedHead
    <3>3. w[Len(f) + 1] = Dot
      BY <2>w, <2>1, DottedText
    <3>4. Len(f) \in Nat /\ Len(v) \in Nat
      BY <2>1
    <3>5. ASSUME NEW i \in 1..Len(v) PROVE w[Len(f) + 1 + i] = v[i]
      <4>1. PICK j \in Nat : j = Len(f) + 1 + i
        BY <3>4
      <4>2. w[j] = v[i]
        BY <2>w, <2>1, <4>1, DottedTail
      <4>3. QED
        BY <4>1, <4>2
    <3>6. QED
      BY <3>1, <3>2, <3>3, <3>4, <3>5
  <2>3. Len(w) = Len(s)
    BY <1>1, <1>3, <1>4, <1>5, <2>2
  <2>4. ASSUME NEW i \in 1..Len(s) PROVE w[i] = s[i]
    <3>1. CASE i < n
      BY <1>1, <1>3, <1>4, <2>2, <3>1
    <3>2. CASE i = n
      BY <1>1, <1>3, <1>4, <2>2, <3>2
    <3>3. CASE i > n
      <4>1. i - n \in 1..(Len(s) - n) /\ n + (i - n) = i /\ Len(f) + 1 + (i - n) = i
        BY <1>1, <1>3, <1>4, <3>3
      <4>2. v[i - n] = s[n + (i - n)] /\ w[Len(f) + 1 + (i - n)] = v[i - n]
        BY <1>5, <2>2, <4>1
      <4>3. QED
        BY <4>1, <4>2
    <3>4. QED
      BY <1>1, <1>3, <3>1, <3>2, <3>3
  <2>5. w = s
    BY <2>2, <2>3, <2>4, SeqEqual
  <2>6. QED
    BY <2>w, <2>5
<1>8. QED
  BY <1>2, <1>4, <1>5, <1>6, <1>7 DEF n

(* A text without a slash is what its slashes for colons give back.        *)
LEMMA ReplacedBack ==
    ASSUME NEW v \in Seq(Nat), \A i \in 1..Len(v) : v[i] # Slash
    PROVE  /\ Seqs!ReplaceAll(v, Colon, Slash) \in Seq(Nat)
           /\ Seqs!ReplaceAll(Seqs!ReplaceAll(v, Colon, Slash), Slash, Colon) = v
<1> DEFINE w == Seqs!ReplaceAll(v, Colon, Slash)
           u == Seqs!ReplaceAll(w, Slash, Colon)
<1>1. /\ Len(v) \in Nat /\ v \in [1..Len(v) -> Nat]
      /\ Slash \in Nat /\ Colon \in Nat
  BY GroupsAssumption
<1>2. w \in [1..Len(v) -> Nat] /\ \A i \in 1..Len(v) : w[i] = IF v[i] = Colon THEN Slash ELSE v[i]
  BY <1>1 DEF Seqs!ReplaceAll
<1>3. w \in Seq(Nat) /\ Len(w) = Len(v)
  BY <1>1, <1>2
<1>4. u \in [1..Len(v) -> Nat] /\ \A i \in 1..Len(v) : u[i] = IF w[i] = Slash THEN Colon ELSE w[i]
  BY <1>1, <1>2, <1>3 DEF Seqs!ReplaceAll
<1>5. \A i \in 1..Len(v) : u[i] = v[i]
  BY <1>1, <1>2, <1>4
<1>6. u = v
  BY <1>1, <1>4, <1>5
<1>7. QED
  BY <1>3, <1>6

(* All the characters of a text, in their order.                           *)
LEMMA AtAllPlaces ==
    ASSUME NEW s \in Seq(Nat)
    PROVE  At(s, 1..Len(s)) = s
<1>l. PICK l \in Nat : l = Len(s)
  OBVIOUS
<1>1. Cardinality(1..l) = l
  BY FS_Interval
<1>2. ASSUME NEW i \in 1..l PROVE Cardinality({j \in 1..l : j <= i}) = i
  <2>1. {j \in 1..l : j <= i} = 1..i
    OBVIOUS
  <2>2. Cardinality(1..i) = i
    BY FS_Interval
  <2>3. QED
    BY <2>1, <2>2
<1>3. ASSUME NEW n \in 1..l
      PROVE  (CHOOSE i \in 1..l : Cardinality({j \in 1..l : j <= i}) = n) = n
  BY <1>2
<1> DEFINE Nth(n) == CHOOSE i \in 1..l : Cardinality({j \in 1..l : j <= i}) = n
<1>4. At(s, 1..l) = [n \in 1..l |-> s[n]]
  <2>1. At(s, 1..l) = [n \in 1..Cardinality(1..l) |-> s[Nth(n)]]
    BY DEF At
  <2>2. \A n \in 1..l : Nth(n) = n
    BY <1>3
  <2> HIDE DEF Nth
  <2>3. QED
    BY <1>1, <2>1, <2>2
<1>5. s = [n \in 1..l |-> s[n]]
  BY <1>l
<1>6. QED
  BY <1>l, <1>4, <1>5

(* A path whose parts are all there, and no lone dots, is the group's own. *)
LEMMA GroupIsPath ==
    ASSUME NEW w \in Seq(Nat),
           \A i \in DOMAIN w : /\ w[i] = Slash => ~Ends(w, i - 1) /\ ~Ends(w, i + 1)
                               /\ w[i] = Dot => ~(Ends(w, i - 1) /\ Ends(w, i + 1))
    PROVE  Group(w) = w
<1>1. Len(w) \in Nat /\ DOMAIN w = 1..Len(w)
  OBVIOUS
<1>2. ASSUME NEW i \in DOMAIN w, w[i] # Slash PROVE i \in Letters(w)
  BY <1>2 DEF Letters
<1>3. ASSUME NEW i \in DOMAIN w, w[i] = Slash PROVE i \in Separators(w)
  <2>1. /\ i - 1 \in DOMAIN w /\ w[i - 1] # Slash
        /\ i + 1 \in DOMAIN w /\ w[i + 1] # Slash
    BY <1>3 DEF Ends
  <2>2. i - 1 \in Letters(w) /\ i + 1 \in Letters(w)
    BY <1>2, <2>1
  <2>3. i - 1 < i
    BY <1>1
  <2>4. QED
    BY <1>3, <2>2, <2>3 DEF Separators
<1>4. Letters(w) \cup Separators(w) = 1..Len(w)
  <2>1. Letters(w) \subseteq DOMAIN w /\ Separators(w) \subseteq DOMAIN w
    BY DEF Letters, Separators
  <2>2. QED
    BY <1>1, <1>2, <1>3, <2>1
<1>5. QED
  BY <1>4, AtAllPlaces DEF Group

(* A name is a text, and its file has no dot, even that of no contract.    *)
LEMMA NameIs ==
    ASSUME NEW k \in Names
    PROVE  /\ k \in Seq(Nat) /\ FileOf(k) \in Seq(Nat \ {Dot})
           /\ VariableOf(k) \in Seq(Nat)
<1>1. k \in Seq(Nat)
  BY DriversAssumption
<1>2. CASE HasDot(k)
  BY <1>1, <1>2, DottedIs
<1>3. CASE ~HasDot(k)
  BY <1>1, <1>3, GroupsAssumption DEF FileOf, VariableOf
<1>4. QED
  BY <1>1, <1>2, <1>3

(* The group of an ordinary key is its variable, with slashes for colons.  *)
LEMMA OrdinaryGroup ==
    ASSUME NEW k, Ordinary(k), VariableOf(k) \in Seq(Nat)
    PROVE  /\ CellOf(k) = <<FileOf(k), Seqs!ReplaceAll(VariableOf(k), Colon, Slash)>>
           /\ Seqs!ReplaceAll(CellOf(k)[2], Slash, Colon) = VariableOf(k)
<1>v. PICK v \in Seq(Nat) : v = VariableOf(k)
  OBVIOUS
<1>w. PICK w : w = Seqs!ReplaceAll(v, Colon, Slash)
  OBVIOUS
<1>1. /\ \A i \in DOMAIN v : v[i] # Slash
      /\ \A i \in DOMAIN v : /\ v[i] = Colon => ~Between(v, i - 1) /\ ~Between(v, i + 1)
                             /\ v[i] = Dot => ~(Between(v, i - 1) /\ Between(v, i + 1))
  <2>1. DOMAIN v = 1..Len(v)
    OBVIOUS
  <2>2. QED
    BY <1>v, <2>1 DEF Ordinary, Has, Seqs!Contains
<1>2. w \in Seq(Nat) /\ Seqs!ReplaceAll(w, Slash, Colon) = v
  <2>1. \A i \in 1..Len(v) : v[i] # Slash
    BY <1>1
  <2>2. /\ Seqs!ReplaceAll(v, Colon, Slash) \in Seq(Nat)
        /\ Seqs!ReplaceAll(Seqs!ReplaceAll(v, Colon, Slash), Slash, Colon) = v
    BY <2>1, ReplacedBack
  <2>3. QED
    BY <1>w, <2>2
<1>3. /\ DOMAIN w = DOMAIN v
      /\ \A i \in DOMAIN v : w[i] = IF v[i] = Colon THEN Slash ELSE v[i]
  BY <1>w DEF Seqs!ReplaceAll
<1>4. \A i : Ends(w, i) <=> Between(v, i)
  <2>1. ASSUME NEW i PROVE Ends(w, i) <=> Between(v, i)
    <3>1. CASE i \in DOMAIN v
      BY <1>1, <1>3, <3>1, GroupsAssumption DEF Ends, Between
    <3>2. CASE i \notin DOMAIN v
      BY <1>3, <3>2 DEF Ends, Between
    <3>3. QED
      BY <3>1, <3>2
  <2>2. QED
    BY <2>1
<1>5. ASSUME NEW i \in DOMAIN w
      PROVE  /\ w[i] = Slash => ~Ends(w, i - 1) /\ ~Ends(w, i + 1)
             /\ w[i] = Dot => ~(Ends(w, i - 1) /\ Ends(w, i + 1))
  <2>1. w[i] = Slash => v[i] = Colon
    BY <1>1, <1>3
  <2>2. w[i] = Dot => v[i] = Dot
    BY <1>3, GroupsAssumption
  <2>3. QED
    BY <1>1, <1>3, <1>4, <2>1, <2>2
<1>6. Group(w) = w
  BY <1>2, <1>5, GroupIsPath
<1>7. CellOf(k) = <<FileOf(k), w>>
  BY <1>v, <1>w, <1>6 DEF CellOf
<1>8. QED
  BY <1>v, <1>w, <1>2, <1>7

(* FSDriver gives an ordinary key back as it was spelled, in its file, if  *)
(* it has a dot, and keeps no two ordinary keys in one group.              *)
LEMMA KeyIs ==
    ASSUME NEW k \in Names, Ordinary(k), HasDot(k)
    PROVE  KeyOf(Cell[k]) = k
<1>1. /\ Cell[k] = CellOf(k) /\ CellOf(k)[1] = FileOf(k)
      /\ Seqs!ReplaceAll(CellOf(k)[2], Slash, Colon) = VariableOf(k)
  BY NameIs, OrdinaryGroup DEF Cell, CellOf
<1>2. k = Dotted(FileOf(k), VariableOf(k))
  BY NameIs, DottedIs
<1>3. QED
  BY <1>1, <1>2 DEF KeyOf, Dotted

LEMMA CellsAreApart ==
    ASSUME NEW j \in Names, NEW k \in Names, Ordinary(j), Ordinary(k), Cell[j] = Cell[k]
    PROVE  j = k
<1>1. FileOf(j) = FileOf(k) /\ CellOf(j) = CellOf(k)
  BY DEF Cell, CellOf
<1>2. HasDot(j) <=> HasDot(k)
  BY <1>1, DriversAssumption DEF FileOf
<1>3. VariableOf(j) = VariableOf(k)
  BY <1>1, NameIs, OrdinaryGroup
<1>4. CASE HasDot(j)
  BY <1>1, <1>2, <1>3, <1>4, NameIs, DottedIs, Zenon
<1>5. CASE ~HasDot(j)
  BY <1>2, <1>3, <1>5 DEF VariableOf
<1>6. QED
  BY <1>4, <1>5

-----------------------------------------------------------------------------
(* Prefixes and the order of the lists.                                    *)

LEMMA PrefixIs ==
    ASSUME NEW s \in Seq(Nat), NEW t \in Seq(Nat)
    PROVE  IsPrefix(s, t) <=> Len(s) <= Len(t) /\ \A i \in 1..Len(s) : s[i] = t[i]
<1>1. Len(s) \in Nat /\ Len(t) \in Nat
  OBVIOUS
<1>2. SubSeq(s, 1, Len(s)) = s
  <2>1. /\ SubSeq(s, 1, Len(s)) \in Seq(Nat) /\ Len(SubSeq(s, 1, Len(s))) = Len(s)
        /\ \A i \in 1..Len(s) : SubSeq(s, 1, Len(s))[i] = s[i]
    BY <1>1
  <2>2. QED
    BY <2>1, SeqEqual
<1>3. ASSUME Len(s) <= Len(t)
      PROVE  /\ SubSeq(t, 1, Len(s)) \in Seq(Nat) /\ Len(SubSeq(t, 1, Len(s))) = Len(s)
             /\ \A i \in 1..Len(s) : SubSeq(t, 1, Len(s))[i] = t[i]
  BY <1>1, <1>3
<1>4. ASSUME IsPrefix(s, t)
      PROVE  Len(s) <= Len(t) /\ \A i \in 1..Len(s) : s[i] = t[i]
  BY <1>2, <1>3, <1>4 DEF IsPrefix
<1>5. ASSUME Len(s) <= Len(t), \A i \in 1..Len(s) : s[i] = t[i]
      PROVE  IsPrefix(s, t)
  <2>1. s = SubSeq(t, 1, Len(s))
    BY <1>3, <1>5, SeqEqual
  <2>2. QED
    BY <1>2, <1>5, <2>1 DEF IsPrefix
<1>6. QED
  BY <1>4, <1>5

(* A prefix with a dot is one of keys in one file.                         *)
LEMMA PrefixIsOfOneFile ==
    ASSUME NEW p \in Seq(Nat), NEW k \in Seq(Nat), HasDot(p), IsPrefix(p, k)
    PROVE  HasDot(k) /\ FileOf(k) = FileOf(p)
<1>1. Len(p) <= Len(k) /\ \A i \in 1..Len(p) : p[i] = k[i]
  BY PrefixIs
<1>2. /\ FirstDot(p) \in 1..Len(p) /\ p[FirstDot(p)] = Dot
      /\ \A i \in 1..(FirstDot(p) - 1) : p[i] # Dot
  BY FirstDotIs
<1>n. PICK n \in 1..Len(p) : n = FirstDot(p)
  BY <1>2
<1>3. n \in 1..Len(k) /\ k[n] = Dot /\ \A i \in 1..(n - 1) : k[i] # Dot
  <2>1. Len(p) \in Nat /\ Len(k) \in Nat
    OBVIOUS
  <2>2. n \in 1..Len(k) /\ k[n] = Dot
    BY <1>1, <1>2, <1>n, <2>1
  <2>3. ASSUME NEW i \in 1..(n - 1) PROVE k[i] # Dot
    <3>1. p[i] # Dot /\ i \in 1..Len(p)
      BY <1>2, <1>n, <2>1
    <3>2. QED
      BY <1>1, <3>1
  <2>4. QED
    BY <2>2, <2>3
<1>4. HasDot(k) /\ FirstDot(k) = n
  BY <1>3, FirstDotIsThe
<1>5. /\ FileOf(p) \in Seq(Nat \ {Dot}) /\ Len(FileOf(p)) = n - 1
      /\ \A i \in 1..(n - 1) : FileOf(p)[i] = p[i]
  BY <1>n, DottedIs
<1>6. /\ FileOf(k) \in Seq(Nat \ {Dot}) /\ Len(FileOf(k)) = n - 1
      /\ \A i \in 1..(n - 1) : FileOf(k)[i] = k[i]
  BY <1>4, DottedIs
<1>7. \A i \in 1..Len(FileOf(p)) : FileOf(p)[i] = FileOf(k)[i]
  BY <1>1, <1>5, <1>6
<1>8. FileOf(p) = FileOf(k)
  BY <1>5, <1>6, <1>7, SeqEqual
<1>9. QED
  BY <1>4, <1>8

(* A prefix is one of the texts that the regular expression matches.       *)
LEMMA PrefixMatches ==
    ASSUME NEW p \in Seq(Nat), NEW k \in Seq(Nat), IsPrefix(p, k)
    PROVE  MongoMatches(p, k)
<1>1. Len(p) <= Len(k) /\ \A i \in 1..Len(p) : p[i] = k[i]
  BY PrefixIs
<1>2. DOMAIN p = 1..Len(p)
  OBVIOUS
<1>3. QED
  BY <1>1, <1>2 DEF MongoMatches

(* The texts of a file start with its name and a dot.                      *)
LEMMA FilePrefix ==
    ASSUME NEW f \in Seq(Nat \ {Dot}), NEW v \in Seq(Nat)
    PROVE  /\ f \o <<Dot>> \in Seq(Nat) /\ HasDot(f \o <<Dot>>)
           /\ FileOf(f \o <<Dot>>) = f
           /\ IsPrefix(f \o <<Dot>>, Dotted(f, v))
<1> DEFINE p == f \o <<Dot>>
<1>1. f \in Seq(Nat) /\ <<Dot>> \in Seq(Nat) /\ Len(<<Dot>>) = 1 /\ <<Dot>>[1] = Dot /\ << >> \in Seq(Nat)
  BY GroupsAssumption, SeqMonotonic
<1>2. p \in Seq(Nat) /\ Len(p) = Len(f) + 1
  BY <1>1
<1>3. p = Dotted(f, << >>)
  BY <1>1, <1>2, ConcatEmptySeq DEF Dotted
<1>4. HasDot(p) /\ FileOf(p) = f
  BY <1>1, <1>3, FileIs
<1>w. PICK w : w = Dotted(f, v)
  OBVIOUS
<1>5. w \in Seq(Nat) /\ Len(w) = Len(f) + 1 + Len(v) /\ w[Len(f) + 1] = Dot
  BY <1>1, <1>w, DottedText
<1>6. \A i \in 1..Len(f) : w[i] = f[i]
  BY <1>1, <1>w, DottedHead
<1>7. \A i \in 1..Len(p) : p[i] = w[i]
  <2> SUFFICES ASSUME NEW i \in 1..Len(p) PROVE p[i] = w[i]
    OBVIOUS
  <2>1. Len(f) \in Nat
    BY <1>1
  <2>2. CASE i \in 1..Len(f)
    <3>1. p[i] = f[i]
      BY <1>1, <1>3, <2>2, DottedHead
    <3>2. QED
      BY <1>6, <2>2, <3>1
  <2>3. CASE i \notin 1..Len(f)
    <3>1. i = Len(f) + 1
      BY <1>2, <2>1, <2>3
    <3>2. p[Len(f) + 1] = Dot
      BY <1>1, <1>3, DottedText
    <3>3. QED
      BY <1>5, <3>1, <3>2
  <2>4. QED
    BY <2>2, <2>3
<1>8. IsPrefix(p, w)
  <2>1. Len(p) <= Len(w)
    BY <1>1, <1>2, <1>5
  <2>2. QED
    BY <1>2, <1>5, <1>7, <2>1, PrefixIs
<1>9. QED
  BY <1>2, <1>4, <1>8, <1>w

(* s ends or has the smaller character where it first differs from t.      *)
DiffersAt(s, t, i) ==
    /\ 1 <= i /\ i <= Len(s) + 1 /\ i <= Len(t)
    /\ \A j \in 1..(i - 1) : s[j] = t[j]
    /\ i <= Len(s) => s[i] < t[i]

LEMMA BeforeIs ==
    ASSUME NEW s \in Seq(Nat), NEW t \in Seq(Nat)
    PROVE  Before(s, t) <=> \E i \in Nat : DiffersAt(s, t, i)
<1>1. Len(s) \in Nat /\ Len(t) \in Nat /\ DOMAIN s = 1..Len(s) /\ DOMAIN t = 1..Len(t)
  OBVIOUS
<1>2. ASSUME IsStrictPrefix(s, t) PROVE \E i \in Nat : DiffersAt(s, t, i)
  <2>1. Len(s) <= Len(t) /\ (\A i \in 1..Len(s) : s[i] = t[i]) /\ s # t
    BY <1>2, PrefixIs DEF IsStrictPrefix
  <2>2. Len(s) < Len(t)
    <3>1. Len(s) # Len(t)
      BY <2>1, SeqEqual
    <3>2. Len(s) <= Len(t)
      BY <2>1
    <3>3. \A m \in Nat, n \in Nat : m <= n /\ m # n => m < n
      OBVIOUS
    <3>4. QED
      BY <1>1, <3>1, <3>2, <3>3
  <2>3. PICK i \in Nat : i = Len(s) + 1
    BY <1>1
  <2>4. \A j \in 1..(i - 1) : s[j] = t[j]
    BY <1>1, <2>1, <2>3
  <2>5. 1 <= i /\ i <= Len(s) + 1 /\ i <= Len(t) /\ ~(i <= Len(s))
    BY <1>1, <2>2, <2>3
  <2>6. DiffersAt(s, t, i)
    BY <2>4, <2>5 DEF DiffersAt
  <2>7. QED
    BY <2>6
<1>3. ASSUME NEW i \in DOMAIN s \cap DOMAIN t, s[i] < t[i], \A j \in 1..(i - 1) : s[j] = t[j]
      PROVE  \E n \in Nat : DiffersAt(s, t, n)
  <2>1. i \in Nat /\ 1 <= i /\ i <= Len(s) + 1 /\ i <= Len(t)
    BY <1>1
  <2>2. DiffersAt(s, t, i)
    BY <1>3, <2>1 DEF DiffersAt
  <2>3. QED
    BY <2>1, <2>2
<1>4. ASSUME NEW i \in Nat, DiffersAt(s, t, i) PROVE Before(s, t)
  <2>1. CASE i <= Len(s)
    <3>1. i \in DOMAIN s \cap DOMAIN t /\ s[i] < t[i] /\ \A j \in 1..(i - 1) : s[j] = t[j]
      BY <1>1, <1>4, <2>1 DEF DiffersAt
    <3>2. QED
      BY <3>1 DEF Before
  <2>2. CASE i > Len(s)
    <3>1. Len(s) < Len(t) /\ i - 1 = Len(s)
      BY <1>1, <1>4, <2>2 DEF DiffersAt
    <3>2. \A j \in 1..Len(s) : s[j] = t[j]
      BY <1>4, <3>1 DEF DiffersAt
    <3>3. IsPrefix(s, t) /\ s # t
      BY <1>1, <3>1, <3>2, PrefixIs
    <3>4. QED
      BY <3>3 DEF Before, IsStrictPrefix
  <2>3. QED
    BY <1>1, <2>1, <2>2
<1>5. QED
  BY <1>2, <1>3, <1>4 DEF Before

LEMMA BeforeIsStrict ==
    ASSUME NEW s \in Seq(Nat)
    PROVE  ~Before(s, s)
<1> SUFFICES ASSUME NEW i \in Nat, DiffersAt(s, s, i) PROVE FALSE
  BY BeforeIs
<1>1. Len(s) \in Nat /\ \A j \in 1..Len(s) : s[j] \in Nat
  OBVIOUS
<1>2. QED
  BY <1>1 DEF DiffersAt

LEMMA BeforeIsTransitive ==
    ASSUME NEW s \in Seq(Nat), NEW t \in Seq(Nat), NEW u \in Seq(Nat),
           Before(s, t), Before(t, u)
    PROVE  Before(s, u)
<1>1. PICK i \in Nat : DiffersAt(s, t, i)
  BY BeforeIs
<1>2. PICK j \in Nat : DiffersAt(t, u, j)
  BY BeforeIs
<1>3. /\ Len(s) \in Nat /\ Len(t) \in Nat /\ Len(u) \in Nat
      /\ \A n \in 1..Len(s) : s[n] \in Nat
      /\ \A n \in 1..Len(t) : t[n] \in Nat
      /\ \A n \in 1..Len(u) : u[n] \in Nat
  OBVIOUS
<1>4. CASE i < j
  <2>1. t[i] = u[i] /\ \A n \in 1..(i - 1) : t[n] = u[n]
    BY <1>1, <1>2, <1>4 DEF DiffersAt
  <2>2. DiffersAt(s, u, i)
    BY <1>1, <1>2, <1>3, <1>4, <2>1 DEF DiffersAt
  <2>3. QED
    BY <2>2, BeforeIs
<1>5. CASE j <= i
  <2>1. \A n \in 1..(j - 1) : s[n] = t[n] /\ t[n] = u[n]
    BY <1>1, <1>2, <1>5 DEF DiffersAt
  <2>2. 1 <= j /\ j <= Len(s) + 1 /\ j <= Len(u)
    BY <1>1, <1>2, <1>3, <1>5 DEF DiffersAt
  <2>3. ASSUME j <= Len(s) PROVE s[j] < u[j]
    <3>1. j <= Len(t) /\ j \in 1..Len(s) /\ j \in 1..Len(t) /\ j \in 1..Len(u)
      BY <1>1, <1>3, <1>5, <2>2, <2>3 DEF DiffersAt
    <3>2. t[j] < u[j]
      BY <1>2, <3>1 DEF DiffersAt
    <3>3. s[j] = t[j] \/ s[j] < t[j]
      BY <1>1, <1>5, <2>3, <3>1 DEF DiffersAt
    <3>4. s[j] \in Nat /\ t[j] \in Nat /\ u[j] \in Nat
      BY <1>3, <3>1
    <3>5. QED
      BY <3>2, <3>3, <3>4
  <2>4. DiffersAt(s, u, j)
    BY <2>1, <2>2, <2>3 DEF DiffersAt
  <2>5. QED
    BY <2>4, BeforeIs
<1>6. QED
  BY <1>4, <1>5

LEMMA BeforeIsTotal ==
    ASSUME NEW s \in Seq(Nat), NEW t \in Seq(Nat), s # t
    PROVE  Before(s, t) \/ Before(t, s)
<1> DEFINE Same(i) == i <= Len(s) /\ i <= Len(t) /\ s[i] = t[i]
           D == {i \in Nat \ {0} : ~Same(i)}
<1>1. /\ Len(s) \in Nat /\ Len(t) \in Nat
      /\ \A n \in 1..Len(s) : s[n] \in Nat
      /\ \A n \in 1..Len(t) : t[n] \in Nat
  OBVIOUS
<1>2. Len(s) + 1 \in D
  BY <1>1
<1>3. Min(D) \in D /\ \A n \in D : Min(D) <= n
  BY <1>2, Least
<1>i. PICK i \in D : i = Min(D)
  BY <1>3
<1>4. \A j \in 1..(i - 1) : Same(j)
  <2> SUFFICES ASSUME NEW j \in 1..(i - 1), ~Same(j) PROVE FALSE
    OBVIOUS
  <2>1. i \in Nat /\ j \in Nat \ {0} /\ ~(i <= j)
    OBVIOUS
  <2>2. j \in D
    BY <2>1
  <2>3. QED
    BY <1>3, <1>i, <2>1, <2>2
<1>5. i \in Nat /\ 1 <= i /\ i <= Len(s) + 1
  BY <1>2, <1>3, <1>i
<1>6. i <= Len(t) + 1
  <2>1. Len(t) + 1 \in D
    BY <1>1
  <2>2. QED
    BY <1>3, <1>i, <2>1
<1>7. CASE i <= Len(s) /\ i <= Len(t)
  <2>1. s[i] # t[i] /\ s[i] \in Nat /\ t[i] \in Nat
    BY <1>1, <1>5, <1>7
  <2>2. CASE s[i] < t[i]
    <3>1. DiffersAt(s, t, i)
      BY <1>4, <1>5, <1>7, <2>2 DEF DiffersAt
    <3>2. QED
      BY <1>5, <3>1, BeforeIs
  <2>3. CASE t[i] < s[i]
    <3>1. DiffersAt(t, s, i)
      BY <1>4, <1>5, <1>6, <1>7, <2>3 DEF DiffersAt
    <3>2. QED
      BY <1>5, <3>1, BeforeIs
  <2>4. QED
    BY <2>1, <2>2, <2>3
<1>8. CASE i > Len(s) /\ i <= Len(t)
  <2>1. DiffersAt(s, t, i)
    BY <1>1, <1>4, <1>5, <1>8 DEF DiffersAt
  <2>2. QED
    BY <1>5, <2>1, BeforeIs
<1>9. CASE i > Len(t) /\ i <= Len(s)
  <2>1. DiffersAt(t, s, i)
    BY <1>1, <1>4, <1>5, <1>6, <1>9 DEF DiffersAt
  <2>2. QED
    BY <1>5, <2>1, BeforeIs
<1>10. CASE i > Len(s) /\ i > Len(t)
  <2>1. Len(s) = Len(t) /\ i - 1 = Len(s)
    BY <1>1, <1>5, <1>6, <1>10
  <2>2. \A j \in 1..Len(s) : s[j] = t[j]
    BY <1>4, <2>1
  <2>3. QED
    BY <2>1, <2>2, SeqEqual
<1>11. QED
  BY <1>1, <1>5, <1>7, <1>8, <1>9, <1>10

(* The first n of a finite set of texts are no more than n.                *)
LEMMA CutIsBounded ==
    ASSUME NEW P \in SUBSET Seq(Nat), IsFiniteSet(P), NEW n \in Nat \ {0}
    PROVE  IsFiniteSet(Cut(P, n)) /\ Cardinality(Cut(P, n)) <= n
<1> DEFINE C == Cut(P, n)
           Under(k) == {j \in P : Before(j, k)}
           rank == [k \in C |-> Cardinality(Under(k))]
<1>1. C \subseteq P /\ \A k \in C : Cardinality(Under(k)) < n
  BY DEF Cut
<1>2. \A k : IsFiniteSet(Under(k)) /\ Cardinality(Under(k)) \in Nat
  BY FS_Subset, FS_CardinalityType
<1>3. rank \in [C -> 0..(n - 1)]
  <2> SUFFICES ASSUME NEW k \in C PROVE Cardinality(Under(k)) \in 0..(n - 1)
    OBVIOUS
  <2>1. PICK m \in Nat : m = Cardinality(Under(k))
    BY <1>2
  <2>2. m < n
    BY <1>1, <2>1
  <2>3. m \in 0..(n - 1)
    BY <2>2
  <2>4. QED
    BY <2>1, <2>3
<1>4. ASSUME NEW j \in P, NEW k \in P, Before(j, k)
      PROVE  Cardinality(Under(j)) < Cardinality(Under(k))
  <2>1. Under(j) \subseteq Under(k)
    BY <1>4, BeforeIsTransitive
  <2>2. j \in Under(k) /\ j \notin Under(j)
    BY <1>4, BeforeIsStrict
  <2>3. Cardinality(Under(j)) <= Cardinality(Under(k)) /\ Cardinality(Under(j)) # Cardinality(Under(k))
    BY <1>2, <2>1, <2>2, FS_Subset
  <2>4. PICK m \in Nat, l \in Nat : m = Cardinality(Under(j)) /\ l = Cardinality(Under(k))
    BY <1>2
  <2>5. m <= l /\ m # l
    BY <2>3, <2>4
  <2>6. m < l
    BY <2>5
  <2>7. QED
    BY <2>4, <2>6
<1>5. ASSUME NEW j \in C, NEW k \in C, j # k PROVE rank[j] # rank[k]
  <2>1. j \in P /\ k \in P
    BY <1>1
  <2>2. Before(j, k) \/ Before(k, j)
    BY <1>5, <2>1, BeforeIsTotal
  <2>3. Cardinality(Under(j)) < Cardinality(Under(k)) \/ Cardinality(Under(k)) < Cardinality(Under(j))
    BY <1>4, <2>1, <2>2
  <2>4. QED
    BY <1>2, <2>3
<1>6. rank \in Injection(C, 0..(n - 1))
  BY <1>3, <1>5 DEF Injection, IsInjective
<1>7. IsFiniteSet(0..(n - 1)) /\ Cardinality(0..(n - 1)) = n
  BY FS_Interval
<1>8. IsFiniteSet(C) /\ Cardinality(C) <= Cardinality(0..(n - 1))
  BY <1>6, <1>7, FS_Injection
<1>9. QED
  BY <1>7, <1>8

-----------------------------------------------------------------------------
(* What a call leaves under one key.                                       *)

LEMMA CellIs ==
    ASSUME NEW k \in Names
    PROVE  /\ Cell[k] \in Cells /\ Cell[k][1] = FileOf(k) /\ FileOf(k) \in Files
           /\ Cell[k] \in LongCells <=> FileOf(k) \in LongFiles
BY DEF Cells, Files, LongCells, Cell, CellOf

(* The drivers hold under j what they held.                                *)
Same(j) ==
    /\ fs'[Cell[j]] = fs[Cell[j]]
    /\ j \in DOMAIN mem' <=> j \in DOMAIN mem
    /\ j \in DOMAIN mem => mem'[j] = mem[j]
    /\ j \in DOMAIN db' <=> j \in DOMAIN db
    /\ j \in DOMAIN db => db'[j] = db[j]

(* They hold nothing under j.                                              *)
Gone(j) ==
    /\ fs'[Cell[j]] = R!NoEntry
    /\ j \notin DOMAIN mem'
    /\ j \notin DOMAIN db'

LEMMA SameReads ==
    ASSUME NEW j \in Names, Same(j)
    PROVE  /\ FSGet(j)' = FSGet(j) /\ FSGetBlock(j)' = FSGetBlock(j)
           /\ MemGet(j)' = MemGet(j) /\ MemGetBlock(j)' = MemGetBlock(j)
           /\ MongoGet(j)' = MongoGet(j)
<1>1. FSGet(j)' = FSGet(j) /\ FSGetBlock(j)' = FSGetBlock(j)
  BY DEF Same, FSGet, FSGetBlock, R!FSGet
<1>2. MemGet(j)' = MemGet(j)
  BY DEF Same, MemGet
<1>3. MemGetBlock(j)' = MemGetBlock(j)
  BY DEF Same, MemGetBlock, MemGetBlockRaises
<1>4. MongoGet(j)' = MongoGet(j)
  BY DEF Same, MongoGet
<1>5. QED
  BY <1>1, <1>2, <1>3, <1>4

LEMMA GoneReads ==
    ASSUME NEW j \in Names, Gone(j)
    PROVE  /\ FSGet(j)' = None /\ FSGetBlock(j)' = R!NoBlock
           /\ MemGet(j)' = None /\ MemGetBlock(j)' = R!NoBlock
           /\ MongoGet(j)' = None
<1>1. FSGet(j)' = None /\ FSGetBlock(j)' = R!NoBlock
  BY DEF Gone, FSGet, FSGetBlock, R!FSGet, R!NoEntry
<1>2. MemGet(j)' = None /\ MemGetBlock(j)' = R!NoBlock
  BY DEF Gone, MemGet, MemGetBlock
<1>3. MongoGet(j)' = None
  BY DEF Gone, MongoGet
<1>4. QED
  BY <1>1, <1>2, <1>3

MemEntry == [value : Values, block : Blocks \cup {TextNone}]

LEMMA MemSets ==
    ASSUME TypeOK, NEW k \in Names, NEW v \in Values \cup {None}, NEW b \in Blocks \cup {TextNone},
           NEW m, m = MemSetState(k, v, b)
    PROVE  /\ IsDict(m, Names, MemEntry)
           /\ k \in DOMAIN m <=> v # None
           /\ v # None => m[k] = [value |-> v, block |-> b]
           /\ \A j \in Names \ {k} : j \in DOMAIN m <=> j \in DOMAIN mem
           /\ \A j \in Names \ {k} : j \in DOMAIN mem => m[j] = mem[j]
<1>1. IsDict(mem, Names, MemEntry)
  BY DEF TypeOK, MemEntry
<1>2. CASE v = None
  BY <1>1, <1>2 DEF MemSetState, Without, IsDict
<1>3. CASE v # None
  <2>1. [value |-> v, block |-> b] \in MemEntry
    BY <1>3 DEF MemEntry
  <2>2. m = Put(mem, k, [value |-> v, block |-> b])
    BY <1>3 DEF MemSetState
  <2>3. QED
    BY <1>1, <1>3, <2>1, <2>2 DEF Put, IsDict
<1>4. QED
  BY <1>2, <1>3

LEMMA MongoSets ==
    ASSUME TypeOK, IsFiniteSet(DOMAIN db), NEW k \in Names, NEW v \in Values \cup {None},
           NEW d, d = MongoSet(k, v)
    PROVE  /\ IsDict(d, Names, Values) /\ IsFiniteSet(DOMAIN d)
           /\ k \in DOMAIN d <=> v # None
           /\ v # None => d[k] = v
           /\ \A j \in Names \ {k} : j \in DOMAIN d <=> j \in DOMAIN db
           /\ \A j \in Names \ {k} : j \in DOMAIN db => d[j] = db[j]
<1>1. IsDict(db, Names, Values)
  BY DEF TypeOK
<1>2. CASE v = None
  <2>1. d = Without(db, {k}) /\ DOMAIN d = DOMAIN db \ {k}
    BY <1>2 DEF MongoSet, Without
  <2>2. IsFiniteSet(DOMAIN d)
    BY <2>1, FS_RemoveElement
  <2>3. QED
    BY <1>1, <1>2, <2>1, <2>2 DEF Without, IsDict
<1>3. CASE v # None
  <2>1. d = Put(db, k, v) /\ DOMAIN d = DOMAIN db \cup {k}
    BY <1>3 DEF MongoSet, Put
  <2>2. IsFiniteSet(DOMAIN d)
    BY <2>1, FS_AddElement
  <2>3. QED
    BY <1>1, <1>3, <2>1, <2>2 DEF Put, IsDict
<1>4. QED
  BY <1>2, <1>3

(* A write or a delete touches the group of its key, and that of no other  *)
(* that is apart.                                                          *)
LEMMA GroupsApart ==
    ASSUME TypeOK, NEW k \in Names, NEW e, fs' = [fs EXCEPT ![Cell[k]] = e]
    PROVE  /\ fs'[Cell[k]] = e
           /\ \A j \in Apart \ {k} : fs'[Cell[j]] = fs[Cell[j]]
<1>1. DOMAIN fs = Cells
  BY DEF TypeOK
<1>2. \A j \in Apart \ {k} : j \in Names /\ Cell[j] # Cell[k]
  BY CellsAreApart DEF Apart
<1>3. QED
  BY <1>1, <1>2, CellIs

-----------------------------------------------------------------------------
(* The inductive invariant.  PlainReadsAgree compares values; the lists of *)
(* FSDriver name every group that is not empty, so that a plain key must   *)
(* have no block number either, and iter() looks for no file that is not   *)
(* there, so that every group must have its file.                          *)
PlainHaveNoBlock == \A k \in Apart \ numbered : fs[Cell[k]].block = R!NoBlock

GroupsHaveFiles == \A c \in Cells : fs[c] # R!NoEntry => c[1] \in files

DInv ==
    /\ TypeOK /\ LaterBlockWins /\ PlainReadsAgree
    /\ PlainHaveNoBlock /\ GroupsHaveFiles /\ IsFiniteSet(DOMAIN db)

(* What the invariant says of one key.                                     *)
LaterWins(k) ==
    FileOf(k) \notin LongFiles =>
      /\ MemGetBlock(k) <= FSGetBlock(k)
      /\ MemGetBlock(k) = FSGetBlock(k) => MemGet(k) = FSGet(k)

Plain(k) ==
    k \notin numbered =>
      /\ MongoGet(k) = MemGet(k)
      /\ FSGet(k) = IF FileOf(k) \in LongFiles THEN None ELSE MemGet(k)
      /\ fs[Cell[k]].block = R!NoBlock

LEMMA ByKey ==
    LaterBlockWins /\ PlainReadsAgree /\ PlainHaveNoBlock
      <=> \A k \in Apart : LaterWins(k) /\ Plain(k)
BY DEF LaterBlockWins, PlainReadsAgree, PlainHaveNoBlock, LaterWins, Plain

LEMMA SameKeeps ==
    ASSUME NEW j \in Names, Same(j), LaterWins(j), Plain(j), j \in numbered => j \in numbered'
    PROVE  LaterWins(j)' /\ Plain(j)'
<1>1. fs'[Cell[j]].block = fs[Cell[j]].block
  BY DEF Same
<1>2. LaterWins(j)'
  BY SameReads DEF LaterWins
<1>3. Plain(j)'
  BY <1>1, SameReads DEF Plain
<1>4. QED
  BY <1>2, <1>3

LEMMA GoneKeeps ==
    ASSUME NEW j \in Names, Gone(j)
    PROVE  LaterWins(j)' /\ Plain(j)'
<1>1. fs'[Cell[j]].block = R!NoBlock
  BY DEF Gone, R!NoEntry
<1>2. LaterWins(j)'
  BY GoneReads DEF LaterWins, R!NoBlock
<1>3. Plain(j)'
  BY <1>1, GoneReads DEF Plain
<1>4. QED
  BY <1>2, <1>3

(* A group that is written has its file.                                   *)
LEMMA WriteKeepsFiles ==
    ASSUME TypeOK, GroupsHaveFiles, NEW k \in Names, NEW e, FSWrite(k, e),
           e \in [value : Values \cup {None}, block : Blocks \cup {R!NoBlock}],
           Cell[k] \in LongCells => e = fs[Cell[k]]
    PROVE  /\ fs' \in [Cells -> [value : Values \cup {None}, block : Blocks \cup {R!NoBlock}]]
           /\ files' \subseteq Files \ LongFiles
           /\ GroupsHaveFiles'
<1>1. /\ fs' = [fs EXCEPT ![Cell[k]] = e]
      /\ files' = files \cup ({FileOf(k)} \ LongFiles)
  BY DEF FSWrite
<1>2. fs' \in [Cells -> [value : Values \cup {None}, block : Blocks \cup {R!NoBlock}]]
  BY <1>1 DEF TypeOK
<1>3. files' \subseteq Files \ LongFiles
  BY <1>1, CellIs DEF TypeOK
<1>4. ASSUME NEW c \in Cells, fs'[c] # R!NoEntry PROVE c[1] \in files'
  <2>1. CASE c = Cell[k] /\ FileOf(k) \notin LongFiles
    BY <1>1, <2>1, CellIs
  <2>2. CASE c # Cell[k] \/ FileOf(k) \in LongFiles
    <3>1. fs'[c] = fs[c]
      BY <1>1, <2>2, CellIs DEF TypeOK
    <3>2. QED
      BY <1>1, <1>4, <3>1 DEF GroupsHaveFiles
  <2>3. QED
    BY <2>1, <2>2
<1>5. QED
  BY <1>2, <1>3, <1>4 DEF GroupsHaveFiles

LEMMA BlocksAre ==
    ASSUME TypeOK, NEW k \in Names
    PROVE  /\ fs[Cell[k]] \in [value : Values \cup {None}, block : Blocks \cup {R!NoBlock}]
           /\ fs[Cell[k]].block \in Int
           /\ k \in DOMAIN mem => mem[k] \in MemEntry
           /\ MemGetBlock(k) \in Blocks \cup {R!NoBlock} /\ MemGetBlock(k) \in Int
<1>1. Blocks \cup {R!NoBlock} \subseteq Int
  BY DriversAssumption DEF R!NoBlock
<1>2. fs[Cell[k]] \in [value : Values \cup {None}, block : Blocks \cup {R!NoBlock}]
  BY CellIs DEF TypeOK
<1>3. k \in DOMAIN mem => mem[k] \in MemEntry
  BY DEF TypeOK, IsDict, MemEntry
<1>4. MemGetBlock(k) \in Blocks \cup {R!NoBlock}
  BY <1>3 DEF MemGetBlock, MemGetBlockRaises, MemEntry
<1>5. QED
  BY <1>1, <1>2, <1>3, <1>4

LEMMA SetPlainKeeps ==
    ASSUME DInv, NEW k \in Names, NEW v \in Values \cup {None}, SetPlain(k, v)
    PROVE  DInv'
<1> DEFINE e == R!FSSetPlain(fs, Cell[k], v)
<1>1. /\ e \in [value : Values \cup {None}, block : Blocks \cup {R!NoBlock}]
      /\ Cell[k] \in LongCells => e = fs[Cell[k]]
  BY BlocksAre DEF DInv, R!FSSetPlain
<1>2. FSWrite(k, e) /\ fs' = [fs EXCEPT ![Cell[k]] = e] /\ numbered' = numbered
  BY DEF SetPlain, FSWrite
<1> HIDE DEF e
<1>3. /\ fs' \in [Cells -> [value : Values \cup {None}, block : Blocks \cup {R!NoBlock}]]
      /\ files' \subseteq Files \ LongFiles
      /\ GroupsHaveFiles'
  BY <1>1, <1>2, WriteKeepsFiles DEF DInv
<1>4. /\ IsDict(mem', Names, MemEntry)
      /\ k \in DOMAIN mem' <=> v # None
      /\ v # None => mem'[k] = [value |-> v, block |-> TextNone]
      /\ \A j \in Names \ {k} : j \in DOMAIN mem' <=> j \in DOMAIN mem
      /\ \A j \in Names \ {k} : j \in DOMAIN mem => mem'[j] = mem[j]
  BY MemSets DEF DInv, SetPlain
<1>5. /\ IsDict(db', Names, Values) /\ IsFiniteSet(DOMAIN db')
      /\ k \in DOMAIN db' <=> v # None
      /\ v # None => db'[k] = v
      /\ \A j \in Names \ {k} : j \in DOMAIN db' <=> j \in DOMAIN db
      /\ \A j \in Names \ {k} : j \in DOMAIN db => db'[j] = db[j]
  BY MongoSets DEF DInv, SetPlain
<1>6. TypeOK'
  BY <1>2, <1>3, <1>4, <1>5 DEF TypeOK, MemEntry, DInv
<1>7. fs'[Cell[k]] = e /\ \A j \in Apart \ {k} : fs'[Cell[j]] = fs[Cell[j]]
  BY <1>2, GroupsApart DEF DInv
<1>8. ASSUME NEW j \in Apart \ {k} PROVE LaterWins(j)' /\ Plain(j)'
  <2>0. j \in Names
    BY DEF Apart
  <2>1. Same(j)
    BY <1>4, <1>5, <1>7, <2>0 DEF Same
  <2>2. LaterWins(j) /\ Plain(j)
    BY ByKey DEF DInv
  <2>3. QED
    BY <1>2, <2>0, <2>1, <2>2, SameKeeps
<1>9. ASSUME k \in Apart PROVE LaterWins(k)' /\ Plain(k)'
  <2>1. MemGet(k)' = v /\ MemGetBlock(k)' = R!NoBlock
    BY <1>4 DEF MemGet, MemGetBlock, MemGetBlockRaises
  <2>2. MongoGet(k)' = v
    BY <1>5 DEF MongoGet
  <2>3. CASE FileOf(k) \notin LongFiles
    <3>1. FSGet(k)' = v /\ FSGetBlock(k)' = R!NoBlock /\ fs'[Cell[k]].block = R!NoBlock
      BY <1>7, <2>3, CellIs DEF e, FSGet, FSGetBlock, R!FSGet, R!FSSetPlain
    <3>2. QED
      BY <2>1, <2>2, <2>3, <3>1 DEF LaterWins, Plain, R!NoBlock
  <2>4. CASE FileOf(k) \in LongFiles
    <3>1. FSGet(k)' = None /\ fs'[Cell[k]] = fs[Cell[k]]
      BY <1>1, <1>7, <2>4, CellIs DEF FSGet, R!FSGet
    <3>2. k \notin numbered => fs[Cell[k]].block = R!NoBlock
      BY <1>9 DEF DInv, PlainHaveNoBlock
    <3>3. QED
      BY <1>2, <2>1, <2>2, <2>4, <3>1, <3>2 DEF LaterWins, Plain
  <2>5. QED
    BY <2>3, <2>4
<1>10. \A j \in Apart : LaterWins(j)' /\ Plain(j)'
  BY <1>8, <1>9
<1>11. LaterBlockWins' /\ PlainReadsAgree' /\ PlainHaveNoBlock'
  BY <1>10 DEF LaterBlockWins, PlainReadsAgree, PlainHaveNoBlock, LaterWins, Plain
<1>12. QED
  BY <1>3, <1>5, <1>6, <1>11 DEF DInv

LEMMA SetNumberedKeeps ==
    ASSUME DInv, NEW k \in Names, NEW v \in Values \cup {None}, NEW b \in Blocks, SetNumbered(k, v, b)
    PROVE  DInv'
<1> DEFINE e == R!FSSafeSet(fs, Cell[k], v, b)
           takes == ~MemGetBlockRaises(k) /\ b >= MemGetBlock(k)
<1>1. /\ e \in [value : Values \cup {None}, block : Blocks \cup {R!NoBlock}]
      /\ Cell[k] \in LongCells => e = fs[Cell[k]]
  BY BlocksAre DEF DInv, R!FSSafeSet
<1>2. FSWrite(k, e) /\ fs' = [fs EXCEPT ![Cell[k]] = e] /\ numbered' = numbered \cup {k}
  BY DEF SetNumbered, FSWrite
<1>3. /\ fs' \in [Cells -> [value : Values \cup {None}, block : Blocks \cup {R!NoBlock}]]
      /\ files' \subseteq Files \ LongFiles
      /\ GroupsHaveFiles'
  BY <1>1, <1>2, WriteKeepsFiles DEF DInv
<1>m. mem' = IF takes THEN MemSetState(k, v, b) ELSE mem
  BY DEF SetNumbered, MemSafeSet
<1>t. ASSUME takes
      PROVE  /\ IsDict(mem', Names, MemEntry)
             /\ k \in DOMAIN mem' <=> v # None
             /\ v # None => mem'[k] = [value |-> v, block |-> b]
             /\ \A j \in Names \ {k} : j \in DOMAIN mem' <=> j \in DOMAIN mem
             /\ \A j \in Names \ {k} : j \in DOMAIN mem => mem'[j] = mem[j]
  BY <1>m, <1>t, MemSets DEF DInv
<1> HIDE DEF e, takes
<1>4. /\ IsDict(mem', Names, MemEntry)
      /\ \A j \in Names \ {k} : j \in DOMAIN mem' <=> j \in DOMAIN mem
      /\ \A j \in Names \ {k} : j \in DOMAIN mem => mem'[j] = mem[j]
  <2>1. CASE takes
    BY <1>t, <2>1
  <2>2. CASE ~takes
    BY <1>m, <2>2 DEF DInv, TypeOK, MemEntry
  <2>3. QED
    BY <2>1, <2>2
<1>5. /\ IsDict(db', Names, Values) /\ IsFiniteSet(DOMAIN db')
      /\ \A j \in Names \ {k} : j \in DOMAIN db' <=> j \in DOMAIN db
      /\ \A j \in Names \ {k} : j \in DOMAIN db => db'[j] = db[j]
  BY MongoSets DEF DInv, SetNumbered
<1>6. TypeOK'
  BY <1>2, <1>3, <1>4, <1>5 DEF TypeOK, MemEntry, DInv
<1>7. fs'[Cell[k]] = e /\ \A j \in Apart \ {k} : fs'[Cell[j]] = fs[Cell[j]]
  BY <1>2, GroupsApart DEF DInv
<1>8. ASSUME NEW j \in Apart \ {k} PROVE LaterWins(j)' /\ Plain(j)'
  <2>0. j \in Names
    BY DEF Apart
  <2>1. Same(j)
    BY <1>4, <1>5, <1>7, <2>0 DEF Same
  <2>2. LaterWins(j) /\ Plain(j)
    BY ByKey DEF DInv
  <2>3. QED
    BY <1>2, <2>0, <2>1, <2>2, SameKeeps
<1>9. ASSUME k \in Apart PROVE LaterWins(k)'
  <2> SUFFICES ASSUME FileOf(k) \notin LongFiles
               PROVE  /\ MemGetBlock(k)' <= FSGetBlock(k)'
                      /\ MemGetBlock(k)' = FSGetBlock(k)' => MemGet(k)' = FSGet(k)'
    BY DEF LaterWins
  <2>1. /\ FSGet(k) = fs[Cell[k]].value /\ FSGetBlock(k) = fs[Cell[k]].block
        /\ FSGet(k)' = e.value /\ FSGetBlock(k)' = e.block
    BY <1>7, CellIs DEF FSGet, FSGetBlock, R!FSGet
  <2>2. /\ MemGetBlock(k) <= FSGetBlock(k)
        /\ MemGetBlock(k) = FSGetBlock(k) => MemGet(k) = FSGet(k)
    BY <1>9 DEF DInv, LaterBlockWins
  <2>3. /\ b \in Nat \ {0} /\ b # None
        /\ FSGetBlock(k) \in Int /\ MemGetBlock(k) \in Int
    BY <2>1, BlocksAre, DriversAssumption DEF DInv
  <2>4. e = IF b < FSGetBlock(k) THEN fs[Cell[k]] ELSE [value |-> v, block |-> b]
    BY <2>1, CellIs DEF e, R!FSSafeSet
  <2>5. CASE takes
    <3>1. IF v = None THEN MemGetBlock(k)' = R!NoBlock ELSE MemGetBlock(k)' = b /\ MemGet(k)' = v
      <4>1. CASE v = None
        <5>1. k \notin DOMAIN mem'
          BY <1>t, <2>5, <4>1
        <5>2. QED
          BY <4>1, <5>1 DEF MemGetBlock
      <4>2. CASE v # None
        <5>1. k \in DOMAIN mem' /\ mem'[k] = [value |-> v, block |-> b]
          BY <1>t, <2>5, <4>2
        <5>2. MemGet(k)' = v /\ mem'[k].block # TextNone
          BY <2>3, <5>1 DEF MemGet, TextNone
        <5>3. MemGetBlock(k)' = b
          BY <5>1, <5>2 DEF MemGetBlock, MemGetBlockRaises
        <5>4. QED
          BY <4>2, <5>2, <5>3
      <4>3. QED
        BY <4>1, <4>2
    <3>2. CASE b < FSGetBlock(k)
      BY <2>1, <2>3, <2>4, <3>1, <3>2 DEF R!NoBlock
    <3>3. CASE ~(b < FSGetBlock(k))
      BY <2>1, <2>3, <2>4, <3>1, <3>3 DEF R!NoBlock
    <3>4. QED
      BY <3>2, <3>3
  <2>6. CASE ~takes
    <3>1. MemGetBlock(k)' = MemGetBlock(k) /\ MemGet(k)' = MemGet(k)
      BY <1>m, <2>6 DEF MemGet, MemGetBlock, MemGetBlockRaises
    <3>2. MemGetBlock(k) = R!NoBlock \/ b < MemGetBlock(k)
      BY <2>3, <2>6 DEF takes, MemGetBlock
    <3>3. CASE b < FSGetBlock(k)
      BY <2>1, <2>2, <2>4, <3>1, <3>3
    <3>4. CASE ~(b < FSGetBlock(k))
      <4>1. MemGetBlock(k) = R!NoBlock
        BY <2>2, <2>3, <3>2, <3>4
      <4>2. FSGetBlock(k)' = b
        BY <2>1, <2>4, <3>4
      <4>3. QED
        BY <2>3, <3>1, <4>1, <4>2 DEF R!NoBlock
    <3>5. QED
      BY <3>3, <3>4
  <2>7. QED
    BY <2>5, <2>6
<1>10. Plain(k)'
  BY <1>2 DEF Plain
<1>11. \A j \in Apart : LaterWins(j)' /\ Plain(j)'
  BY <1>8, <1>9, <1>10
<1>12. LaterBlockWins' /\ PlainReadsAgree' /\ PlainHaveNoBlock'
  BY <1>11 DEF LaterBlockWins, PlainReadsAgree, PlainHaveNoBlock, LaterWins, Plain
<1>13. QED
  BY <1>3, <1>5, <1>6, <1>12 DEF DInv

LEMMA DeleteKeeps ==
    ASSUME DInv, NEW k \in Names, Delete(k)
    PROVE  DInv'
<1> DEFINE e == R!FSDelete(fs, Cell[k])
<1>1. /\ fs' = [fs EXCEPT ![Cell[k]] = e] /\ files' = files /\ numbered' = numbered
      /\ mem' = Without(mem, {k}) /\ db' = Without(db, {k})
  BY DEF Delete
<1>2. /\ e \in [value : Values \cup {None}, block : Blocks \cup {R!NoBlock}]
      /\ Cell[k] \in LongCells => e = fs[Cell[k]]
      /\ Cell[k] \notin LongCells => e = R!NoEntry
  BY BlocksAre DEF DInv, R!FSDelete, R!NoEntry
<1> HIDE DEF e
<1>3. TypeOK'
  BY <1>1, <1>2 DEF DInv, TypeOK, IsDict, Without
<1>4. GroupsHaveFiles'
  <2> SUFFICES ASSUME NEW c \in Cells, fs'[c] # R!NoEntry PROVE c[1] \in files
    BY <1>1 DEF GroupsHaveFiles
  <2>1. fs[c] # R!NoEntry
    BY <1>1, <1>2 DEF DInv, TypeOK
  <2>2. QED
    BY <2>1 DEF DInv, GroupsHaveFiles
<1>5. IsFiniteSet(DOMAIN db')
  BY <1>1, FS_RemoveElement DEF DInv, Without
<1>6. fs'[Cell[k]] = e /\ \A j \in Apart \ {k} : fs'[Cell[j]] = fs[Cell[j]]
  BY <1>1, GroupsApart DEF DInv
<1>7. ASSUME NEW j \in Apart \ {k} PROVE LaterWins(j)' /\ Plain(j)'
  <2>0. j \in Names
    BY DEF Apart
  <2>1. Same(j)
    BY <1>1, <1>6, <2>0 DEF Same, Without
  <2>2. LaterWins(j) /\ Plain(j)
    BY ByKey DEF DInv
  <2>3. QED
    BY <1>1, <2>0, <2>1, <2>2, SameKeeps
<1>8. ASSUME k \in Apart PROVE LaterWins(k)' /\ Plain(k)'
  <2>1. k \notin DOMAIN mem' /\ k \notin DOMAIN db'
    BY <1>1 DEF Without
  <2>2. CASE FileOf(k) \notin LongFiles
    <3>1. Gone(k)
      BY <1>2, <1>6, <2>1, <2>2, CellIs DEF Gone
    <3>2. QED
      BY <3>1, GoneKeeps
  <2>3. CASE FileOf(k) \in LongFiles
    <3>1. FSGet(k)' = None /\ fs'[Cell[k]] = fs[Cell[k]]
      BY <1>2, <1>6, <2>3, CellIs DEF FSGet, R!FSGet
    <3>2. MemGet(k)' = None /\ MongoGet(k)' = None
      BY <2>1 DEF MemGet, MongoGet
    <3>3. k \notin numbered => fs[Cell[k]].block = R!NoBlock
      BY <1>8 DEF DInv, PlainHaveNoBlock
    <3>4. QED
      BY <1>1, <2>3, <3>1, <3>2, <3>3 DEF LaterWins, Plain
  <2>4. QED
    BY <2>2, <2>3
<1>9. \A j \in Apart : LaterWins(j)' /\ Plain(j)'
  BY <1>7, <1>8
<1>10. LaterBlockWins' /\ PlainReadsAgree' /\ PlainHaveNoBlock'
  BY <1>9 DEF LaterBlockWins, PlainReadsAgree, PlainHaveNoBlock, LaterWins, Plain
<1>11. QED
  BY <1>3, <1>4, <1>5, <1>10 DEF DInv

LEMMA FlushFileKeeps ==
    ASSUME DInv, NEW f \in Files, FlushFile(f)
    PROVE  DInv'
<1> DEFINE gone == {k \in Names : FileOf(k) = f}
<1>1. /\ fs' = FileFlushed(f) /\ files' = files \ {f} /\ numbered' = numbered
      /\ mem' = Without(mem, gone) /\ db' = Without(db, gone)
  BY DEF FlushFile
<1>2. R!NoEntry \in [value : Values \cup {None}, block : Blocks \cup {R!NoBlock}]
  BY DEF R!NoEntry
<1>3. TypeOK'
  BY <1>1, <1>2 DEF DInv, TypeOK, IsDict, Without, FileFlushed
<1>4. GroupsHaveFiles'
  BY <1>1 DEF DInv, GroupsHaveFiles, FileFlushed
<1>5. IsFiniteSet(DOMAIN db')
  BY <1>1, FS_Subset DEF DInv, Without
<1>6. ASSUME NEW j \in Apart PROVE LaterWins(j)' /\ Plain(j)'
  <2>0. j \in Names
    BY DEF Apart
  <2>1. CASE FileOf(j) = f
    <3>1. Gone(j)
      BY <1>1, <2>0, <2>1, CellIs DEF Gone, Without, FileFlushed
    <3>2. QED
      BY <2>0, <3>1, GoneKeeps
  <2>2. CASE FileOf(j) # f
    <3>1. Same(j)
      BY <1>1, <2>0, <2>2, CellIs DEF Same, Without, FileFlushed
    <3>2. LaterWins(j) /\ Plain(j)
      BY ByKey DEF DInv
    <3>3. QED
      BY <1>1, <2>0, <3>1, <3>2, SameKeeps
  <2>3. QED
    BY <2>1, <2>2
<1>7. LaterBlockWins' /\ PlainReadsAgree' /\ PlainHaveNoBlock'
  BY <1>6 DEF LaterBlockWins, PlainReadsAgree, PlainHaveNoBlock, LaterWins, Plain
<1>8. QED
  BY <1>3, <1>4, <1>5, <1>7 DEF DInv

(* What Init and flush() leave: nothing under any key.                     *)
Empty ==
    /\ fs = [c \in Cells |-> R!NoEntry]
    /\ files = {}
    /\ mem = EmptyDict
    /\ db = EmptyDict
    /\ numbered = {}

LEMMA EmptyIs == Empty => DInv
<1> SUFFICES ASSUME Empty PROVE DInv
  OBVIOUS
<1>1. R!NoEntry \in [value : Values \cup {None}, block : Blocks \cup {R!NoBlock}]
  BY DEF R!NoEntry
<1>2. DOMAIN EmptyDict = {} /\ \A T : EmptyDict \in [{} -> T]
  BY DEF EmptyDict
<1>3. TypeOK
  BY <1>1, <1>2 DEF Empty, TypeOK, IsDict
<1>4. ASSUME NEW k \in Names
      PROVE  /\ MongoGet(k) = None /\ MemGet(k) = None /\ MemGetBlock(k) = R!NoBlock
             /\ FSGet(k) = None /\ FSGetBlock(k) = R!NoBlock /\ fs[Cell[k]].block = R!NoBlock
  <2>1. k \notin DOMAIN mem /\ k \notin DOMAIN db /\ fs[Cell[k]] = R!NoEntry
    BY <1>2, CellIs DEF Empty
  <2>2. QED
    BY <2>1 DEF MongoGet, MemGet, MemGetBlock, FSGet, FSGetBlock, R!FSGet, R!NoEntry
<1>5. LaterBlockWins /\ PlainReadsAgree /\ PlainHaveNoBlock
  BY <1>4 DEF LaterBlockWins, PlainReadsAgree, PlainHaveNoBlock, R!NoBlock, Apart
<1>6. GroupsHaveFiles
  BY DEF Empty, GroupsHaveFiles
<1>7. IsFiniteSet(DOMAIN db)
  BY <1>2, FS_EmptySet DEF Empty
<1>8. QED
  BY <1>3, <1>5, <1>6, <1>7 DEF DInv

LEMMA FlushKeeps ==
    ASSUME Flush
    PROVE  DInv'
<1>1. Empty'
  BY DEF Flush, Empty
<1>2. QED
  BY <1>1, EmptyIs, PTL

LEMMA DriversInvariant == Spec => []DInv
<1>1. Init => DInv
  BY EmptyIs DEF Init, Empty
<1>2. DInv /\ [Next]_vars => DInv'
  <2> SUFFICES ASSUME DInv, [Next]_vars PROVE DInv'
    OBVIOUS
  <2>1. CASE \E k \in Names, v \in Values \cup {None} : SetPlain(k, v)
    BY <2>1, SetPlainKeeps
  <2>2. CASE \E k \in Names, v \in Values \cup {None}, b \in Blocks : SetNumbered(k, v, b)
    BY <2>2, SetNumberedKeeps
  <2>3. CASE \E k \in Names : Delete(k)
    BY <2>3, DeleteKeeps
  <2>4. CASE \E f \in Files : FlushFile(f)
    BY <2>4, FlushFileKeeps
  <2>5. CASE Flush
    BY <2>5, FlushKeeps
  <2>6. CASE UNCHANGED vars
    BY <2>6 DEF vars, DInv, TypeOK, LaterBlockWins, PlainReadsAgree, PlainHaveNoBlock, GroupsHaveFiles,
             MongoGet, MemGet, MemGetBlock, MemGetBlockRaises, FSGet, FSGetBlock
  <2>7. QED
    BY <2>1, <2>2, <2>3, <2>4, <2>5, <2>6 DEF Next
<1>3. QED
  BY <1>1, <1>2, PTL DEF Spec

-----------------------------------------------------------------------------
(* The lists.                                                              *)

(* A plain key below p is listed by its own name, and by all or by none.   *)
LEMMA PlainBelow ==
    ASSUME DInv, NEW p \in Asked, Comparable(p), NEW k \in Names, IsPrefix(p, k)
    PROVE  /\ FileOf(k) = FileOf(p) /\ KeyOf(Cell[k]) = k
           /\ k \in DOMAIN mem <=> fs[Cell[k]] # R!NoEntry
           /\ k \in DOMAIN mem <=> k \in DOMAIN db
<1>1. p \in Seq(Nat) /\ k \in Seq(Nat)
  BY NameIs, DriversAssumption
<1>2. HasDot(k) /\ FileOf(k) = FileOf(p) /\ FileOf(p) \notin LongFiles
  BY <1>1, PrefixIsOfOneFile DEF Comparable
<1>k. Ordinary(k) /\ KeyOf(Cell[k]) = k
  BY <1>2, KeyIs DEF Comparable
<1>a. k \in Apart
  <2>1. ASSUME NEW j \in Names, ~Ordinary(j) PROVE Cell[j] # Cell[k]
    <3>1. FileOf(j) # FileOf(k)
      BY <1>2, <2>1 DEF Comparable
    <3>2. QED
      BY <3>1, CellIs
  <2>2. QED
    BY <1>k, <2>1 DEF Apart
<1>3. k \in Apart \ numbered
  BY <1>1, <1>a, PrefixMatches DEF Comparable
<1>4. /\ MongoGet(k) = MemGet(k) /\ fs[Cell[k]].value = MemGet(k)
      /\ fs[Cell[k]].block = R!NoBlock
  BY <1>2, <1>3, CellIs DEF DInv, PlainReadsAgree, PlainHaveNoBlock, FSGet, R!FSGet
<1>5. /\ k \in DOMAIN mem => mem[k].value \in Values
      /\ k \in DOMAIN db => db[k] \in Values
      /\ fs[Cell[k]] \in [value : Values \cup {None}, block : Blocks \cup {R!NoBlock}]
  BY BlocksAre DEF DInv, TypeOK, IsDict, MemEntry
<1>6. None \notin Values
  BY DriversAssumption
<1>7. k \in DOMAIN mem <=> MemGet(k) # None
  BY <1>5, <1>6 DEF MemGet
<1>8. k \in DOMAIN db <=> MongoGet(k) # None
  BY <1>5, <1>6 DEF MongoGet
<1>9. fs[Cell[k]] = R!NoEntry <=> fs[Cell[k]].value = None
  BY <1>4, <1>5 DEF R!NoEntry
<1>10. QED
  BY <1>2, <1>k, <1>4, <1>7, <1>8, <1>9

LEMMA ListsAre ==
    ASSUME DInv, NEW p \in Asked, NEW n \in Nat, Comparable(p),
           NEW P, P = {k \in DOMAIN mem : IsPrefix(p, k)}
    PROVE  /\ MemIter(p, n) = Cut(P, n) /\ FSIter(p, n) = Cut(P, n)
           /\ P = {k \in DOMAIN db : IsPrefix(p, k)}
<1>1. DOMAIN mem \subseteq Names /\ DOMAIN db \subseteq Names
  BY DEF DInv, TypeOK, IsDict
<1>2. P = {k \in DOMAIN db : IsPrefix(p, k)}
  BY <1>1, PlainBelow
<1>3. ASSUME NEW k \in P
      PROVE  k \in KeysIn(FileOf(p)) /\ IsPrefix(p, k) /\ FileOf(p) \in files
  <2>1. k \in Names /\ IsPrefix(p, k) /\ k \in DOMAIN mem
    BY <1>1
  <2>2. FileOf(k) = FileOf(p) /\ KeyOf(Cell[k]) = k /\ fs[Cell[k]] # R!NoEntry
    BY <2>1, PlainBelow
  <2>3. Cell[k] \in Cells /\ Cell[k][1] = FileOf(p)
    BY <2>1, <2>2, CellIs
  <2>4. QED
    BY <2>1, <2>2, <2>3 DEF KeysIn, DInv, GroupsHaveFiles
<1>4. ASSUME NEW k \in KeysIn(FileOf(p)), IsPrefix(p, k)
      PROVE  k \in P
  <2>1. PICK c \in Cells : c[1] = FileOf(p) /\ fs[c] # R!NoEntry /\ k = KeyOf(c)
    BY DEF KeysIn
  <2>2. PICK j \in Names : c = Cell[j]
    BY DEF Cells
  <2>3. FileOf(j) = FileOf(p) /\ FileOf(j) # Misc
    BY <2>1, <2>2, CellIs, DriversAssumption DEF Comparable
  <2>4. k = j
    BY <2>1, <2>2, <2>3, KeyIs DEF FileOf, Comparable
  <2>5. QED
    BY <1>4, <2>1, <2>2, <2>4, PlainBelow
<1>5. MemIter(p, n) = Cut(P, n)
  BY DEF MemIter
<1>6. FSIter(p, n) = Cut(P, n)
  <2>1. CASE FileOf(p) \in files
    <3>1. {k \in KeysIn(FileOf(p)) : IsPrefix(p, k)} = P
      BY <1>3, <1>4
    <3>2. QED
      BY <2>1, <3>1 DEF FSIter
  <2>2. CASE FileOf(p) \notin files
    <3>1. P = {}
      BY <1>3, <2>2
    <3>2. QED
      BY <2>2, <3>1 DEF FSIter, Cut
  <2>3. QED
    BY <2>1, <2>2
<1>7. QED
  BY <1>2, <1>5, <1>6

LEMMA ListingsDoAgree ==
    ASSUME DInv
    PROVE  ListingsAgree
<1> SUFFICES ASSUME NEW p \in Asked, NEW n \in Lengths, Comparable(p)
             PROVE  /\ FSIter(p, n) = MemIter(p, n)
                    /\ \A T \in MongoIters(p, n) :
                         /\ {k \in T : IsPrefix(p, k)} \subseteq FSIter(p, 0)
                         /\ n = 0 \/ Cardinality(T) < n =>
                              {k \in T : IsPrefix(p, k)} = FSIter(p, 0)
                         /\ n > 0 => Cardinality(T) >= Cardinality(FSIter(p, n))
  BY DEF ListingsAgree
<1>p. PICK P : P = {k \in DOMAIN mem : IsPrefix(p, k)}
  OBVIOUS
<1>s. PICK S : S = {k \in DOMAIN db : MongoMatches(p, k)}
  OBVIOUS
<1>1. n \in Nat /\ 0 \in Nat /\ p \in Seq(Nat)
  BY DriversAssumption
<1>2. /\ MemIter(p, n) = Cut(P, n) /\ FSIter(p, n) = Cut(P, n)
      /\ P = {k \in DOMAIN db : IsPrefix(p, k)}
  BY <1>1, <1>p, ListsAre
<1>3. FSIter(p, 0) = P
  <2>1. FSIter(p, 0) = Cut(P, 0)
    BY <1>1, <1>p, ListsAre
  <2>2. QED
    BY <2>1 DEF Cut
<1>4. DOMAIN db \subseteq Names /\ DOMAIN db \subseteq Seq(Nat)
  BY NameIs DEF DInv, TypeOK, IsDict
<1>5. P \subseteq S /\ {k \in S : IsPrefix(p, k)} = P
  BY <1>1, <1>2, <1>4, <1>s, PrefixMatches
<1>6. IsFiniteSet(S) /\ IsFiniteSet(P)
  BY <1>2, <1>s, FS_Subset DEF DInv
<1>7. Cardinality(S) \in Nat /\ Cardinality(P) \in Nat /\ Cardinality(P) <= Cardinality(S)
  BY <1>5, <1>6, FS_Subset, FS_CardinalityType
<1>8. ASSUME NEW T \in MongoIters(p, n)
      PROVE  \/ T = S /\ (n = 0 \/ Cardinality(S) <= n)
             \/ T \subseteq S /\ Cardinality(T) = n /\ n # 0 /\ ~(Cardinality(S) <= n)
  BY <1>s, <1>8 DEF MongoIters, kSubset
<1>9. ASSUME NEW T \in MongoIters(p, n)
      PROVE  /\ {k \in T : IsPrefix(p, k)} \subseteq FSIter(p, 0)
             /\ n = 0 \/ Cardinality(T) < n => {k \in T : IsPrefix(p, k)} = FSIter(p, 0)
  <2>1. CASE T = S
    BY <1>3, <1>5, <2>1
  <2>2. CASE T \subseteq S /\ Cardinality(T) = n /\ n # 0
    BY <1>1, <1>3, <1>5, <2>2
  <2>3. QED
    BY <1>8, <2>1, <2>2
<1>10. ASSUME NEW T \in MongoIters(p, n), n > 0
       PROVE  Cardinality(T) >= Cardinality(FSIter(p, n))
  <2>0. P \in SUBSET Seq(Nat) /\ n \in Nat \ {0}
    BY <1>1, <1>2, <1>4, <1>10
  <2>c. PICK C : C = Cut(P, n)
    OBVIOUS
  <2>1. IsFiniteSet(C) /\ Cardinality(C) <= n /\ Cardinality(C) \in Nat
    BY <1>6, <2>0, <2>c, CutIsBounded, FS_CardinalityType
  <2>2. CASE T = S
    <3>1. C \subseteq S
      BY <1>5, <2>c DEF Cut
    <3>2. Cardinality(C) <= Cardinality(S)
      BY <1>6, <3>1, FS_Subset
    <3>3. QED
      BY <1>2, <1>7, <2>1, <2>2, <2>c, <3>2
  <2>3. CASE Cardinality(T) = n
    BY <1>1, <1>2, <2>1, <2>c, <2>3
  <2>4. QED
    BY <1>8, <2>2, <2>3
<1>11. QED
  BY <1>2, <1>9, <1>10

(* What starts a sequence, whatever its members are.                       *)
LEMMA JoinedPrefix ==
    ASSUME NEW T, NEW s \in Seq(T), NEW t \in Seq(T)
    PROVE  IsPrefix(s, s \o t)
<1>w. PICK w : w = s \o t
  OBVIOUS
<1>1. Len(s) \in Nat /\ Len(t) \in Nat
  OBVIOUS
<1>2. /\ w \in Seq(T) /\ Len(w) = Len(s) + Len(t)
      /\ \A i \in 1..Len(s) : w[i] = s[i]
  BY <1>w
<1>3. Len(s) <= Len(w)
  BY <1>1, <1>2
<1>4. SubSeq(s, 1, Len(s)) = SubSeq(w, 1, Len(s))
  BY <1>1, <1>2, <1>3, SubSeqProperties
<1>5. QED
  BY <1>w, <1>3, <1>4 DEF IsPrefix

(* The group of a name has finitely many characters.                       *)
LEMMA GroupIsFinite ==
    ASSUME NEW k \in Names
    PROVE  \E l \in Nat : DOMAIN Cell[k][2] = 1..l
<1>p. PICK path : path = Seqs!ReplaceAll(VariableOf(k), Colon, Slash)
  OBVIOUS
<1>l. PICK l \in Nat : DOMAIN path = 1..l
  <2>1. DOMAIN path = DOMAIN VariableOf(k)
    BY <1>p DEF Seqs!ReplaceAll
  <2>2. VariableOf(k) \in Seq(Nat)
    BY NameIs
  <2>3. QED
    BY <2>1, <2>2
<1>1. IsFiniteSet(Letters(path) \cup Separators(path))
  <2>1. Letters(path) \cup Separators(path) \subseteq 1..l
    BY <1>l DEF Letters, Separators
  <2>2. 0 \in Int /\ 1 \in Int /\ l \in Int
    OBVIOUS
  <2>3. IsFiniteSet(1..l)
    BY <2>2, FS_Interval
  <2>4. QED
    BY <2>1, <2>3, FS_Subset
<1>c. PICK c \in Nat : c = Cardinality(Letters(path) \cup Separators(path))
  BY <1>1, FS_CardinalityType
<1>2. Cell[k][2] = Group(path)
  BY <1>p DEF Cell, CellOf
<1>3. DOMAIN Group(path) = 1..c
  BY <1>c DEF Group, At
<1>4. QED
  BY <1>2, <1>3

LEMMA KeysAreFound ==
    ASSUME DInv
    PROVE  KeysAreTheIters
<1>1. ASSUME NEW f \in Files PROVE FSIter(f \o <<Dot>>, 0) = IF f \in files THEN KeysIn(f) ELSE {}
  <2>1. PICK j \in Names : f = FileOf(j)
    BY DEF Files
  <2>2. f \in Seq(Nat \ {Dot}) /\ f \in Seq(Nat) /\ <<Dot>> \in Seq(Nat) /\ << >> \in Seq(Nat)
    BY <2>1, NameIs, GroupsAssumption, SeqMonotonic
  <2>3. FileOf(f \o <<Dot>>) = f
    BY <2>2, FilePrefix
  <2>4. ASSUME NEW k \in KeysIn(f) PROVE IsPrefix(f \o <<Dot>>, k)
    <3>1. PICK i \in Names : Cell[i][1] = f /\ k = KeyOf(Cell[i])
      BY DEF KeysIn, Cells
    <3>2. PICK u : u = Seqs!ReplaceAll(Cell[i][2], Slash, Colon)
      OBVIOUS
    <3>3. PICK l \in Nat : DOMAIN Cell[i][2] = 1..l
      BY GroupIsFinite
    <3>4. PICK T : T = Nat \cup {u[n] : n \in 1..l}
      OBVIOUS
    <3>5. u \in Seq(T)
      <4>1. DOMAIN u = 1..l /\ u = [n \in 1..l |-> u[n]]
        BY <3>2, <3>3 DEF Seqs!ReplaceAll
      <4>2. u \in [1..l -> T]
        BY <3>4, <4>1
      <4>3. QED
        BY <4>2
    <3>6. f \o <<Dot>> \in Seq(T)
      <4>1. f \o <<Dot>> \in Seq(Nat)
        BY <2>2
      <4>2. QED
        BY <3>4, <4>1, SeqMonotonic
    <3>7. k = (f \o <<Dot>>) \o u
      BY <3>1, <3>2 DEF KeyOf
    <3>8. QED
      BY <3>5, <3>6, <3>7, JoinedPrefix
  <2>5. QED
    BY <2>3, <2>4 DEF FSIter, Cut
<1>2. FSKeys = UNION {FSIter(f \o <<Dot>>, 0) : f \in Files}
  <2>1. files \subseteq Files
    BY DEF DInv, TypeOK
  <2>2. QED
    BY <1>1, <2>1 DEF FSKeys
<1>3. ASSUME NEW k \in Names, FSGet(k) # None
      PROVE  /\ KeyOf(Cell[k]) \in FSKeys
             /\ HasDot(k) => (FileOf(k) \in FSContracts <=> ~OfRunState(FileOf(k)))
  <2>1. fs[Cell[k]] # R!NoEntry
    BY <1>3 DEF FSGet, R!FSGet, R!NoEntry
  <2>2. Cell[k] \in Cells /\ Cell[k][1] = FileOf(k)
    BY CellIs
  <2>3. FileOf(k) \in files
    BY <2>1, <2>2 DEF DInv, GroupsHaveFiles
  <2>4. KeyOf(Cell[k]) \in KeysIn(FileOf(k))
    BY <2>1, <2>2 DEF KeysIn
  <2>5. QED
    BY <2>3, <2>4 DEF FSKeys, FSContracts
<1>4. ASSUME NEW k \in Names, FileOf(k) \in FSContracts PROVE HasDot(k)
  BY <1>4, DriversAssumption DEF FSContracts, FileOf
<1>5. QED
  BY <1>2, <1>3, <1>4 DEF KeysAreTheIters

-----------------------------------------------------------------------------
(* InMemDriver never has a later block than FSDriver, and what both have   *)
(* from the same block is the same, whatever is called: set() and          *)
(* safe_set(), delete(), flush_file() and flush().                         *)
THEOREM LaterBlocksWin == Spec => []DriversInv
<1>1. DInv => DriversInv
  BY DEF DInv, DriversInv
<1>2. QED
  BY <1>1, DriversInvariant, PTL

(* A key that is never written with a block number reads the same from     *)
(* FSDriver, InMemDriver and Driver.                                       *)
THEOREM PlainKeysReadTheSame == Spec => []PlainReadsAgree
<1>1. DInv => PlainReadsAgree
  BY DEF DInv
<1>2. QED
  BY <1>1, DriversInvariant, PTL

(* iter(), keys() and get_contracts() of the drivers list the same keys,   *)
(* and leave out no key that reads as a value.                             *)
THEOREM ListingsFind == Spec => []ListingsFindTheKeys
<1>1. DInv => ListingsFindTheKeys
  BY ListingsDoAgree, KeysAreFound DEF ListingsFindTheKeys
<1>2. QED
  BY <1>1, DriversInvariant, PTL
============================================================================
