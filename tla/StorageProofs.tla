---------------------------- MODULE StorageProofs ----------------------------
(***************************************************************************)
(* ContractDriver, Hash and the client over CacheDriver, for any names and *)
(* indices whose keys FSDriver lists as they are spelled, and any values   *)
(* and time stamps.                                                        *)
(*                                                                         *)
(* First, about texts: which keys start with the prefix of a listing       *)
(* (KeysTell), that no two items share a key (KeysAreApart), and so that   *)
(* listing and reading agree (ListingsAreReads) and items are apart        *)
(* (ItemsStayApart).  Then, about the layers: the invariant that makes a   *)
(* committed clear complete (ClearsAreCompleted) and a submitted contract  *)
(* be there (SubmissionsAreThere).                                         *)
(*                                                                         *)
(* CacheDriverProofs brings the lemmas about CacheDriver, and with them    *)
(* the variables of LedgerClient and Executor, which nothing here is       *)
(* about.                                                                  *)
(***************************************************************************)
EXTENDS Storage, CacheDriverProofs, SequenceTheorems, WellFoundedInduction

(* Texts, and how FlattenSeq joins them: the function in its definition is *)
(* an f that Flattens s, of which there is exactly one.                    *)
Texts == Seq(Nat)

Flattens(f, s) ==
    f = [i \in 1..Len(s) |-> IF i = 1 THEN s[i] ELSE f[i - 1] \o s[i]]

LEMMA FlattenIs ==
    ASSUME NEW s \in Seq(Texts), s # <<>>
    PROVE  Seqs!FlattenSeq(s) = (CHOOSE f : Flattens(f, s))[Len(s)]
BY DEF Seqs!FlattenSeq, Flattens

LEMMA FlattensAt ==
    ASSUME NEW s, Len(s) \in Nat, NEW f, Flattens(f, s), NEW i \in 1..Len(s)
    PROVE  f[i] = IF i = 1 THEN s[i] ELSE f[i - 1] \o s[i]
BY DEF Flattens

LEMMA FlattensOnce ==
    ASSUME NEW s, Len(s) \in Nat, NEW f, NEW g, Flattens(f, s), Flattens(g, s)
    PROVE  f = g
<1> DEFINE Same == {n \in Nat : n \in 1..Len(s) => f[n] = g[n]}
<1>1. 0 \in Same
  OBVIOUS
<1>2. ASSUME NEW n \in Nat, n \in Same PROVE n + 1 \in Same
  <2>1. CASE n + 1 \in 1..Len(s)
    <3>1. f[n + 1] = IF n + 1 = 1 THEN s[n + 1] ELSE f[n + 1 - 1] \o s[n + 1]
      BY <2>1, FlattensAt
    <3>2. g[n + 1] = IF n + 1 = 1 THEN s[n + 1] ELSE g[n + 1 - 1] \o s[n + 1]
      BY <2>1, FlattensAt
    <3>3. n + 1 # 1 => f[n] = g[n]
      BY <1>2, <2>1
    <3>4. n + 1 - 1 = n
      OBVIOUS
    <3>5. QED
      BY <3>1, <3>2, <3>3, <3>4
  <2>2. QED
    BY <2>1
<1>3. Nat \subseteq Same
  BY <1>1, <1>2, Induction
<1>4. \A n \in 1..Len(s) : f[n] = g[n]
  BY <1>3
<1>5. f = [n \in 1..Len(s) |-> f[n]] /\ g = [n \in 1..Len(s) |-> g[n]]
  BY DEF Flattens
<1>6. QED
  BY <1>4, <1>5

LEMMA FlattensOne ==
    ASSUME NEW s \in Seq(Texts), NEW t \in Texts, NEW f, Flattens(f, s)
    PROVE  \E g : /\ Flattens(g, Append(s, t))
                  /\ g[Len(s) + 1] = IF s = <<>> THEN t ELSE f[Len(s)] \o t
<1> DEFINE n == Len(s) + 1
           u == Append(s, t)
           new == IF s = <<>> THEN t ELSE f[Len(s)] \o t
           g == [i \in 1..n |-> IF i = n THEN new ELSE f[i]]
<1>1. Len(u) = n /\ n \in Nat /\ u[n] = t /\ (\A i \in 1..Len(s) : u[i] = s[i])
  OBVIOUS
<1>2. ASSUME NEW i \in 1..n
      PROVE  g[i] = IF i = 1 THEN u[i] ELSE g[i - 1] \o u[i]
  <2>1. CASE i = n
    <3>1. CASE s = <<>>
      BY <1>1, <2>1, <3>1
    <3>2. CASE s # <<>>
      <4>1. i # 1 /\ i - 1 = Len(s) /\ i - 1 \in 1..n /\ i - 1 # n
        BY <2>1, <3>2
      <4>2. g[i - 1] = f[Len(s)]
        BY <4>1
      <4>3. QED
        BY <1>1, <2>1, <3>2, <4>1, <4>2
    <3>3. QED
      BY <3>1, <3>2
  <2>2. CASE i # n
    <3>1. i \in 1..Len(s) /\ i - 1 # n
      BY <2>2
    <3>2. f[i] = IF i = 1 THEN s[i] ELSE f[i - 1] \o s[i]
      BY <3>1 DEF Flattens
    <3>3. i # 1 => i - 1 \in 1..n /\ g[i - 1] = f[i - 1]
      BY <3>1
    <3>4. QED
      BY <1>1, <2>2, <3>1, <3>2, <3>3
  <2>3. QED
    BY <2>1, <2>2
<1>3. g = [i \in 1..n |-> g[i]]
  OBVIOUS
<1>4. g = [i \in 1..n |-> IF i = 1 THEN u[i] ELSE g[i - 1] \o u[i]]
  <2> HIDE DEF g
  <2>1. QED
    BY <1>2, <1>3
<1>5. Flattens(g, u)
  BY <1>1, <1>4 DEF Flattens
<1>6. g[Len(s) + 1] = new
  BY <1>1
<1>7. QED
  BY <1>5, <1>6

LEMMA FlattensSome ==
    ASSUME NEW s \in Seq(Texts)
    PROVE  \E f : Flattens(f, s)
<1> DEFINE Fine == {n \in Nat : \A p \in Seq(Texts) : Len(p) = n => \E f : Flattens(f, p)}
<1>1. 0 \in Fine
  <2>1. ASSUME NEW p \in Seq(Texts), Len(p) = 0 PROVE \E f : Flattens(f, p)
    <3> DEFINE f == [i \in 1..Len(p) |-> <<>>]
    <3>1. Flattens(f, p)
      BY <2>1 DEF Flattens
    <3>2. QED
      BY <3>1
  <2>2. QED
    BY <2>1
<1>2. ASSUME NEW n \in Nat, n \in Fine PROVE n + 1 \in Fine
  <2>1. ASSUME NEW p \in Seq(Texts), Len(p) = n + 1 PROVE \E f : Flattens(f, p)
    <3> DEFINE q == SubSeq(p, 1, n)
               t == p[n + 1]
    <3>1. q \in Seq(Texts) /\ Len(q) = n /\ t \in Texts /\ p = Append(q, t)
      BY <2>1
    <3>2. PICK f : Flattens(f, q)
      BY <1>2, <3>1
    <3>3. \E g : Flattens(g, Append(q, t))
      BY <3>1, <3>2, FlattensOne
    <3>4. QED
      BY <3>1, <3>3
  <2>2. QED
    BY <2>1
<1>3. Nat \subseteq Fine
  <2> HIDE DEF Fine
  <2>1. QED
    BY <1>1, <1>2, Induction
<1>4. Len(s) \in Fine
  <2>1. Len(s) \in Nat
    OBVIOUS
  <2> HIDE DEF Fine
  <2>2. QED
    BY <1>3, <2>1
<1>5. QED
  BY <1>4

(* What is flattened last comes last, and what is flattened is a text.     *)
LEMMA FlattenAppend ==
    ASSUME NEW s \in Seq(Texts), NEW t \in Texts
    PROVE  Seqs!FlattenSeq(Append(s, t)) = Seqs!FlattenSeq(s) \o t
<1> DEFINE u == Append(s, t)
<1>1. u \in Seq(Texts) /\ u # <<>> /\ Len(u) = Len(s) + 1
  BY AppendProperties
<1>2. PICK f : Flattens(f, s)
  BY FlattensSome
<1>3. PICK g : /\ Flattens(g, u)
               /\ g[Len(s) + 1] = IF s = <<>> THEN t ELSE f[Len(s)] \o t
  BY <1>2, FlattensOne
<1>4. Seqs!FlattenSeq(u) = g[Len(u)]
  <2>1. Flattens(CHOOSE h : Flattens(h, u), u)
    BY <1>3
  <2>2. g = CHOOSE h : Flattens(h, u)
    BY <1>1, <1>3, <2>1, FlattensOnce
  <2>3. QED
    BY <1>1, <2>2, FlattenIs
<1>5. CASE s = <<>>
  <2>1. Seqs!FlattenSeq(s) = <<>>
    BY <1>5 DEF Seqs!FlattenSeq
  <2>2. <<>> \o t = t
    BY ConcatEmptySeq DEF Texts
  <2>3. QED
    BY <1>1, <1>3, <1>4, <1>5, <2>1, <2>2
<1>6. CASE s # <<>>
  <2>1. Flattens(CHOOSE h : Flattens(h, s), s)
    BY <1>2
  <2>2. f = CHOOSE h : Flattens(h, s)
    BY <1>2, <2>1, FlattensOnce
  <2>3. Seqs!FlattenSeq(s) = f[Len(s)]
    BY <1>6, <2>2, FlattenIs
  <2>4. QED
    BY <1>1, <1>3, <1>4, <1>6, <2>3
<1>7. QED
  BY <1>5, <1>6

LEMMA FlattenType ==
    ASSUME NEW s \in Seq(Texts)
    PROVE  Seqs!FlattenSeq(s) \in Texts
<1> DEFINE Fine == {n \in Nat : \A p \in Seq(Texts) : Len(p) = n => Seqs!FlattenSeq(p) \in Texts}
<1>1. 0 \in Fine
  <2>1. ASSUME NEW p \in Seq(Texts), Len(p) = 0 PROVE Seqs!FlattenSeq(p) \in Texts
    <3>1. p = <<>>
      BY <2>1
    <3>2. QED
      BY <3>1 DEF Seqs!FlattenSeq, Texts
  <2>2. QED
    BY <2>1
<1>2. ASSUME NEW n \in Nat, n \in Fine PROVE n + 1 \in Fine
  <2>1. ASSUME NEW p \in Seq(Texts), Len(p) = n + 1 PROVE Seqs!FlattenSeq(p) \in Texts
    <3> DEFINE q == SubSeq(p, 1, n)
               t == p[n + 1]
    <3>1. q \in Seq(Texts) /\ Len(q) = n /\ t \in Texts /\ p = Append(q, t)
      BY <2>1
    <3>2. Seqs!FlattenSeq(q) \in Texts
      BY <1>2, <3>1
    <3>3. Seqs!FlattenSeq(q) \o t \in Texts
      BY <3>1, <3>2, ConcatProperties DEF Texts
    <3>4. QED
      BY <3>1, <3>3, FlattenAppend
  <2>2. QED
    BY <2>1
<1>3. Nat \subseteq Fine
  <2> HIDE DEF Fine
  <2>1. QED
    BY <1>1, <1>2, Induction
<1>4. Len(s) \in Fine
  <2>1. Len(s) \in Nat
    OBVIOUS
  <2> HIDE DEF Fine
  <2>2. QED
    BY <1>3, <2>1
<1>5. QED
  BY <1>4

(* The parts of a key with a colon after each, which is easier to reason   *)
(* about than a colon between them: see EndedIsJoined.                     *)
Ended(parts) == Seqs!FlattenSeq([i \in DOMAIN parts |-> Append(parts[i], Colon)])

LEMMA SeqIntro ==
    ASSUME NEW X, NEW n \in Nat, NEW f \in [1..n -> X]
    PROVE  f \in Seq(X) /\ Len(f) = n
<1>1. f \in Seq(X)
  BY SeqDef
<1>2. DOMAIN f = 1..n /\ DOMAIN f = 1..Len(f) /\ Len(f) \in Nat
  BY <1>1, LenProperties
<1>3. QED
  BY <1>1, <1>2

LEMMA ColonEnds ==
    ASSUME NEW t \in Texts
    PROVE  /\ Append(t, Colon) \in Texts
           /\ Len(Append(t, Colon)) = Len(t) + 1
           /\ Append(t, Colon)[Len(t) + 1] = Colon
           /\ \A i \in 1..Len(t) : Append(t, Colon)[i] = t[i]
BY AppendProperties, GroupsAssumption DEF Texts

LEMMA EndedParts ==
    ASSUME NEW p \in Seq(Texts)
    PROVE  /\ [i \in DOMAIN p |-> Append(p[i], Colon)] \in Seq(Texts)
           /\ Ended(p) \in Texts
<1> DEFINE s == [i \in DOMAIN p |-> Append(p[i], Colon)]
<1>1. \A i \in DOMAIN p : Append(p[i], Colon) \in Texts
  BY ColonEnds
<1>2. s \in Seq(Texts)
  <2>1. DOMAIN p = 1..Len(p) /\ Len(p) \in Nat
    BY LenProperties
  <2>2. s \in [1..Len(p) -> Texts]
    BY <1>1, <2>1
  <2>3. QED
    BY <2>1, <2>2, SeqIntro
<1>3. QED
  BY <1>2, FlattenType DEF Ended

LEMMA EndedNone == Ended(<<>>) = <<>>
<1>1. [i \in DOMAIN <<>> |-> Append(<<>>[i], Colon)] = <<>>
  OBVIOUS
<1>2. QED
  BY <1>1 DEF Ended, Seqs!FlattenSeq

LEMMA EndedAppend ==
    ASSUME NEW p \in Seq(Texts), NEW t \in Texts
    PROVE  Ended(Append(p, t)) = Ended(p) \o Append(t, Colon)
<1> DEFINE s == [i \in DOMAIN p |-> Append(p[i], Colon)]
           u == Append(p, t)
           v == [i \in DOMAIN u |-> Append(u[i], Colon)]
<1>1. s \in Seq(Texts) /\ Len(s) = Len(p)
  BY EndedParts
<1>2. Append(t, Colon) \in Texts
  BY AppendProperties, GroupsAssumption DEF Texts
<1>3. /\ u \in Seq(Texts) /\ Len(u) = Len(p) + 1 /\ u[Len(p) + 1] = t
      /\ \A i \in 1..Len(p) : u[i] = p[i]
  BY AppendProperties
<1>4. v \in Seq(Texts) /\ Len(v) = Len(p) + 1
  <2>1. v \in Seq(Texts)
    BY <1>3, EndedParts
  <2>2. DOMAIN v = 1..(Len(p) + 1) /\ Len(p) \in Nat
    BY <1>3, LenProperties
  <2> HIDE DEF v
  <2>3. DOMAIN v = 1..Len(v) /\ Len(v) \in Nat
    BY <2>1, LenProperties
  <2>4. QED
    BY <2>1, <2>2, <2>3
<1>5. \A i \in 1..Len(v) : v[i] = Append(s, Append(t, Colon))[i]
  BY <1>1, <1>2, <1>3, <1>4
<1>6. v = Append(s, Append(t, Colon))
  <2> DEFINE w == Append(s, Append(t, Colon))
  <2>1. w \in Seq(Texts) /\ Len(w) = Len(v)
    BY <1>1, <1>2, <1>4, AppendProperties
  <2> HIDE DEF v, w
  <2>2. QED
    BY <1>4, <1>5, <2>1, SeqEqual DEF w
<1>7. QED
  BY <1>1, <1>2, <1>6, FlattenAppend DEF Ended

(* A key is its parts, each ended, without the last colon.                 *)
LEMMA LastOfConcat ==
    ASSUME NEW X, NEW s \in Seq(X), NEW t \in Seq(X), Len(t) # 0
    PROVE  /\ s \o t \in Seq(X)
           /\ Len(s \o t) \in Nat \ {0}
           /\ (s \o t)[Len(s \o t)] = t[Len(t)]
<1>1. /\ s \o t \in Seq(X) /\ Len(s \o t) = Len(s) + Len(t)
      /\ \A i \in 1 .. Len(s) + Len(t) : (s \o t)[i] = IF i <= Len(s) THEN s[i] ELSE t[i - Len(s)]
  BY ConcatProperties
<1>2. Len(s) \in Nat /\ Len(t) \in Nat \ {0}
  BY LenProperties
<1>3. (s \o t)[Len(s) + Len(t)] = t[Len(t)]
  <2>1. Len(s) + Len(t) \in 1..Len(s) + Len(t) /\ ~(Len(s) + Len(t) <= Len(s))
        /\ Len(s) + Len(t) - Len(s) = Len(t)
    BY <1>2
  <2>2. QED
    BY <1>1, <2>1
<1>4. QED
  BY <1>1, <1>2, <1>3

LEMMA EndedIsJoined ==
    ASSUME NEW p \in Seq(Texts)
    PROVE  /\ Joined(p) \in Texts
           /\ p = <<>> => Joined(p) = <<>>
           /\ p # <<>> => Ended(p) = Append(Joined(p), Colon)
<1>1. Joined(p) = SubSeq(Ended(p), 1, Len(Ended(p)) - 1)
  BY DEF Joined, Ended
<1>2. Ended(p) \in Texts
  BY EndedParts
<1>3. Joined(p) \in Texts
  BY <1>1, <1>2 DEF Texts
<1>4. ASSUME p = <<>> PROVE Joined(p) = <<>>
  BY <1>1, <1>4, EndedNone
<1>5. ASSUME p # <<>> PROVE Ended(p) = Append(Joined(p), Colon)
  <2> DEFINE q == SubSeq(p, 1, Len(p) - 1)
             t == p[Len(p)]
  <2>1. q \in Seq(Texts) /\ t \in Texts /\ p = Append(q, t)
    BY <1>5
  <2>2. Ended(p) = Ended(q) \o Append(t, Colon)
    BY <2>1, EndedAppend
  <2>3. Ended(q) \in Texts
    BY <2>1, EndedParts
  <2> DEFINE e == Append(t, Colon)
             E == Ended(p)
             n == Len(E)
  <2>4. e \in Texts /\ Len(e) = Len(t) + 1 /\ e[Len(e)] = Colon /\ Len(t) \in Nat
    BY <2>1, ColonEnds, LenProperties DEF Texts
  <2>5. E = Ended(q) \o e
    BY <2>2
  <2>6. n \in Nat \ {0} /\ E[n] = Colon /\ E \in Seq(Nat)
    <3> HIDE DEF e
    <3>0. Ended(q) \in Seq(Nat) /\ e \in Seq(Nat) /\ Len(e) # 0
      BY <2>3, <2>4 DEF Texts
    <3>1. Len(E) \in Nat \ {0} /\ E[Len(E)] = e[Len(e)] /\ E \in Seq(Nat)
      <4> HIDE DEF E
      <4>1. QED
        BY <2>5, <3>0, LastOfConcat, Zenon
    <3>2. QED
      BY <2>4, <3>1
  <2>7. Joined(p) = SubSeq(E, 1, n - 1)
    BY <1>1
  <2> HIDE DEF E, n
  <2>8. E = Append(SubSeq(E, 1, n - 1), Colon)
    BY <2>6 DEF n
  <2>9. QED
    BY <2>7, <2>8 DEF E
<1>6. QED
  BY <1>3, <1>4, <1>5

LEMMA Concats ==
    ASSUME NEW r \in Texts, NEW s \in Texts, NEW t \in Texts
    PROVE  (r \o s) \o t = r \o (s \o t)
BY ConcatAssociative DEF Texts

(* The first part comes first.                                             *)
LEMMA EndedCons ==
    ASSUME NEW a \in Texts, NEW p \in Seq(Texts)
    PROVE  Ended(<<a>> \o p) = Append(a, Colon) \o Ended(p)
<1> DEFINE A == Append(a, Colon)
           Fine == {n \in Nat : \A q \in Seq(Texts) :
                      Len(q) = n => Ended(<<a>> \o q) = A \o Ended(q)}
<1>0. A \in Texts
  BY AppendProperties, GroupsAssumption DEF Texts
<1>1. 0 \in Fine
  <2>1. ASSUME NEW q \in Seq(Texts), Len(q) = 0 PROVE Ended(<<a>> \o q) = A \o Ended(q)
    <3>1. q = <<>> /\ <<a>> \o q = Append(<<>>, a) /\ <<>> \in Seq(Texts)
      BY <2>1
    <3>2. Ended(<<a>> \o q) = <<>> \o A
      BY <3>1, EndedAppend, EndedNone
    <3>3. <<>> \o A = A /\ A \o <<>> = A
      BY <1>0, ConcatEmptySeq DEF Texts
    <3>4. A \o Ended(q) = A
      BY <3>1, <3>3, EndedNone
    <3> HIDE DEF A
    <3>5. QED
      BY <3>2, <3>3, <3>4, Zenon
  <2>2. QED
    BY <2>1
<1>2. ASSUME NEW n \in Nat, n \in Fine PROVE n + 1 \in Fine
  <2>1. ASSUME NEW q \in Seq(Texts), Len(q) = n + 1 PROVE Ended(<<a>> \o q) = A \o Ended(q)
    <3> DEFINE r == SubSeq(q, 1, n)
               t == q[n + 1]
    <3>1. r \in Seq(Texts) /\ Len(r) = n /\ t \in Texts /\ q = Append(r, t)
      BY <2>1
    <3>2. <<a>> \o r \in Seq(Texts) /\ <<a>> \o q = Append(<<a>> \o r, t)
      BY <3>1
    <3>3. Ended(<<a>> \o q) = Ended(<<a>> \o r) \o Append(t, Colon)
      BY <3>1, <3>2, EndedAppend
    <3>4. Ended(<<a>> \o r) = A \o Ended(r)
      BY <1>2, <3>1
    <3>5. Ended(q) = Ended(r) \o Append(t, Colon)
      BY <3>1, EndedAppend
    <3>6. Append(t, Colon) \in Texts /\ Ended(r) \in Texts
      BY <3>1, EndedParts, AppendProperties, GroupsAssumption DEF Texts
    <3>7. (A \o Ended(r)) \o Append(t, Colon) = A \o (Ended(r) \o Append(t, Colon))
      BY <1>0, <3>6, Concats
    <3> HIDE DEF A, r, t
    <3>8. QED
      BY <3>3, <3>4, <3>5, <3>7, Zenon
  <2>2. QED
    BY <2>1
<1>3. Nat \subseteq Fine
  <2> HIDE DEF Fine
  <2>1. QED
    BY <1>1, <1>2, Induction
<1>4. Len(p) \in Fine
  <2>1. Len(p) \in Nat
    OBVIOUS
  <2> HIDE DEF Fine
  <2>2. QED
    BY <1>3, <2>1
<1>5. QED
  BY <1>4

(* Being a prefix, position by position.                                   *)
LEMMA StartsWithIs ==
    ASSUME NEW X, NEW s \in Seq(X), NEW t \in Seq(X)
    PROVE  StartsWith(t, s) <=> Len(s) <= Len(t) /\ \A i \in 1..Len(s) : s[i] = t[i]
<1>1. SubSeq(s, 1, Len(s)) = s
  BY SubSeqFull
<1>2. ASSUME Len(s) <= Len(t)
      PROVE  /\ SubSeq(t, 1, Len(s)) \in Seq(X)
             /\ Len(SubSeq(t, 1, Len(s))) = Len(s)
             /\ \A i \in 1..Len(s) : SubSeq(t, 1, Len(s))[i] = t[i]
  BY <1>2
<1>3. ASSUME Len(s) <= Len(t), \A i \in 1..Len(s) : s[i] = t[i]
      PROVE  s = SubSeq(t, 1, Len(s))
  BY <1>2, <1>3, SeqEqual
<1>4. QED
  BY <1>1, <1>2, <1>3 DEF StartsWith, Seqs!IsPrefix

LEMMA TextStartsWith ==
    ASSUME NEW s \in Texts, NEW t \in Texts
    PROVE  StartsWith(t, s) <=> Len(s) <= Len(t) /\ \A i \in 1..Len(s) : s[i] = t[i]
BY StartsWithIs DEF Texts

(* More parts make a longer text that starts with that of the fewer.       *)
LEMMA EndedGrows ==
    ASSUME NEW p \in Seq(Texts), NEW q \in Seq(Texts), StartsWith(q, p)
    PROVE  /\ StartsWith(Ended(q), Ended(p))
           /\ Len(p) < Len(q) => Len(Ended(p)) < Len(Ended(q))
<1> DEFINE Fine == {n \in Nat : \A r \in Seq(Texts) : Len(r) = n /\ StartsWith(r, p) =>
                      /\ StartsWith(Ended(r), Ended(p))
                      /\ Len(p) < Len(r) => Len(Ended(p)) < Len(Ended(r))}
<1>0. Ended(p) \in Texts /\ \A r \in Seq(Texts) : Ended(r) \in Texts
  BY EndedParts
<1>S. ASSUME NEW r \in Seq(Texts), StartsWith(r, p), Len(r) = Len(p)
      PROVE  StartsWith(Ended(r), Ended(p))
  <2>1. r = p
    BY <1>S, StartsWithIs, SeqEqual
  <2>2. QED
    BY <1>0, <2>1, StartsWithIs DEF Texts
<1>1. 0 \in Fine
  <2>1. ASSUME NEW r \in Seq(Texts), Len(r) = 0, StartsWith(r, p) PROVE Len(p) = Len(r)
    <3>1. Len(p) <= Len(r) /\ Len(p) \in Nat
      BY <2>1, StartsWithIs, LenProperties
    <3>2. QED
      BY <2>1, <3>1
  <2>2. QED
    BY <1>S, <2>1
<1>2. ASSUME NEW n \in Nat, n \in Fine PROVE n + 1 \in Fine
  <2>1. ASSUME NEW r \in Seq(Texts), Len(r) = n + 1, StartsWith(r, p)
        PROVE  /\ StartsWith(Ended(r), Ended(p))
               /\ Len(p) < Len(r) => Len(Ended(p)) < Len(Ended(r))
    <3> DEFINE s == SubSeq(r, 1, n)
               t == r[n + 1]
    <3>1. s \in Seq(Texts) /\ Len(s) = n /\ t \in Texts /\ r = Append(s, t)
      BY <2>1
    <3>2. CASE Len(p) = n + 1
      BY <1>S, <2>1, <3>2
    <3>3. CASE Len(p) # n + 1
      <4>1. Len(p) <= n /\ \A i \in 1..Len(p) : p[i] = r[i]
        BY <2>1, <3>3, StartsWithIs
      <4>2. \A i \in 1..Len(p) : p[i] = s[i]
        BY <2>1, <4>1
      <4>3. StartsWith(s, p)
        BY <3>1, <4>1, <4>2, StartsWithIs
      <4>4. StartsWith(Ended(s), Ended(p))
        BY <1>2, <3>1, <4>3
      <4>5. Ended(r) = Ended(s) \o Append(t, Colon)
        BY <3>1, EndedAppend
      <4>6. Append(t, Colon) \in Texts /\ Len(Append(t, Colon)) >= 1
        BY <3>1, AppendProperties, GroupsAssumption DEF Texts
      <4>7. /\ Len(Ended(r)) = Len(Ended(s)) + Len(Append(t, Colon))
            /\ \A i \in 1..Len(Ended(s)) : Ended(r)[i] = Ended(s)[i]
        BY <1>0, <3>1, <4>5, <4>6, ConcatProperties DEF Texts
      <4>8. Len(Ended(p)) <= Len(Ended(s)) /\ \A i \in 1..Len(Ended(p)) : Ended(p)[i] = Ended(s)[i]
        BY <1>0, <3>1, <4>4, StartsWithIs DEF Texts
      <4>9. Len(Ended(s)) \in Nat /\ Len(Append(t, Colon)) \in Nat /\ Len(Ended(p)) \in Nat
        BY <1>0, <3>1, <4>6 DEF Texts
      <4>10. Len(Ended(p)) < Len(Ended(r)) /\ Len(Ended(r)) \in Nat
        <5> DEFINE a == Len(Ended(p))  b == Len(Ended(s))  c == Len(Ended(r))
                   d == Len(Append(t, Colon))
        <5>1. c = b + d /\ a <= b /\ d >= 1 /\ a \in Nat /\ b \in Nat /\ d \in Nat
          BY <4>6, <4>7, <4>8, <4>9
        <5> HIDE DEF a, b, c, d
        <5>2. a < c /\ c \in Nat
          BY <5>1
        <5>3. QED
          BY <5>2 DEF a, c
      <4>11. ASSUME NEW i \in 1..Len(Ended(p)) PROVE Ended(p)[i] = Ended(r)[i]
        <5>1. i \in 1..Len(Ended(s))
          BY <4>8, <4>9
        <5>2. QED
          BY <4>7, <4>8, <5>1
      <4>12. StartsWith(Ended(r), Ended(p))
        <5> DEFINE a == Ended(p)  c == Ended(r)
        <5>1. a \in Seq(Nat) /\ c \in Seq(Nat)
          BY <1>0, <2>1 DEF Texts
        <5>2. Len(a) <= Len(c) /\ \A i \in 1..Len(a) : a[i] = c[i]
          BY <4>9, <4>10, <4>11
        <5> HIDE DEF a, c
        <5>3. StartsWith(c, a)
          BY <5>1, <5>2, StartsWithIs
        <5>4. QED
          BY <5>3 DEF a, c
      <4>13. QED
        BY <4>10, <4>12
    <3>4. QED
      BY <3>2, <3>3, <2>1
  <2>2. QED
    BY <2>1
<1>3. Nat \subseteq Fine
  <2> HIDE DEF Fine
  <2>1. QED
    BY <1>1, <1>2, Induction
<1>4. Len(q) \in Fine
  <2>1. Len(q) \in Nat
    OBVIOUS
  <2> HIDE DEF Fine
  <2>2. QED
    BY <1>3, <2>1
<1>5. QED
  BY <1>4

(* A part of a key is clean, as Variable and Hash check: no colon in it.   *)
Clean(text) == ~Has(text, Colon)

(* A part that ends with the first colon is told from what follows it.     *)
LEMMA PartIsTold ==
    ASSUME NEW w, NEW s \in Texts, NEW t \in Texts, Clean(s), Clean(t), NEW n \in Nat,
           \A i \in 1..Len(s) : w[n + i] = s[i], w[n + Len(s) + 1] = Colon,
           \A i \in 1..Len(t) : w[n + i] = t[i], w[n + Len(t) + 1] = Colon
    PROVE  s = t
<1>1. Len(s) \in Nat /\ Len(t) \in Nat
  BY DEF Texts
<1>2. \A i \in 1..Len(s) : s[i] # Colon
  BY DEF Clean, Has, Seqs!Contains
<1>3. \A i \in 1..Len(t) : t[i] # Colon
  BY DEF Clean, Has, Seqs!Contains
<1>4. ~(Len(s) < Len(t))
  <2> SUFFICES ASSUME Len(s) < Len(t) PROVE FALSE
    OBVIOUS
  <2>1. Len(s) + 1 \in 1..Len(t)
    BY <1>1
  <2>2. w[n + (Len(s) + 1)] = t[Len(s) + 1]
    BY <2>1
  <2>3. n + (Len(s) + 1) = n + Len(s) + 1
    BY <1>1
  <2>4. QED
    BY <1>3, <2>1, <2>2, <2>3
<1>5. ~(Len(t) < Len(s))
  <2> SUFFICES ASSUME Len(t) < Len(s) PROVE FALSE
    OBVIOUS
  <2>1. Len(t) + 1 \in 1..Len(s)
    BY <1>1
  <2>2. w[n + (Len(t) + 1)] = s[Len(t) + 1]
    BY <2>1
  <2>3. n + (Len(t) + 1) = n + Len(t) + 1
    BY <1>1
  <2>4. QED
    BY <1>2, <2>1, <2>2, <2>3
<1>6. Len(s) = Len(t)
  BY <1>1, <1>4, <1>5
<1>7. \A i \in 1..Len(s) : s[i] = t[i]
  BY <1>6
<1>8. QED
  BY <1>6, <1>7, SeqEqual DEF Texts

(* Where the last part is in a text.                                       *)
LEMMA LastPart ==
    ASSUME NEW p \in Seq(Texts), NEW t \in Texts
    PROVE  /\ Len(Ended(p)) \in Nat
           /\ Len(Ended(Append(p, t))) = Len(Ended(p)) + Len(t) + 1
           /\ \A i \in 1..Len(Ended(p)) : Ended(Append(p, t))[i] = Ended(p)[i]
           /\ \A i \in 1..Len(t) : Ended(Append(p, t))[Len(Ended(p)) + i] = t[i]
           /\ Ended(Append(p, t))[Len(Ended(p)) + Len(t) + 1] = Colon
<1> DEFINE e == Append(t, Colon)
           b == Ended(p)
           E == Ended(Append(p, t))
<1>1. /\ e \in Seq(Nat) /\ Len(e) = Len(t) + 1 /\ e[Len(t) + 1] = Colon
      /\ \A i \in 1..Len(t) : e[i] = t[i]
  BY ColonEnds DEF Texts
<1>2. b \in Seq(Nat)
  BY EndedParts DEF Texts
<1>3. Len(t) \in Nat /\ Len(b) \in Nat
  BY <1>2 DEF Texts
<1>4. E = b \o e
  BY EndedAppend
<1> HIDE DEF e, b, E
<1>5. /\ Len(E) = Len(b) + Len(e)
      /\ \A i \in 1 .. Len(b) + Len(e) : E[i] = IF i <= Len(b) THEN b[i] ELSE e[i - Len(b)]
  <2>1. /\ Len(b \o e) = Len(b) + Len(e)
        /\ \A i \in 1 .. Len(b) + Len(e) : (b \o e)[i] = IF i <= Len(b) THEN b[i] ELSE e[i - Len(b)]
    BY <1>1, <1>2, ConcatProperties
  <2>2. QED
    BY <1>4, <2>1
<1>6. ASSUME NEW i \in 1..Len(e) PROVE E[Len(b) + i] = e[i]
  <2>1. Len(b) + i \in 1 .. Len(b) + Len(e) /\ ~(Len(b) + i <= Len(b)) /\ Len(b) + i - Len(b) = i
    BY <1>1, <1>3
  <2>2. QED
    BY <1>5, <2>1
<1>7. \A i \in 1..Len(b) : E[i] = b[i]
  BY <1>1, <1>3, <1>5
<1>8. Len(E) = Len(b) + Len(t) + 1
  BY <1>1, <1>3, <1>5
<1>9. \A i \in 1..Len(t) : E[Len(b) + i] = t[i]
  BY <1>1, <1>3, <1>6
<1>10. E[Len(b) + Len(t) + 1] = Colon
  <2>1. Len(t) + 1 \in 1..Len(e) /\ Len(b) + (Len(t) + 1) = Len(b) + Len(t) + 1
    BY <1>1, <1>3
  <2>2. QED
    BY <1>1, <1>6, <2>1
<1>11. QED
  BY <1>3, <1>7, <1>8, <1>9, <1>10 DEF b, E

(* And conversely: as no part has a colon in it, one text only starts with *)
(* another if its parts start with those of the other.                     *)
LEMMA EndedTells ==
    ASSUME NEW p \in Seq(Texts), NEW q \in Seq(Texts),
           \A i \in DOMAIN p : Clean(p[i]), \A i \in DOMAIN q : Clean(q[i]),
           StartsWith(Ended(q), Ended(p))
    PROVE  StartsWith(q, p)
<1> DEFINE Fine == {n \in Nat : \A r \in Seq(Texts) :
                      Len(r) = n /\ (\A i \in DOMAIN r : Clean(r[i]))
                        /\ StartsWith(Ended(q), Ended(r)) => StartsWith(q, r)}
           Q == Ended(q)
<1>0. Q \in Texts
  BY EndedParts
<1>1. 0 \in Fine
  <2>1. ASSUME NEW r \in Seq(Texts), Len(r) = 0 PROVE StartsWith(q, r)
    <3>1. Len(r) <= Len(q) /\ \A i \in 1..Len(r) : r[i] = q[i]
      BY <2>1
    <3>2. QED
      BY <3>1, StartsWithIs
  <2>2. QED
    BY <2>1
<1>2. ASSUME NEW n \in Nat, n \in Fine PROVE n + 1 \in Fine
  <2>1. ASSUME NEW r \in Seq(Texts), Len(r) = n + 1, \A i \in DOMAIN r : Clean(r[i]),
               StartsWith(Q, Ended(r))
        PROVE  StartsWith(q, r)
    <3> DEFINE s == SubSeq(r, 1, n)
               t == r[n + 1]
               m == Len(Ended(s))
               u == q[n + 1]
    <3>1. s \in Seq(Texts) /\ Len(s) = n /\ t \in Texts /\ r = Append(s, t)
      BY <2>1
    <3>2. Clean(t) /\ \A i \in DOMAIN s : Clean(s[i])
      BY <2>1
    <3>3. /\ Len(Ended(r)) <= Len(Q) /\ \A i \in 1..Len(Ended(r)) : Ended(r)[i] = Q[i]
          /\ Ended(r) \in Texts /\ Ended(s) \in Texts
      BY <1>0, <2>1, <3>1, EndedParts, StartsWithIs DEF Texts
    <3>4. /\ m \in Nat /\ Len(Ended(r)) = m + Len(t) + 1
          /\ \A i \in 1..m : Ended(r)[i] = Ended(s)[i]
          /\ \A i \in 1..Len(t) : Ended(r)[m + i] = t[i]
          /\ Ended(r)[m + Len(t) + 1] = Colon
      <4> HIDE DEF s, t
      <4>1. QED
        BY <3>1, LastPart
    <3>5. Len(t) \in Nat /\ Len(Q) \in Nat
      BY <1>0, <3>1 DEF Texts
    <3>6. /\ \A i \in 1..m : Q[i] = Ended(s)[i]
          /\ \A i \in 1..Len(t) : Q[m + i] = t[i]
          /\ Q[m + Len(t) + 1] = Colon
          /\ m < Len(Q)
      <4> HIDE DEF m, t, Q, s
      <4>1. \A i \in 1..m : i \in 1..Len(Ended(r))
        BY <3>4, <3>5
      <4>2. \A i \in 1..Len(t) : m + i \in 1..Len(Ended(r))
        BY <3>4, <3>5
      <4>3. m + Len(t) + 1 \in 1..Len(Ended(r)) /\ m < Len(Q)
        BY <3>3, <3>4, <3>5
      <4>4. QED
        BY <3>3, <3>4, <4>1, <4>2, <4>3
    <3>7. StartsWith(Q, Ended(s))
      <4> HIDE DEF t, Q, s
      <4>0. m <= Len(Q)
        BY <3>4, <3>5, <3>6
      <4>1. QED
        BY <1>0, <3>3, <3>6, <4>0, TextStartsWith
    <3>8. StartsWith(q, s)
      BY <1>2, <3>1, <3>2, <3>7
    <3>9. n <= Len(q) /\ Len(q) \in Nat /\ \A i \in 1..n : s[i] = q[i]
      <4> HIDE DEF s
      <4>1. QED
        BY <3>1, <3>8, StartsWithIs, LenProperties
    <3>10. n # Len(q)
      <4> SUFFICES ASSUME n = Len(q) PROVE FALSE
        OBVIOUS
      <4>1. s = q
        BY <3>1, <3>9, SeqEqual
      <4>2. m = Len(Q)
        BY <4>1
      <4>3. QED
        BY <3>4, <3>5, <3>6, <4>2
    <3>11. n + 1 <= Len(q) /\ u \in Texts /\ Clean(u)
      BY <3>9, <3>10
    <3> DEFINE v == Append(s, u)
    <3>12. v \in Seq(Texts) /\ Len(v) = n + 1 /\ \A i \in 1..n + 1 : v[i] = q[i]
      BY <3>1, <3>9, <3>11
    <3>13. StartsWith(q, v)
      BY <3>11, <3>12, StartsWithIs
    <3>14. StartsWith(Q, Ended(v))
      BY <3>12, <3>13, EndedGrows
    <3>15. /\ Len(Ended(v)) = m + Len(u) + 1
           /\ \A i \in 1..Len(u) : Ended(v)[m + i] = u[i]
           /\ Ended(v)[m + Len(u) + 1] = Colon
      BY <3>1, <3>11, LastPart
    <3>16. /\ \A i \in 1..Len(Ended(v)) : Ended(v)[i] = Q[i]
      <4>1. Ended(v) \in Texts
        BY <3>12, EndedParts
      <4>2. QED
        BY <1>0, <3>14, <4>1, StartsWithIs DEF Texts
    <3>17. /\ \A i \in 1..Len(u) : Q[m + i] = u[i]
           /\ Q[m + Len(u) + 1] = Colon
      <4>0. Len(u) \in Nat
        BY <3>11 DEF Texts
      <4> HIDE DEF m, u, Q, v
      <4>1. \A i \in 1..Len(u) : m + i \in 1..Len(Ended(v))
        BY <3>4, <3>15, <4>0
      <4>2. m + Len(u) + 1 \in 1..Len(Ended(v))
        BY <3>4, <3>15, <4>0
      <4>3. QED
        BY <3>15, <3>16, <4>1, <4>2
    <3>18. t = u
      <4>1. t \in Texts /\ u \in Texts /\ Clean(t) /\ Clean(u) /\ m \in Nat
        BY <3>1, <3>2, <3>4, <3>11
      <4> HIDE DEF m, t, u, Q
      <4>2. QED
        BY <3>6, <3>17, <4>1, PartIsTold
    <3>19. r = v
      BY <3>1, <3>18
    <3>20. QED
      BY <3>13, <3>19
  <2>2. QED
    BY <2>1
<1>3. Nat \subseteq Fine
  <2> HIDE DEF Fine
  <2>1. QED
    BY <1>1, <1>2, Induction
<1>4. Len(p) \in Fine
  <2>1. Len(p) \in Nat
    OBVIOUS
  <2> HIDE DEF Fine
  <2>2. QED
    BY <1>3, <2>1
<1>5. QED
  BY <1>4

(* The text of an item and the prefix of a listing, with their colons.     *)
Dotted(a, b) == a \o <<Dot>> \o b

NameOf(h) == Dotted(h[1], h[2])

Parts == {p \in Seq(Texts) : \A i \in DOMAIN p : Clean(p[i])}

LEMMA DottedName ==
    ASSUME NEW a, NEW b, IsName(a), IsName(b),
           NEW n, n = Dotted(a, b)
    PROVE  /\ n \in Texts /\ Clean(n)
           /\ Len(a) \in Nat /\ Len(b) \in Nat /\ Len(n) = Len(a) + 1 + Len(b)
           /\ \A i \in 1..Len(a) : n[i] = a[i] /\ a[i] # Dot
           /\ n[Len(a) + 1] = Dot
           /\ \A i \in 1..Len(b) : n[Len(a) + 1 + i] = b[i]
<1>1. a \in Seq(Nat) /\ b \in Seq(Nat) /\ <<Dot>> \in Seq(Nat)
  BY GroupsAssumption DEF IsName
<1>2. /\ \A i \in 1..Len(a) : a[i] # Dot /\ a[i] # Colon
      /\ \A i \in 1..Len(b) : b[i] # Colon
  BY DEF IsName, Clean, Has, Seqs!Contains
<1>3. /\ n \in Seq(Nat)
      /\ Len(a) \in Nat /\ Len(b) \in Nat /\ Len(n) = Len(a) + 1 + Len(b)
      /\ \A i \in 1..Len(a) : n[i] = a[i]
      /\ n[Len(a) + 1] = Dot
      /\ \A i \in 1..Len(b) : n[Len(a) + 1 + i] = b[i]
  BY <1>1 DEF Dotted
<1>4. ASSUME NEW i \in 1..Len(n) PROVE n[i] # Colon
  <2>1. i \in 1..Len(a) \/ i = Len(a) + 1
        \/ (i - Len(a) - 1 \in 1..Len(b) /\ Len(a) + 1 + (i - Len(a) - 1) = i)
    BY <1>3
  <2>2. QED
    BY <1>2, <1>3, <2>1, GroupsAssumption
<1>5. Clean(n)
  BY <1>4 DEF Clean, Has, Seqs!Contains
<1>6. QED
  BY <1>2, <1>3, <1>5 DEF Texts

(* A name without a dot is told from the text after the dot, so each hash  *)
(* has a name of its own.                                                  *)
LEMMA DottedNamesAreApart ==
    ASSUME NEW a, NEW b, IsName(a), IsName(b), NEW c, NEW d, IsName(c), IsName(d),
           Dotted(a, b) = Dotted(c, d)
    PROVE  a = c /\ b = d
<1> DEFINE n == Dotted(a, b)
<1>1. /\ Len(a) \in Nat /\ Len(b) \in Nat /\ Len(n) = Len(a) + 1 + Len(b)
      /\ \A i \in 1..Len(a) : n[i] = a[i] /\ a[i] # Dot
      /\ n[Len(a) + 1] = Dot
      /\ \A i \in 1..Len(b) : n[Len(a) + 1 + i] = b[i]
  BY DottedName
<1>2. n = Dotted(c, d)
  OBVIOUS
<1> HIDE DEF n
<1>3. /\ Len(c) \in Nat /\ Len(d) \in Nat /\ Len(n) = Len(c) + 1 + Len(d)
      /\ \A i \in 1..Len(c) : n[i] = c[i] /\ c[i] # Dot
      /\ n[Len(c) + 1] = Dot
      /\ \A i \in 1..Len(d) : n[Len(c) + 1 + i] = d[i]
  BY <1>2, DottedName
<1>4. ~(Len(a) < Len(c)) /\ ~(Len(c) < Len(a))
  <2>1. Len(a) < Len(c) => Len(a) + 1 \in 1..Len(c)
    BY <1>1, <1>3
  <2>2. Len(c) < Len(a) => Len(c) + 1 \in 1..Len(a)
    BY <1>1, <1>3
  <2>3. QED
    BY <1>1, <1>3, <2>1, <2>2
<1>5. Len(a) = Len(c) /\ Len(b) = Len(d)
  BY <1>1, <1>3, <1>4
<1>6. /\ \A i \in 1..Len(a) : a[i] = c[i]
      /\ \A i \in 1..Len(b) : b[i] = d[i]
  BY <1>1, <1>3, <1>5
<1>7. a \in Seq(Nat) /\ b \in Seq(Nat) /\ c \in Seq(Nat) /\ d \in Seq(Nat)
  BY DEF IsName, Texts
<1>8. QED
  BY <1>5, <1>6, <1>7, SeqEqual

LEMMA NamesAreApart ==
    ASSUME NEW g, NEW h, g = <<g[1], g[2]>>, h = <<h[1], h[2]>>,
           IsName(g[1]), IsName(g[2]), IsName(h[1]), IsName(h[2])
    PROVE  /\ NameOf(h) \in Texts /\ Clean(NameOf(h))
           /\ NameOf(g) = NameOf(h) => g = h
<1>1. NameOf(h) \in Texts /\ Clean(NameOf(h))
  <2>1. NameOf(h) = Dotted(h[1], h[2])
    BY DEF NameOf
  <2>2. QED
    BY <2>1, DottedName
<1>2. ASSUME NameOf(g) = NameOf(h) PROVE g = h
  <2> DEFINE a == g[1]  b == g[2]  c == h[1]  d == h[2]
  <2>1. Dotted(a, b) = Dotted(c, d)
    BY <1>2 DEF NameOf
  <2>2. g = <<a, b>> /\ h = <<c, d>> /\ IsName(a) /\ IsName(b) /\ IsName(c) /\ IsName(d)
    OBVIOUS
  <2> HIDE DEF a, b, c, d
  <2>3. a = c /\ b = d
    BY <2>1, <2>2, DottedNamesAreApart
  <2>4. QED
    BY <2>2, <2>3
<1>3. QED
  BY <1>1, <1>2

(* What precedes the colon at the end.                                     *)
LEMMA SameBefore ==
    ASSUME NEW s \in Texts, NEW t \in Texts, Append(s, Colon) = Append(t, Colon)
    PROVE  s = t
<1>1. Len(s) = Len(t) /\ \A i \in 1..Len(s) : s[i] = t[i]
  BY ColonEnds, LenProperties DEF Texts
<1>2. QED
  BY <1>1, SeqEqual DEF Texts

(* A key and a prefix are what comes of the parts: the name of the hash and *)
(* those of the index or the arguments.                                    *)
LEMMA KeyIsEnded ==
    ASSUME NEW h, NameOf(h) \in Texts, NEW p \in Seq(Texts)
    PROVE  /\ HashKey(h, p) \in Texts
           /\ p # <<>> => Append(HashKey(h, p), Colon) = Ended(<<NameOf(h)>> \o p)
           /\ p = <<>> => HashKey(h, p) = Ended(<<NameOf(h)>>)
<1> DEFINE N == NameOf(h)
           J == Joined(p)
           two == <<N>> \o <<J>>
           K == HashKey(h, p)
<1>1. J \in Texts
  BY EndedIsJoined
<1>2. two \in Seq(Texts) /\ two # <<>> /\ <<J>> \in Seq(Texts) /\ <<J>> = Append(<<>>, J)
  BY <1>1
<1>3. K = Joined(two)
  BY DEF HashKey, MakeKey, NameOf, Dotted
<1>4. K \in Texts /\ Append(K, Colon) = Ended(two)
  BY <1>2, <1>3, EndedIsJoined
<1>5. Ended(<<J>>) = Append(J, Colon)
  <2>1. <<>> \in Seq(Texts) /\ Ended(<<>>) = <<>>
    BY EndedNone
  <2>2. Ended(Append(<<>>, J)) = <<>> \o Append(J, Colon)
    BY <1>1, <2>1, EndedAppend
  <2>3. Append(J, Colon) \in Seq(Nat)
    BY <1>1, ColonEnds DEF Texts
  <2>4. <<>> \o Append(J, Colon) = Append(J, Colon)
    BY <2>3, ConcatEmptySeq
  <2>5. QED
    BY <1>2, <2>2, <2>4
<1>6. Ended(two) = Append(N, Colon) \o Append(J, Colon)
  BY <1>2, <1>5, EndedCons
<1>7. ASSUME p # <<>> PROVE Append(K, Colon) = Ended(<<N>> \o p)
  <2>1. Ended(p) = Append(J, Colon)
    BY <1>7, EndedIsJoined
  <2>2. Ended(<<N>> \o p) = Append(N, Colon) \o Ended(p)
    BY EndedCons
  <2>3. QED
    BY <1>4, <1>6, <2>1, <2>2
<1>8. ASSUME p = <<>> PROVE K = Ended(<<N>>)
  <2>1. J = <<>>
    BY <1>8, EndedIsJoined
  <2>2. Append(K, Colon) = Append(Append(N, Colon), Colon)
    <3>1. Append(J, Colon) = <<Colon>>
      BY <2>1
    <3>2. Append(K, Colon) = Append(N, Colon) \o <<Colon>>
      BY <1>4, <1>6, <3>1, Zenon
    <3>3. Append(N, Colon) \in Seq(Nat)
      BY ColonEnds DEF Texts
    <3> DEFINE A == Append(N, Colon)
    <3> HIDE DEF A
    <3>4. A \o <<Colon>> = Append(A, Colon)
      BY <3>3, GroupsAssumption DEF A
    <3>5. QED
      BY <3>2, <3>4 DEF A
  <2>3. Append(N, Colon) \in Seq(Nat) /\ K \in Seq(Nat)
    BY <1>4, ColonEnds DEF Texts
  <2>4. K = Append(N, Colon)
    <3> DEFINE A == Append(N, Colon)
    <3>1. A \in Texts /\ K \in Texts /\ Append(K, Colon) = Append(A, Colon)
      BY <1>4, <2>2, ColonEnds
    <3> HIDE DEF A, K
    <3>2. QED
      BY <3>1, SameBefore DEF A
  <2>5. Ended(<<N>>) = Append(N, Colon) \o <<>>
    <3>1. <<>> \in Seq(Texts) /\ <<N>> \o <<>> = <<N>>
      OBVIOUS
    <3>2. Ended(<<N>> \o <<>>) = Append(N, Colon) \o Ended(<<>>)
      BY <3>1, EndedCons
    <3>3. QED
      BY <3>1, <3>2, EndedNone, Zenon
  <2>6. QED
    BY <2>3, <2>4, <2>5, ConcatEmptySeq
<1>9. QED
  BY <1>4, <1>7, <1>8

IsHash(h) == h = <<h[1], h[2]>> /\ IsName(h[1]) /\ IsName(h[2])

LEMMA PathOf ==
    ASSUME NEW h, IsHash(h), NEW p \in Parts
    PROVE  /\ <<NameOf(h)>> \o p \in Seq(Texts)
           /\ Len(<<NameOf(h)>> \o p) = Len(p) + 1
           /\ (<<NameOf(h)>> \o p)[1] = NameOf(h)
           /\ \A i \in 1..Len(p) : (<<NameOf(h)>> \o p)[i + 1] = p[i]
           /\ \A i \in DOMAIN (<<NameOf(h)>> \o p) : Clean((<<NameOf(h)>> \o p)[i])
<1> DEFINE N == NameOf(h)
           u == <<N>> \o p
<1>1. N \in Texts /\ Clean(N)
  BY NamesAreApart DEF IsHash
<1>2. p \in Seq(Texts) /\ Len(p) \in Nat /\ \A i \in 1..Len(p) : Clean(p[i])
  BY DEF Parts
<1> HIDE DEF N
<1>3. /\ u \in Seq(Texts) /\ Len(u) = Len(p) + 1 /\ u[1] = N
      /\ \A i \in 1..Len(p) : u[i + 1] = p[i]
  BY <1>1, <1>2
<1>4. ASSUME NEW i \in DOMAIN u PROVE Clean(u[i])
  <2>1. i \in 1..(Len(p) + 1)
    BY <1>3
  <2>2. CASE i = 1
    BY <1>1, <1>3, <2>2
  <2>3. CASE i # 1
    <3>1. i - 1 \in 1..Len(p) /\ i - 1 + 1 = i
      BY <1>2, <2>1, <2>3
    <3>2. u[i] = p[i - 1]
      BY <1>3, <3>1
    <3>3. QED
      BY <1>2, <3>1, <3>2
  <2>4. QED
    BY <2>2, <2>3
<1>5. QED
  BY <1>3, <1>4 DEF N

LEMMA PathsTell ==
    ASSUME NEW g, NEW h, IsHash(g), IsHash(h),
           NEW p \in Parts, NEW q \in Parts
    PROVE  StartsWith(<<NameOf(h)>> \o q, <<NameOf(g)>> \o p) <=> g = h /\ StartsWith(q, p)
<1> DEFINE u == <<NameOf(g)>> \o p
           v == <<NameOf(h)>> \o q
<1>1. /\ u \in Seq(Texts) /\ Len(u) = Len(p) + 1 /\ u[1] = NameOf(g)
      /\ \A i \in 1..Len(p) : u[i + 1] = p[i]
  BY PathOf
<1>2. /\ v \in Seq(Texts) /\ Len(v) = Len(q) + 1 /\ v[1] = NameOf(h)
      /\ \A i \in 1..Len(q) : v[i + 1] = q[i]
  BY PathOf
<1>3. p \in Seq(Texts) /\ q \in Seq(Texts) /\ Len(p) \in Nat /\ Len(q) \in Nat
  BY DEF Parts
<1> HIDE DEF u, v
<1>4. StartsWith(v, u) <=> Len(u) <= Len(v) /\ \A i \in 1..Len(u) : u[i] = v[i]
  <2>1. u \in Seq(Texts) /\ v \in Seq(Texts)
    BY <1>1, <1>2
  <2>2. QED
    BY <2>1, StartsWithIs
<1>5. StartsWith(q, p) <=> Len(p) <= Len(q) /\ \A i \in 1..Len(p) : p[i] = q[i]
  BY <1>3, StartsWithIs
<1>6. ASSUME StartsWith(v, u) PROVE g = h /\ StartsWith(q, p)
  <2>1. NameOf(g) = NameOf(h)
    BY <1>1, <1>2, <1>3, <1>4, <1>6
  <2>2. Len(p) <= Len(q)
    BY <1>1, <1>2, <1>3, <1>4, <1>6
  <2>3. ASSUME NEW i \in 1..Len(p) PROVE p[i] = q[i]
    <3>1. i + 1 \in 1..Len(u) /\ i \in 1..Len(q)
      BY <1>1, <1>3, <2>2
    <3>2. QED
      BY <1>1, <1>2, <1>4, <1>6, <3>1
  <2>4. g = h
    BY <2>1, NamesAreApart DEF IsHash
  <2>5. QED
    BY <1>5, <2>2, <2>3, <2>4
<1>7. ASSUME g = h, StartsWith(q, p) PROVE StartsWith(v, u)
  <2>1. Len(u) <= Len(v)
    BY <1>1, <1>2, <1>3, <1>5, <1>7
  <2>2. ASSUME NEW i \in 1..Len(u) PROVE u[i] = v[i]
    <3>1. CASE i = 1
      BY <1>1, <1>2, <1>7, <3>1
    <3>2. CASE i # 1
      <4>1. i - 1 \in 1..Len(p) /\ i - 1 \in 1..Len(q) /\ i - 1 + 1 = i
        BY <1>1, <1>3, <1>5, <1>7, <3>2
      <4>2. u[i] = p[i - 1] /\ v[i] = q[i - 1]
        BY <1>1, <1>2, <4>1
      <4>3. QED
        BY <1>5, <1>7, <4>1, <4>2
    <3>3. QED
      BY <3>1, <3>2
  <2>3. QED
    BY <1>4, <2>1, <2>2
<1>8. QED
  BY <1>6, <1>7 DEF u, v

LEMMA PrefixIsEnded ==
    ASSUME NEW g, IsHash(g), NEW p \in Parts,
           \A i \in DOMAIN p : p[i] # <<>>
    PROVE  PrefixForArgs(g, p) = Ended(<<NameOf(g)>> \o p)
<1>1. p \in Seq(Texts) /\ NameOf(g) \in Texts
  BY NamesAreApart DEF Parts, IsHash
<1>2. CASE p = <<>>
  <2>1. Joined(p) = <<>> /\ HashKey(g, p) = Ended(<<NameOf(g)>>)
    BY <1>1, <1>2, EndedIsJoined, KeyIsEnded
  <2>2. <<NameOf(g)>> \o p = <<NameOf(g)>>
    BY <1>1, <1>2
  <2>3. QED
    BY <1>2, <2>1, <2>2 DEF PrefixForArgs
<1>3. CASE p # <<>>
  <2>1. Joined(p) # <<>>
    <3> DEFINE q == SubSeq(p, 1, Len(p) - 1)
               t == p[Len(p)]
    <3>1. q \in Seq(Texts) /\ t \in Texts /\ p = Append(q, t)
      BY <1>1, <1>3
    <3>2. Len(p) \in DOMAIN p
      BY <1>1, <1>3
    <3>3. t # <<>>
      BY <3>2
    <3>4. Len(t) \in Nat \ {0}
      BY <3>1, <3>3 DEF Texts
    <3> HIDE DEF q, t
    <3>5. Len(Ended(q)) \in Nat /\ Len(Ended(p)) = Len(Ended(q)) + Len(t) + 1
      BY <3>1, LastPart
    <3>6. Ended(p) = Append(Joined(p), Colon) /\ Joined(p) \in Texts
      BY <1>1, <1>3, EndedIsJoined
    <3>7. Len(Ended(p)) = Len(Joined(p)) + 1 /\ Len(Joined(p)) \in Nat
      BY <3>6, ColonEnds DEF Texts
    <3>8. Len(Joined(p)) # 0
      BY <3>4, <3>5, <3>7
    <3>9. QED
      BY <3>8
  <2>2. QED
    BY <1>1, <1>3, <2>1, KeyIsEnded DEF PrefixForArgs
<1>4. QED
  BY <1>2, <1>3

(* A key starts with the prefix of a listing exactly if it is that of an   *)
(* item of the same hash whose index goes on from the arguments.           *)
LEMMA KeysTell ==
    ASSUME NEW g, NEW h, IsHash(g), IsHash(h),
           NEW p \in Parts, NEW q \in Parts, q # <<>>, \A i \in DOMAIN p : p[i] # <<>>
    PROVE  StartsWith(HashKey(h, q), PrefixForArgs(g, p))
             <=> g = h /\ Len(q) > Len(p) /\ StartsWith(q, p)
<1> DEFINE u == <<NameOf(g)>> \o p
           v == <<NameOf(h)>> \o q
           K == HashKey(h, q)
           P == PrefixForArgs(g, p)
<1>1. NameOf(h) \in Texts /\ p \in Seq(Texts) /\ q \in Seq(Texts)
  BY NamesAreApart DEF IsHash, Parts
<1>2. /\ u \in Seq(Texts) /\ Len(u) = Len(p) + 1 /\ \A i \in DOMAIN u : Clean(u[i])
      /\ v \in Seq(Texts) /\ Len(v) = Len(q) + 1 /\ \A i \in DOMAIN v : Clean(v[i])
  BY PathOf
<1>3. K \in Texts /\ Append(K, Colon) = Ended(v)
  BY <1>1, KeyIsEnded
<1>4. P = Ended(u)
  BY PrefixIsEnded
<1>5. StartsWith(v, u) <=> g = h /\ StartsWith(q, p)
  BY PathsTell
<1> HIDE DEF u, v, K, P
<1>6. Len(p) \in Nat /\ Len(q) \in Nat /\ P \in Texts /\ Ended(v) \in Texts
  <2>1. Ended(u) \in Texts /\ Ended(v) \in Texts
    BY <1>2, EndedParts
  <2>2. QED
    BY <1>1, <1>4, <2>1, LenProperties
<1>7. /\ Len(Ended(v)) = Len(K) + 1 /\ \A i \in 1..Len(K) : Ended(v)[i] = K[i]
      /\ Len(K) \in Nat /\ Len(P) \in Nat
  <2>1. /\ Len(Append(K, Colon)) = Len(K) + 1
        /\ \A i \in 1..Len(K) : Append(K, Colon)[i] = K[i]
    BY <1>3, ColonEnds
  <2>2. Len(K) \in Nat /\ Len(P) \in Nat
    BY <1>3, <1>6, LenProperties DEF Texts
  <2>3. QED
    BY <1>3, <2>1, <2>2
<1>8. StartsWith(K, P) <=> Len(P) <= Len(K) /\ \A i \in 1..Len(P) : P[i] = K[i]
  BY <1>3, <1>6, TextStartsWith
<1>9. StartsWith(Ended(v), P) <=> Len(P) <= Len(K) + 1 /\ \A i \in 1..Len(P) : P[i] = Ended(v)[i]
  BY <1>6, <1>7, TextStartsWith
<1>10. ASSUME StartsWith(K, P) PROVE g = h /\ Len(q) > Len(p) /\ StartsWith(q, p)
  <2>1. StartsWith(Ended(v), P)
    <3>1. \A i \in 1..Len(P) : i \in 1..Len(K)
      BY <1>7, <1>8, <1>10
    <3>2. QED
      BY <1>7, <1>8, <1>9, <1>10, <3>1
  <2>2. StartsWith(v, u)
    BY <1>2, <1>4, <2>1, EndedTells
  <2>3. g = h /\ StartsWith(q, p)
    BY <1>5, <2>2
  <2>4. Len(p) <= Len(q) /\ \A i \in 1..Len(p) : p[i] = q[i]
    BY <1>1, <2>3, StartsWithIs
  <2>5. Len(p) # Len(q)
    <3> SUFFICES ASSUME Len(p) = Len(q) PROVE FALSE
      OBVIOUS
    <3>1. p = q
      BY <1>1, <2>4, SeqEqual
    <3>2. u = v
      BY <2>3, <3>1 DEF u, v
    <3>3. Len(P) = Len(K) + 1
      BY <1>4, <1>7, <3>2
    <3>4. QED
      BY <1>7, <1>8, <1>10, <3>3
  <2>6. QED
    BY <1>6, <2>3, <2>4, <2>5
<1>11. ASSUME g = h, Len(q) > Len(p), StartsWith(q, p) PROVE StartsWith(K, P)
  <2>1. StartsWith(v, u) /\ Len(u) < Len(v)
    BY <1>2, <1>5, <1>6, <1>11
  <2>2. StartsWith(Ended(v), Ended(u)) /\ Len(Ended(u)) < Len(Ended(v))
    BY <1>2, <2>1, EndedGrows
  <2>3. Len(P) <= Len(K) /\ \A i \in 1..Len(P) : P[i] = Ended(v)[i]
    BY <1>4, <1>7, <1>9, <2>2
  <2>4. \A i \in 1..Len(P) : i \in 1..Len(K)
    BY <1>7, <2>3
  <2>5. QED
    BY <1>7, <1>8, <2>3, <2>4
<1>12. QED
  BY <1>10, <1>11 DEF K, P

(* Different items have different keys.                                    *)
LEMMA KeysAreApart ==
    ASSUME NEW g, NEW h, IsHash(g), IsHash(h),
           NEW p \in Parts, NEW q \in Parts, p # <<>>, q # <<>>,
           HashKey(g, p) = HashKey(h, q)
    PROVE  g = h /\ p = q
<1> DEFINE u == <<NameOf(g)>> \o p
           v == <<NameOf(h)>> \o q
<1>1. NameOf(h) \in Texts /\ NameOf(g) \in Texts /\ p \in Seq(Texts) /\ q \in Seq(Texts)
  BY NamesAreApart DEF IsHash, Parts
<1>2. /\ u \in Seq(Texts) /\ \A i \in DOMAIN u : Clean(u[i])
      /\ v \in Seq(Texts) /\ \A i \in DOMAIN v : Clean(v[i])
  BY PathOf
<1>3. Ended(u) = Ended(v)
  BY <1>1, KeyIsEnded
<1>4. Ended(u) \in Texts
  BY <1>2, EndedParts
<1>5. StartsWith(Ended(u), Ended(u))
  BY <1>4, TextStartsWith, LenProperties DEF Texts
<1>6. StartsWith(u, v) /\ StartsWith(v, u)
  <2> HIDE DEF u, v
  <2>1. QED
    BY <1>2, <1>3, <1>5, EndedTells
<1>7. g = h /\ StartsWith(q, p) /\ StartsWith(p, q)
  BY <1>6, PathsTell
<1>8. Len(p) = Len(q) /\ \A i \in 1..Len(p) : p[i] = q[i]
  BY <1>1, <1>7, StartsWithIs, LenProperties
<1>9. QED
  BY <1>1, <1>7, <1>8, SeqEqual

-----------------------------------------------------------------------------
(* The keys of the instance.                                               *)

LEMMA NamedIs ==
    ASSUME NEW text, \E k \in Keys : Text[k] = text
    PROVE  Named(text) \in Keys /\ Text[Named(text)] = text
BY DEF Named

LEMMA ItemIs ==
    ASSUME NEW i \in Items
    PROVE  /\ i = <<i[1], i[2]>> /\ i[1] \in Hashes /\ IsHash(i[1])
           /\ i[2] \in Parts /\ i[2] # <<>>
           /\ ItemKey[i] \in Keys /\ Text[ItemKey[i]] = HashKey(i[1], i[2])
<1>1. i = <<i[1], i[2]>> /\ i[1] \in Hashes /\ i[2] \in Indices /\ ValidKey(i[2])
  BY DEF Items
<1>2. IsHash(i[1])
  BY <1>1, StorageAssumption DEF IsHash
<1>3. i[2] \in Seq(Texts) /\ i[2] # <<>>
  BY <1>1, StorageAssumption DEF Texts
<1>4. i[2] \in Parts
  BY <1>1, <1>3 DEF Parts, ValidKey, Clean
<1>5. ItemKey[i] = Named(HashKey(i[1], i[2]))
  BY DEF ItemKey
<1>6. \E k \in Keys : Text[k] = HashKey(i[1], i[2])
  BY StorageAssumption
<1>7. QED
  BY <1>1, <1>2, <1>3, <1>4, <1>5, <1>6, NamedIs

LEMMA ListingIs ==
    ASSUME NEW l \in Listings
    PROVE  /\ IsHash(l[1]) /\ l[2] \in Parts /\ \A i \in DOMAIN l[2] : l[2][i] # <<>>
           /\ Prefix[l] = PrefixForArgs(l[1], l[2]) /\ Prefix[l] \in Prefixes
<1>1. l[1] \in Hashes /\ l[2] \in Args /\ ValidKey(l[2])
  BY DEF Listings
<1>2. IsHash(l[1])
  BY <1>1, StorageAssumption DEF IsHash
<1>3. l[2] \in Seq(Texts) /\ \A i \in DOMAIN l[2] : l[2][i] # <<>>
  BY <1>1, StorageAssumption DEF Texts
<1>4. l[2] \in Parts
  BY <1>1, <1>3 DEF Parts, ValidKey, Clean
<1>5. QED
  BY <1>2, <1>3, <1>4 DEF Prefix, Prefixes

(* Different items have different keys, and the items whose keys start     *)
(* with the prefix of a listing are those under its arguments.             *)
LEMMA ItemKeysAreApart ==
    ASSUME NEW i \in Items, NEW j \in Items, ItemKey[i] = ItemKey[j]
    PROVE  i = j
<1>1. i[1] = j[1] /\ i[2] = j[2]
  BY ItemIs, KeysAreApart
<1>2. i = <<i[1], i[2]>> /\ j = <<j[1], j[2]>>
  BY ItemIs
<1>3. QED
  BY <1>1, <1>2, Zenon

LEMMA UnderIsMatch ==
    ASSUME NEW i \in Items, NEW l \in Listings
    PROVE  ItemKey[i] \in Matches[Prefix[l]] <=> i \in Under[l]
<1>1. ItemKey[i] \in Matches[Prefix[l]] <=> StartsWith(HashKey(i[1], i[2]), Prefix[l])
  BY ItemIs, ListingIs DEF Matches
<1>2. StartsWith(HashKey(i[1], i[2]), Prefix[l])
        <=> l[1] = i[1] /\ Len(i[2]) > Len(l[2]) /\ StartsWith(i[2], l[2])
  BY ItemIs, ListingIs, KeysTell
<1>3. i \in Under[l] <=> l[1] = i[1] /\ Len(i[2]) > Len(l[2]) /\ StartsWith(i[2], l[2])
  BY DEF Under
<1>4. QED
  BY <1>1, <1>2, <1>3

(* What has an index has a colon, and the code of a contract has none.     *)
LEMMA EndsWithColon ==
    ASSUME NEW p \in Seq(Texts), p # <<>>
    PROVE  Ended(p) \in Texts /\ Has(Ended(p), Colon)
<1> DEFINE t == Joined(p)
<1>1. t \in Texts /\ Ended(p) = Append(t, Colon)
  BY EndedIsJoined
<1> HIDE DEF t
<1>2. /\ Append(t, Colon) \in Texts /\ Len(Append(t, Colon)) = Len(t) + 1
      /\ Append(t, Colon)[Len(t) + 1] = Colon
  BY <1>1, ColonEnds
<1>3. Len(t) + 1 \in DOMAIN Append(t, Colon)
  BY <1>1, <1>2 DEF Texts
<1>4. QED
  BY <1>1, <1>2, <1>3 DEF Has, Seqs!Contains

LEMMA PrefixHasColon ==
    ASSUME NEW l \in Listings
    PROVE  Prefix[l] \in Texts /\ Has(Prefix[l], Colon) /\ Prefix[l] \notin Contracts
<1> DEFINE u == <<NameOf(l[1])>> \o l[2]
<1>1. Prefix[l] = Ended(u)
  BY ListingIs, PrefixIsEnded
<1>2. u \in Seq(Texts) /\ Len(u) = Len(l[2]) + 1 /\ Len(l[2]) \in Nat
  <2>1. IsHash(l[1]) /\ l[2] \in Parts
    BY ListingIs
  <2>2. u \in Seq(Texts) /\ Len(u) = Len(l[2]) + 1
    BY <2>1, PathOf
  <2>3. QED
    BY <2>1, <2>2, LenProperties DEF Parts
<1> HIDE DEF u
<1>3. u # <<>>
  BY <1>2
<1>4. Prefix[l] \in Texts /\ Has(Prefix[l], Colon)
  BY <1>1, <1>2, <1>3, EndsWithColon
<1>5. QED
  BY <1>4, StorageAssumption DEF IsName

LEMMA MatchHasColon ==
    ASSUME NEW l \in Listings, NEW k \in Matches[Prefix[l]]
    PROVE  k \in Keys /\ Has(Text[k], Colon)
<1>1. k \in Keys /\ StartsWith(Text[k], Prefix[l])
  BY ListingIs DEF Matches
<1>2. Text[k] \in Texts /\ Prefix[l] \in Texts
  BY <1>1, PrefixHasColon, StorageAssumption DEF Texts
<1> DEFINE s == Prefix[l]  t == Text[k]
<1>3. Len(s) <= Len(t) /\ \A i \in 1..Len(s) : s[i] = t[i]
  BY <1>1, <1>2, TextStartsWith
<1>4. PICK i \in 1..Len(s) : s[i] = Colon
  BY PrefixHasColon DEF Has, Seqs!Contains
<1>5. Len(s) \in Nat /\ Len(t) \in Nat /\ DOMAIN t = 1..Len(t)
  BY <1>2 DEF Texts
<1>6. t[i] = Colon /\ i \in DOMAIN t
  BY <1>3, <1>4, <1>5
<1>7. QED
  BY <1>1, <1>6 DEF Has, Seqs!Contains

LEMMA JoinedOne ==
    ASSUME NEW t \in Texts
    PROVE  Joined(<<t>>) = t
<1>1. <<t>> \in Seq(Texts) /\ <<t>> # <<>> /\ <<t>> = Append(<<>>, t) /\ <<>> \in Seq(Texts)
  OBVIOUS
<1>2. Ended(<<t>>) = <<>> \o Append(t, Colon)
  BY <1>1, EndedAppend, EndedNone
<1>3. Append(t, Colon) \in Seq(Nat)
  BY ColonEnds DEF Texts
<1>4. <<>> \o Append(t, Colon) = Append(t, Colon)
  BY <1>3, ConcatEmptySeq
<1>5. Ended(<<t>>) = Append(Joined(<<t>>), Colon) /\ Joined(<<t>>) \in Texts
  BY <1>1, EndedIsJoined
<1>6. Append(Joined(<<t>>), Colon) = Append(t, Colon)
  BY <1>2, <1>4, <1>5
<1>7. QED
  BY <1>5, <1>6, SameBefore

LEMMA IndexedHasColon ==
    ASSUME NEW a, NEW b, IsName(a), IsName(b), NEW q \in Seq(Texts), q # <<>>
    PROVE  Has(MakeKey(a, b, q), Colon)
<1> DEFINE N == Dotted(a, b)
           K == Joined(<<N>> \o q)
           A == Append(N, Colon)
           E == Ended(q)
<1>1. N \in Texts
  BY DottedName
<1>2. MakeKey(a, b, q) = K
  BY DEF MakeKey, Dotted
<1>3. <<N>> \o q \in Seq(Texts) /\ <<N>> \o q # <<>>
  BY <1>1
<1>4. K \in Texts /\ Append(K, Colon) = A \o E
  BY <1>1, <1>3, EndedIsJoined, EndedCons
<1>5. E \in Texts /\ Len(E) # 0
  <2>1. E \in Texts /\ Has(E, Colon)
    BY EndsWithColon
  <2>2. QED
    BY <2>1 DEF Has, Seqs!Contains, Texts
<1>6. A \in Texts /\ Len(A) = Len(N) + 1 /\ A[Len(N) + 1] = Colon /\ Len(N) \in Nat
  BY <1>1, ColonEnds, LenProperties DEF Texts
<1>7. /\ Len(Append(K, Colon)) = Len(K) + 1 /\ Len(K) \in Nat
      /\ \A i \in 1..Len(K) : Append(K, Colon)[i] = K[i]
  BY <1>4, ColonEnds, LenProperties DEF Texts
<1> HIDE DEF A, E, K, N
<1>8. /\ Len(A \o E) = Len(A) + Len(E)
      /\ \A i \in 1..Len(A) : (A \o E)[i] = A[i]
  <2>1. A \in Seq(Nat) /\ E \in Seq(Nat) /\ Len(A) \in Nat /\ Len(E) \in Nat
    BY <1>5, <1>6 DEF Texts
  <2>2. /\ Len(A \o E) = Len(A) + Len(E)
        /\ \A i \in 1 .. Len(A) + Len(E) : (A \o E)[i] = IF i <= Len(A) THEN A[i] ELSE E[i - Len(A)]
    BY <2>1, ConcatProperties
  <2>3. \A i \in 1..Len(A) : i \in 1 .. Len(A) + Len(E) /\ i <= Len(A)
    BY <2>1
  <2>4. QED
    BY <2>2, <2>3
<1>9. Len(E) \in Nat
  BY <1>5 DEF Texts
<1>10. Len(N) + 1 \in 1..Len(K)
  BY <1>4, <1>5, <1>6, <1>7, <1>8, <1>9
<1>11. K[Len(N) + 1] = Colon
  <2>1. Len(N) + 1 \in 1..Len(A)
    BY <1>6
  <2>2. (A \o E)[Len(N) + 1] = Colon
    BY <1>6, <1>8, <2>1
  <2>3. QED
    BY <1>4, <1>7, <1>10, <2>2
<1>12. DOMAIN K = 1..Len(K)
  BY <1>4 DEF Texts
<1>13. QED
  BY <1>2, <1>10, <1>11, <1>12 DEF Has, Seqs!Contains

LEMMA CodeKeyIs ==
    ASSUME NEW c \in Contracts
    PROVE  CodeKey[c] \in Keys /\ ~Has(Text[CodeKey[c]], Colon)
<1> DEFINE N == Dotted(c, CodeName)
<1>1. N \in Texts /\ Clean(N)
  BY StorageAssumption, DottedName
<1>2. MakeKey(c, CodeName, <<>>) = N
  <2>1. <<N>> \o <<>> = <<N>>
    OBVIOUS
  <2>2. MakeKey(c, CodeName, <<>>) = Joined(<<N>> \o <<>>)
    BY DEF MakeKey, Dotted
  <2>3. QED
    BY <1>1, <2>1, <2>2, JoinedOne
<1>3. CodeKey[c] = Named(MakeKey(c, CodeName, <<>>))
  BY DEF CodeKey
<1>4. QED
  BY <1>1, <1>2, <1>3, NamedIs, StorageAssumption DEF Clean

LEMMA IndexedIsNoCode ==
    /\ \A c \in Contracts, l \in Listings : CodeKey[c] \notin Matches[Prefix[l]]
    /\ \A c \in Contracts, i \in Items : CodeKey[c] # ItemKey[i]
    /\ \A q \in Quick : QuickKey[q] \in Keys /\ \A c \in Contracts : CodeKey[c] # QuickKey[q]
<1>1. \A c \in Contracts, l \in Listings : CodeKey[c] \notin Matches[Prefix[l]]
  BY CodeKeyIs, MatchHasColon
<1>2. ASSUME NEW i \in Items PROVE Has(Text[ItemKey[i]], Colon)
  <2>1. IsHash(i[1]) /\ Joined(i[2]) \in Texts /\ Text[ItemKey[i]] = HashKey(i[1], i[2])
    BY ItemIs, EndedIsJoined DEF Parts
  <2>2. <<Joined(i[2])>> \in Seq(Texts) /\ <<Joined(i[2])>> # <<>>
    BY <2>1
  <2>3. QED
    BY <2>1, <2>2, IndexedHasColon DEF HashKey, IsHash
<1>3. ASSUME NEW q \in Quick PROVE QuickKey[q] \in Keys /\ Has(Text[QuickKey[q]], Colon)
  <2>1. /\ QuickKey[q] = Named(MakeKey(q[1][1], q[1][2], q[2]))
        /\ \E k \in Keys : Text[k] = MakeKey(q[1][1], q[1][2], q[2])
        /\ q[1] \in Hashes /\ q[2] \in Indices
    BY DEF Quick, QuickKey
  <2>2. IsName(q[1][1]) /\ IsName(q[1][2]) /\ q[2] \in Seq(Texts) /\ q[2] # <<>>
    BY <2>1, StorageAssumption DEF Texts
  <2>3. QED
    BY <2>1, <2>2, NamedIs, IndexedHasColon
<1>4. QED
  BY <1>1, <1>2, <1>3, CodeKeyIs

-----------------------------------------------------------------------------
(* Listing and reading.                                                    *)

(* FSDriver lists every key as it is spelled, and has no two in one group. *)
LEMMA IterIs ==
    ASSUME NEW p \in Prefixes, p \notin Contracts
    PROVE  Iter(p) = {k \in Matches[p] : Listed(k)}
<1>1. Matches[p] \subseteq Keys
  BY DEF Matches
<1>2. \A j, k \in Keys : Spelling[j] = Text[k] <=> j = k
  BY StorageAssumption
<1>3. QED
  BY <1>1, <1>2 DEF Iter

LEMMA PlacesAreApart ==
    ASSUME NEW j \in Keys, NEW k \in Keys, Place[j] = Place[k]
    PROVE  j = k
<1>1. Spelling[j] = Spelling[k]
  BY DEF Spelling
<1>2. QED
  BY <1>1, StorageAssumption

LEMMA ListingFindsReads ==
    ASSUME OnlyItems
    PROVE  ListedIsReadable
<1> SUFFICES ASSUME NEW l \in Listings
             PROVE  LET p == Prefix[l]
                    IN  /\ {k \in ItemKeys(p) : ItemsOf(p)[k] # None} =
                             {k \in {ItemKey[i] : i \in Under[l]} : Find(k) # None}
                        /\ \A k \in ItemKeys(p) \ (Held(pending_writes, p) \cap Held(cache, p)) :
                             ItemsOf(p)[k] = Find(k)
  BY DEF ListedIsReadable
<1> DEFINE p == Prefix[l]
           M == Matches[p]
<1>1. M = {ItemKey[i] : i \in Under[l]}
  <2>1. ASSUME NEW k \in M PROVE \E i \in Under[l] : ItemKey[i] = k
    <3>1. k \in Keys /\ Has(Text[k], Colon)
      BY MatchHasColon
    <3>2. PICK i \in Items : ItemKey[i] = k
      BY <3>1 DEF OnlyItems
    <3>3. QED
      BY <3>2, UnderIsMatch
  <2>2. \A i \in Under[l] : i \in Items
    BY DEF Under
  <2>3. \A i \in Under[l] : ItemKey[i] \in M
    BY <2>2, UnderIsMatch
  <2>4. QED
    BY <2>1, <2>3
<1>2. M \subseteq Keys /\ p \notin Contracts
  BY ListingIs, PrefixHasColon DEF Matches
<1>3. /\ Held(pending_writes, p) = {k \in M : Lookup(pending_writes, k) # None}
      /\ Held(cache, p) = {k \in M : Lookup(cache, k) # None}
      /\ Iter(p) = {k \in M : driver[k] # NoEntry}
  BY <1>2, ListingIs, IterIs DEF Held, Lookup, Listed
<1> HIDE DEF M, p
<1>4. \A k \in ItemKeys(p) : ItemsOf(p)[k] = IF k \in Held(cache, p) THEN cache[k] ELSE Find(k)
  BY DEF ItemsOf
<1>5. ItemKeys(p) \subseteq M
  BY <1>3 DEF ItemKeys
<1>6. ASSUME NEW k \in ItemKeys(p), ItemsOf(p)[k] # None PROVE k \in M /\ Find(k) # None
  BY <1>3, <1>4, <1>5, <1>6 DEF Find, FindApplied, Lookup
<1>7. ASSUME NEW k \in M, Find(k) # None PROVE k \in ItemKeys(p) /\ ItemsOf(p)[k] # None
  <2>1. k \in ItemKeys(p)
    <3>1. CASE Lookup(pending_writes, k) # None \/ Lookup(cache, k) # None
      BY <1>3, <3>1 DEF ItemKeys
    <3>2. CASE Lookup(pending_writes, k) = None /\ Lookup(cache, k) = None
      <4>1. driver[k].value # None
        BY <1>7, <3>2 DEF Find, FindApplied, FSGet
      <4>2. driver[k] # NoEntry
        BY <4>1 DEF NoEntry
      <4>3. QED
        BY <1>3, <4>2 DEF ItemKeys
    <3>3. QED
      BY <3>1, <3>2
  <2>2. QED
    BY <1>3, <1>4, <1>7, <2>1 DEF Lookup
<1>8. ASSUME NEW k \in ItemKeys(p) \ (Held(pending_writes, p) \cap Held(cache, p))
      PROVE  ItemsOf(p)[k] = Find(k)
  BY <1>3, <1>4, <1>5 DEF Find, FindApplied, Lookup
<1>9. QED
  BY <1>1, <1>6, <1>7, <1>8 DEF p

(* What a call on one item leaves of the others.                           *)
LEMMA OthersAreFound ==
    ASSUME NEW k, k \notin DOMAIN pending_writes' \/ k \in DOMAIN pending_writes,
           k \in DOMAIN pending_writes => k \in DOMAIN pending_writes' /\ pending_writes'[k] = pending_writes[k],
           UNCHANGED <<cache, driver>>
    PROVE  Find(k)' = Find(k)
BY DEF Find, FindApplied, Lookup

LEMMA ItemsApartStep ==
    /\ \A i \in Items, v \in MaybeValue : SetItem(i, v) =>
         \A j \in Items \ {i} : Find(ItemKey[j])' = Find(ItemKey[j])
    /\ \A l \in Listings : Clears(l) =>
         \A j \in Items \ Under[l] : Find(ItemKey[j])' = Find(ItemKey[j])
    /\ \A k \in Keys, i \in Items : ItemKey[i] # k => Place[ItemKey[i]] # Place[k]
<1>1. ASSUME NEW i \in Items, NEW v \in MaybeValue, SetItem(i, v), NEW j \in Items \ {i}
      PROVE  Find(ItemKey[j])' = Find(ItemKey[j])
  <2>1. ItemKey[j] # ItemKey[i]
    BY ItemKeysAreApart
  <2>2. /\ pending_writes' = Put(pending_writes, ItemKey[i], v)
        /\ UNCHANGED <<cache, driver>>
    BY <1>1 DEF SetItem, Set
  <2>3. QED
    BY <2>1, <2>2, OthersAreFound DEF Put
<1>2. ASSUME NEW l \in Listings, Clears(l), NEW j \in Items \ Under[l]
      PROVE  Find(ItemKey[j])' = Find(ItemKey[j])
  <2>1. ItemKey[j] \notin ItemKeys(Prefix[l])
    <3>1. ItemKey[j] \notin Matches[Prefix[l]]
      BY UnderIsMatch
    <3>2. QED
      BY <3>1 DEF ItemKeys, Held, Iter
  <2>2. /\ pending_writes' = Update(pending_writes, [k \in ItemKeys(Prefix[l]) |-> None])
        /\ UNCHANGED <<cache, driver>>
    BY <1>2 DEF Clears, Clear
  <2>3. QED
    BY <2>1, <2>2, OthersAreFound DEF Update
<1>3. ASSUME NEW k \in Keys, NEW i \in Items, ItemKey[i] # k
      PROVE  Place[ItemKey[i]] # Place[k]
  BY <1>3, ItemIs, PlacesAreApart
<1>4. QED
  BY <1>1, <1>2, <1>3

-----------------------------------------------------------------------------
(* The inductive invariant.  FSDriver writes nothing under a long key, so  *)
(* it is about the short ones.  A None hides what is below it, so wherever *)
(* a None may come from that a call takes for "nothing here", the newest   *)
(* value below is None too.                                                *)
Short == Keys \ LongKeys

Newest(k) == Top(DOMAIN pending_deltas, k)

NoneCached ==
    \A k \in Short : IF k \in DOMAIN cache THEN cache[k] = None => Newest(k) = None
                     ELSE WritersOf(pending_deltas, DOMAIN pending_deltas, k) = {}

NoneRead ==
    \A k \in Short \cap DOMAIN pending_writes : Lookup(pending_reads, k) = None => Newest(k) = None

NoneBefore ==
    \A h \in DOMAIN pending_deltas : \A k \in Short \cap DOMAIN pending_deltas[h] :
      Pre(h, k) = None => Top(Older(h), k) = None

Layers ==
    /\ TypeOK
    /\ NoneCached
    /\ NoneRead
    /\ NoneBefore
    /\ NoneRefused

(* What was cleared is gone, unless the open transaction has yet to delete *)
(* it; and no contract's code is being deleted.                            *)
StillCleared ==
    /\ cleared \subseteq Keys
    /\ \A k \in Short \cap cleared :
         IF k \in DOMAIN pending_writes THEN pending_writes[k] = None
         ELSE Newest(k) = None /\ (k \in DOMAIN cache => cache[k] = None)

CodeStays ==
    \A c \in Contracts : CodeKey[c] \in DOMAIN pending_writes => pending_writes[CodeKey[c]] # None

Kept == Layers /\ StillCleared /\ CodeStays

-----------------------------------------------------------------------------
LEMMA NoneFound ==
    ASSUME Layers, NEW k \in Short, k \notin DOMAIN pending_writes, Find(k) = None
    PROVE  Newest(k) = None
<1>1. FindApplied(k) = None
  BY DEF Find, Lookup
<1>2. CASE k \in DOMAIN cache
  <2>1. cache[k] = None
    BY <1>1, <1>2 DEF FindApplied, Lookup
  <2>2. QED
    BY <1>2, <2>1 DEF Layers, NoneCached
<1>3. CASE k \notin DOMAIN cache
  <2>1. WritersOf(pending_deltas, DOMAIN pending_deltas, k) = {}
    BY <1>3 DEF Layers, NoneCached
  <2>2. driver[k].value = None
    BY <1>1, <1>3 DEF FindApplied, Lookup, FSGet, Short
  <2>3. QED
    BY <2>1, <2>2 DEF Newest, Top, TopOf
<1>4. QED
  BY <1>2, <1>3

(* Calls that record reads of the keys of S before they write them.        *)
Reads(S) ==
    /\ \A k : Lookup(pending_reads', k) =
                IF k \in S /\ Lookup(pending_reads, k) = None THEN Find(k) ELSE Lookup(pending_reads, k)
    /\ DOMAIN pending_writes' \subseteq DOMAIN pending_writes \cup S

LEMMA RecordReads ==
    ASSUME NEW k, RecordRead(k)
    PROVE  \A x : Lookup(pending_reads', x) =
                    IF x \in {k} /\ Lookup(pending_reads, x) = None THEN Find(x)
                    ELSE Lookup(pending_reads, x)
<1> TAKE x
<1>1. CASE Lookup(pending_reads, k) = None
  <2>1. pending_reads' = Put(pending_reads, k, Find(k))
    BY <1>1 DEF RecordRead
  <2>2. Lookup(pending_reads', x) = IF x = k THEN Find(k) ELSE Lookup(pending_reads, x)
    BY <2>1 DEF Put, Lookup
  <2>3. QED
    BY <1>1, <2>2
<1>2. CASE Lookup(pending_reads, k) # None
  BY <1>2 DEF RecordRead
<1>3. QED
  BY <1>1, <1>2

LEMMA ReadsOfReads ==
    ASSUME NEW S, pending_reads' = ReadsOf(S)
    PROVE  \A x : Lookup(pending_reads', x) =
                    IF x \in S /\ Lookup(pending_reads, x) = None THEN Find(x)
                    ELSE Lookup(pending_reads, x)
BY DEF ReadsOf, Update, Lookup

LEMMA ReadsOfType ==
    ASSUME TypeOK, NEW S \in SUBSET Keys
    PROVE  ReadsOf(S) \in Dict(Keys, MaybeValue)
<1> DEFINE new == {x \in S : Lookup(pending_reads, x) = None}
           g == [k \in new |-> Find(k)]
<1>1. g \in [new -> MaybeValue] /\ new \in SUBSET Keys
  BY FindType
<1>2. g \in Dict(Keys, MaybeValue)
  BY <1>1, DictIntro
<1>3. Update(pending_reads, g) \in Dict(Keys, MaybeValue)
  BY <1>2, UpdateType DEF TypeOK
<1>4. QED
  BY <1>3 DEF ReadsOf

LEMMA LayersRead ==
    ASSUME Layers, TypeOK', NEW S, Reads(S), UNCHANGED <<cache, driver, pending_deltas>>
    PROVE  Layers'
<1>1. \A h : Older(h)' = Older(h)
  BY DEF Older
<1>2. \A R, k : Top(R, k)' = TopOf(driver, pending_deltas, R', k)
  BY DEF Top
<1>3. \A k : Newest(k)' = Newest(k)
  BY <1>2 DEF Newest, Top
<1>4. NoneCached'
  BY <1>3 DEF Layers, NoneCached
<1>5. NoneRead'
  <2> SUFFICES ASSUME NEW k \in Short \cap DOMAIN pending_writes', Lookup(pending_reads', k) = None
               PROVE  Newest(k) = None
    BY <1>3 DEF NoneRead
  <2>1. CASE k \in DOMAIN pending_writes
    <3>1. Lookup(pending_reads, k) = None
      BY DEF Reads
    <3>2. QED
      BY <2>1, <3>1 DEF Layers, NoneRead
  <2>2. CASE k \notin DOMAIN pending_writes
    <3>1. k \in S
      BY <2>2 DEF Reads
    <3>2. Find(k) = None
      BY <3>1 DEF Reads
    <3>3. QED
      BY <2>2, <3>2, NoneFound
  <2>3. QED
    BY <2>1, <2>2
<1>6. NoneBefore'
  BY <1>1 DEF Layers, NoneBefore, Pre, Top
<1>7. NoneRefused'
  BY DEF Layers, NoneRefused
<1>8. QED
  BY <1>4, <1>5, <1>6, <1>7 DEF Layers

LEMMA KeptGet ==
    ASSUME Kept, NEW k \in Keys, Get(k), cleared' \subseteq cleared
    PROVE  Kept'
<1>1. TypeOK'
  BY TypeNext DEF Kept, Layers, Next
<1>2. UNCHANGED <<pending_writes, cache, driver, pending_deltas>> /\ RecordRead(k)
  BY DEF Get
<1>3. Reads({k})
  BY <1>2, RecordReads DEF Reads
<1>4. Layers'
  BY <1>1, <1>2, <1>3, LayersRead DEF Kept
<1>5. StillCleared' /\ CodeStays'
  BY <1>2 DEF Kept, StillCleared, CodeStays, Newest, Top
<1>6. QED
  BY <1>4, <1>5 DEF Kept

LEMMA KeptSet ==
    ASSUME Kept, NEW k \in Keys, NEW v \in MaybeValue, Set(k, v),
           cleared' = IF v = None THEN cleared ELSE cleared \ {k},
           v # None \/ \A c \in Contracts : CodeKey[c] # k
    PROVE  Kept'
<1>1. TypeOK'
  BY TypeNext DEF Kept, Layers, Next
<1>2. /\ UNCHANGED <<cache, driver, pending_deltas>> /\ RecordRead(k)
      /\ pending_writes' = Put(pending_writes, k, v)
  BY DEF Set
<1>3. /\ DOMAIN pending_writes' = DOMAIN pending_writes \cup {k}
      /\ pending_writes'[k] = v
      /\ \A x \in DOMAIN pending_writes \ {k} : pending_writes'[x] = pending_writes[x]
  BY <1>2 DEF Put
<1>4. Reads({k})
  BY <1>2, <1>3, RecordReads DEF Reads
<1>5. Layers'
  BY <1>1, <1>2, <1>4, LayersRead DEF Kept
<1>6. StillCleared'
  BY <1>2, <1>3 DEF Kept, StillCleared, Newest, Top
<1>7. CodeStays'
  BY <1>3 DEF Kept, CodeStays
<1>8. QED
  BY <1>5, <1>6, <1>7 DEF Kept

LEMMA ItemKeysType ==
    ASSUME NEW p \in Prefixes
    PROVE  ItemKeys(p) \subseteq Matches[p] /\ Matches[p] \subseteq Keys /\ FromDisk(p) \subseteq ItemKeys(p)
BY DEF Matches, ItemKeys, Held, Iter, FromDisk

LEMMA KeptList ==
    ASSUME Kept, NEW p \in Prefixes, ListItems(p), UNCHANGED cleared
    PROVE  Kept'
<1>1. /\ UNCHANGED <<pending_writes, cache, driver, pending_deltas>>
      /\ pending_reads' = ReadsOf(FromDisk(p))
  BY DEF ListItems
<1>2. TypeOK'
  <2>1. ReadsOf(FromDisk(p)) \in Dict(Keys, MaybeValue)
    BY ItemKeysType, ReadsOfType DEF Kept, Layers
  <2>2. QED
    BY <1>1, <2>1 DEF Kept, Layers, TypeOK
<1>3. Reads(FromDisk(p))
  BY <1>1, ReadsOfReads DEF Reads
<1>4. Layers'
  BY <1>1, <1>2, <1>3, LayersRead DEF Kept
<1>5. StillCleared' /\ CodeStays'
  BY <1>1 DEF Kept, StillCleared, CodeStays, Newest, Top
<1>6. QED
  BY <1>4, <1>5 DEF Kept

(* A clear leaves None under every item of the hash that had a value, in   *)
(* whichever of the layers, and the others had none.                       *)
LEMMA KeptClear ==
    ASSUME Kept, NEW l \in Listings, Clears(l)
    PROVE  Kept'
<1> DEFINE p == Prefix[l]
           S == ItemKeys(p)
<1>1. /\ UNCHANGED <<cache, driver, pending_deltas>>
      /\ pending_reads' = ReadsOf(S)
      /\ pending_writes' = Update(pending_writes, [k \in S |-> None])
      /\ cleared' = cleared \cup {ItemKey[i] : i \in Under[l]}
  BY DEF Clears, Clear
<1>2. p \in Prefixes /\ p \notin Contracts /\ S \subseteq Matches[p] /\ Matches[p] \subseteq Keys
  BY ListingIs, PrefixHasColon, ItemKeysType
<1>3. /\ DOMAIN pending_writes' = DOMAIN pending_writes \cup S
      /\ \A x \in S : pending_writes'[x] = None
      /\ \A x \in DOMAIN pending_writes \ S : pending_writes'[x] = pending_writes[x]
  BY <1>1 DEF Update
<1>4. TypeOK'
  <2>1. ReadsOf(S) \in Dict(Keys, MaybeValue)
    BY <1>2, ReadsOfType DEF Kept, Layers
  <2>2. [k \in S |-> None] \in [S -> MaybeValue]
    BY DEF MaybeValue
  <2>3. [k \in S |-> None] \in Dict(Keys, MaybeValue)
    BY <1>2, <2>2, DictIntro
  <2>4. Update(pending_writes, [k \in S |-> None]) \in Dict(Keys, MaybeValue)
    BY <2>3, UpdateType DEF Kept, Layers, TypeOK
  <2>5. QED
    BY <1>1, <2>1, <2>4 DEF Kept, Layers, TypeOK
<1>5. Reads(S)
  BY <1>1, <1>3, ReadsOfReads DEF Reads
<1>6. Layers'
  BY <1>1, <1>4, <1>5, LayersRead DEF Kept
<1>7. StillCleared'
  <2>1. {ItemKey[i] : i \in Under[l]} \subseteq Matches[p]
    BY UnderIsMatch DEF Under
  <2>2. cleared' \subseteq Keys
    BY <1>1, <1>2, <2>1 DEF Kept, StillCleared
  <2>3. ASSUME NEW k \in Short \cap cleared'
        PROVE  IF k \in DOMAIN pending_writes' THEN pending_writes'[k] = None
               ELSE Newest(k) = None /\ (k \in DOMAIN cache => cache[k] = None)
    <3>1. CASE k \in S
      BY <1>3, <3>1
    <3>2. CASE k \notin S /\ k \in cleared
      BY <1>3, <3>2 DEF Kept, StillCleared
    <3>3. CASE k \notin S /\ k \in Matches[p]
      <4>1. /\ k \in DOMAIN pending_writes => pending_writes[k] = None
            /\ k \in DOMAIN cache => cache[k] = None
            /\ driver[k] = NoEntry
        BY <1>2, <3>3, IterIs DEF ItemKeys, Held, Listed
      <4>2. Find(k) = None
        BY <4>1 DEF Find, FindApplied, Lookup, FSGet, NoEntry
      <4>3. k \notin DOMAIN pending_writes => Newest(k) = None
        BY <4>2, NoneFound DEF Kept
      <4>4. QED
        BY <1>3, <3>3, <4>1, <4>3
    <3>4. QED
      BY <1>1, <2>1, <3>1, <3>2, <3>3
  <2>4. \A k : Newest(k)' = Newest(k)
    BY <1>1 DEF Newest, Top
  <2>5. QED
    BY <1>1, <2>2, <2>3, <2>4 DEF StillCleared
<1>8. CodeStays'
  <2>1. \A c \in Contracts : CodeKey[c] \notin S
    BY <1>2, IndexedIsNoCode
  <2>2. QED
    BY <1>3, <2>1 DEF Kept, CodeStays
<1>9. QED
  BY <1>6, <1>7, <1>8 DEF Kept

(* Deleting a contract, when nothing is pending.                           *)
LEMMA KeptDelete ==
    ASSUME Kept, NEW c \in Contracts, DeleteContract(c), pending_deltas = EmptyDict, UNCHANGED cleared
    PROVE  Kept'
<1> DEFINE p == c
<1>1. /\ pending_reads' = ReadsOf(FromDisk(p))
      /\ cache' = Without(cache, Held(cache, p))
      /\ pending_writes' = Without(pending_writes, Held(pending_writes, p))
      /\ driver' = [k \in Keys |-> IF k \in ItemKeys(p) THEN FSDelete(driver, k) ELSE driver[k]]
      /\ pending_deltas' = pending_deltas
  BY DEF DeleteContract
<1>2. p \in Prefixes
  BY DEF Prefixes
<1>3. TypeOK'
  <2>1. pending_reads' \in Dict(Keys, MaybeValue)
    BY <1>1, <1>2, ItemKeysType, ReadsOfType DEF Kept, Layers
  <2>2. cache' \in Dict(Keys, MaybeValue) /\ pending_writes' \in Dict(Keys, MaybeValue)
    BY <1>1, WithoutType DEF Kept, Layers, TypeOK
  <2>3. \A k \in Keys : driver[k] \in Entry /\ FSDelete(driver, k) \in Entry
    <3>1. None \in MaybeValue /\ NoBlock \in Int
      BY DEF MaybeValue, NoBlock
    <3>2. driver \in Store
      BY DEF Kept, Layers, TypeOK
    <3>3. QED
      BY <3>1, <3>2, EntryType DEF Store, Entry
  <2>4. driver' \in Store
    BY <1>1, <2>3 DEF Store, Entry
  <2>5. QED
    BY <1>1, <2>1, <2>2, <2>4 DEF Kept, Layers, TypeOK
<1>4. DOMAIN pending_deltas = {} /\ DOMAIN pending_deltas' = {}
  BY <1>1 DEF EmptyDict
<1>5. \A k \in Keys : Newest(k) = driver[k].value /\ Newest(k)' = driver'[k].value
  BY <1>4 DEF Newest, Top, TopOf, WritersOf
<1>6. \A k \in Keys : driver'[k] = driver[k] \/ driver'[k].value = None
  BY <1>1 DEF FSDelete, NoEntry
<1>7. \A k \in Keys : Newest(k) = None => Newest(k)' = None
  BY <1>5, <1>6
<1>8. /\ DOMAIN cache' \subseteq DOMAIN cache
      /\ \A k \in DOMAIN cache' : cache'[k] = cache[k]
      /\ DOMAIN pending_writes' = DOMAIN pending_writes \ Held(pending_writes, p)
      /\ \A k \in DOMAIN pending_writes' : pending_writes'[k] = pending_writes[k]
  BY <1>1 DEF Without
<1>9. NoneCached'
  BY <1>4, <1>7, <1>8 DEF Kept, Layers, NoneCached, WritersOf, Short
<1>10. NoneRead'
  <2>1. \A k : Lookup(pending_reads', k) = None => Lookup(pending_reads, k) = None
    BY <1>1, ReadsOfReads
  <2>2. QED
    BY <1>7, <1>8, <2>1 DEF Kept, Layers, NoneRead, Short
<1>11. NoneBefore' /\ NoneRefused'
  BY <1>4 DEF NoneBefore, NoneRefused
<1>12. StillCleared'
  <2>1. ASSUME NEW k \in Short \cap cleared
        PROVE  IF k \in DOMAIN pending_writes' THEN pending_writes'[k] = None
               ELSE Newest(k)' = None /\ (k \in DOMAIN cache' => cache'[k] = None)
    <3>1. CASE k \in DOMAIN pending_writes
      <4>1. pending_writes[k] = None
        BY <3>1 DEF Kept, StillCleared
      <4>2. k \in DOMAIN pending_writes'
        BY <1>8, <3>1, <4>1 DEF Held
      <4>3. QED
        BY <1>8, <4>1, <4>2
    <3>2. CASE k \notin DOMAIN pending_writes
      BY <1>7, <1>8, <3>2 DEF Kept, StillCleared, Short
    <3>3. QED
      BY <3>1, <3>2
  <2>2. QED
    BY <2>1 DEF Kept, StillCleared
<1>13. CodeStays'
  BY <1>8 DEF Kept, CodeStays
<1>14. QED
  BY <1>3, <1>9, <1>10, <1>11, <1>12, <1>13 DEF Kept, Layers

(* Soft applying after what is pending and what is durable.                *)
LEMMA KeptSoftApply ==
    ASSUME Kept, NEW h \in Hlcs, Latest(h), SoftApply(h), UNCHANGED cleared
    PROVE  Kept'
<1> DEFINE S0 == DOMAIN pending_deltas
<1>1. /\ cache' = Update(cache, pending_writes)
      /\ pending_deltas' = Put(pending_deltas, h, PendingPairs)
      /\ pending_writes' = EmptyDict /\ pending_reads' = EmptyDict
      /\ driver' = driver
  BY DEF SoftApply, ClearTopCache
<1>2. S0 \subseteq Hlcs /\ pending_deltas \in Dict(Hlcs, Delta)
  BY DictElim, IsDictIsDict DEF Kept, Layers, TypeOK
<1>3. \A g \in S0 : Rank[g] < Rank[h]
  BY DEF Latest
<1>4. PendingPairs \in Delta /\ DOMAIN PendingPairs = DOMAIN pending_writes
  BY PendingPairsType DEF Kept, Layers
<1>5. DOMAIN pending_deltas' = S0 \cup {h} /\ DOMAIN EmptyDict = {}
  BY <1>1 DEF Put, EmptyDict
<1>6. h \notin S0
  BY <1>2, <1>3, HlcAssumption
<1>7. pending_deltas'[h] = PendingPairs /\ \A g \in S0 : pending_deltas'[g] = pending_deltas[g]
  BY <1>1, <1>6 DEF Put
<1>8. ASSUME NEW k
      PROVE  Newest(k)' = IF k \in DOMAIN pending_writes THEN pending_writes[k] ELSE Newest(k)
  <2>1. TopOf(driver, Put(pending_deltas, h, PendingPairs), S0 \cup {h}, k)
          = IF k \in DOMAIN PendingPairs THEN PendingPairs[k][2]
            ELSE TopOf(driver, pending_deltas, S0, k)
    BY <1>2, <1>3, <1>4, TopPut
  <2>2. k \in DOMAIN pending_writes => PendingPairs[k][2] = pending_writes[k]
    BY DEF PendingPairs
  <2>3. QED
    BY <1>1, <1>4, <1>5, <2>1, <2>2 DEF Newest, Top
<1>9. ASSUME NEW S \in SUBSET S0, NEW k
      PROVE  TopOf(driver', pending_deltas', S, k) = Top(S, k)
  <2>1. TopOf(driver, Put(pending_deltas, h, PendingPairs), S, k)
          = TopOf(driver, pending_deltas, S, k)
    BY <1>2, <1>6, TopBelow
  <2>2. QED
    BY <1>1, <2>1 DEF Top
<1>10. TypeOK'
  BY TypeNext DEF Kept, Layers, Next
<1>11. /\ DOMAIN cache' = DOMAIN cache \cup DOMAIN pending_writes
       /\ \A k \in DOMAIN cache' : cache'[k] = IF k \in DOMAIN pending_writes
                                               THEN pending_writes[k] ELSE cache[k]
  BY <1>1 DEF Update
<1>12. NoneCached'
  <2> SUFFICES ASSUME NEW k \in Short
               PROVE  IF k \in DOMAIN cache' THEN cache'[k] = None => Newest(k)' = None
                      ELSE WritersOf(pending_deltas', S0 \cup {h}, k) = {}
    BY <1>5 DEF NoneCached
  <2>1. CASE k \in DOMAIN cache'
    BY <1>8, <1>11, <2>1 DEF Kept, Layers, NoneCached
  <2>2. CASE k \notin DOMAIN cache'
    <3>1. k \notin DOMAIN pending_writes /\ WritersOf(pending_deltas, S0, k) = {}
      BY <1>11, <2>2 DEF Kept, Layers, NoneCached
    <3>2. WritersOf(pending_deltas', S0 \cup {h}, k) = {}
      BY <1>4, <1>7, <3>1 DEF WritersOf
    <3>3. QED
      BY <2>2, <3>2
  <2>3. QED
    BY <2>1, <2>2
<1>13. NoneRead'
  BY <1>1, <1>5 DEF NoneRead
<1>14. NoneBefore'
  <2> SUFFICES ASSUME NEW g \in S0 \cup {h}, NEW k \in Short \cap DOMAIN pending_deltas'[g],
                      pending_deltas'[g][k][1] = None
               PROVE  TopOf(driver', pending_deltas', Older(g)', k) = None
    BY <1>5 DEF NoneBefore, Pre, Top
  <2>1. CASE g = h
    <3>0. ~(Rank[h] < Rank[h])
      BY HlcAssumption
    <3>1. {x \in S0 \cup {h} : Rank[x] < Rank[h]} = S0
      BY <1>3, <3>0
    <3>2. Older(g)' = S0
      BY <1>5, <2>1, <3>1 DEF Older
    <3>3. k \in DOMAIN pending_writes /\ Lookup(pending_reads, k) = None
      BY <1>4, <1>7, <2>1 DEF PendingPairs
    <3>4. Newest(k) = None
      BY <3>3 DEF Kept, Layers, NoneRead
    <3>5. QED
      BY <1>9, <3>2, <3>4 DEF Newest
  <2>2. CASE g # h
    <3>1. g \in S0 /\ pending_deltas'[g] = pending_deltas[g]
      BY <1>7, <2>2
    <3>2. Older(g)' = Older(g)
      <4>1. ~(Rank[h] < Rank[g])
        BY <1>2, <1>3, <3>1, HlcAssumption
      <4>2. QED
        BY <1>5, <4>1 DEF Older
    <3>3. Older(g) \in SUBSET S0
      BY DEF Older
    <3>4. Top(Older(g), k) = None
      BY <3>1 DEF Kept, Layers, NoneBefore, Pre
    <3>5. QED
      BY <1>9, <3>2, <3>3, <3>4
  <2>3. QED
    BY <2>1, <2>2
<1>15. NoneRefused'
  BY <1>1, <1>5 DEF Kept, Layers, NoneRefused, Latest
<1>16. StillCleared'
  <2>1. ASSUME NEW k \in Short \cap cleared
        PROVE  Newest(k)' = None /\ (k \in DOMAIN cache' => cache'[k] = None)
    BY <1>8, <1>11 DEF Kept, StillCleared
  <2>2. QED
    BY <1>1, <1>5, <2>1 DEF Kept, StillCleared
<1>17. CodeStays'
  BY <1>1, <1>5 DEF CodeStays
<1>18. QED
  BY <1>10, <1>12, <1>13, <1>14, <1>15, <1>16, <1>17 DEF Kept, Layers

(* What hard_apply() leaves under a short key: no delta is refused.        *)
LEMMA ShortApplyUpTo ==
    ASSUME Layers, NEW h \in DOMAIN pending_deltas, NEW k \in Keys
    PROVE  /\ k \in Short => ApplyUpTo(h, k).value = Top(UpTo(h), k)
           /\ ApplyUpTo(h, k).block = driver[k].block \/ ApplyUpTo(h, k).block <= Nanos[h]
<1> DEFINE W == WritersOf(pending_deltas, UpTo(h), k)
           w == Last(W)
<1>1. UpTo(h) \in SUBSET DOMAIN pending_deltas /\ W = Writers(UpTo(h), k)
  BY DEF UpTo, WritersOf, Writers
<1>2. CASE W = {}
  BY <1>1, <1>2 DEF ApplyUpTo, Top, TopOf
<1>3. CASE W # {}
  <2>1. w \in W
    BY <1>1, <1>3, WritersIn DEF Layers
  <2>2. w \in DOMAIN pending_deltas /\ w \in Hlcs /\ h \in Hlcs /\ Rank[w] <= Rank[h]
    BY <1>1, <2>1, DeltaType DEF Layers, WritersOf, UpTo
  <2>3. Nanos[w] <= Nanos[h] /\ Nanos[w] \in Nat /\ Nanos[h] \in Nat
    BY <2>2, HlcAssumption
  <2>4. driver[k].block <= Nanos[w] /\ driver[k].block \in Int
    BY <2>2 DEF Layers, NoneRefused, TypeOK, Store
  <2>5. CASE k \in LongKeys
    BY <1>1, <1>3, <2>5 DEF ApplyUpTo, FSSafeSet, FSSetPlain, Short
  <2>6. CASE k \notin LongKeys
    <3>1. \/ ApplyUpTo(h, k) = [value |-> Post(w, k), block |-> Nanos[w]]
          \/ ApplyUpTo(h, k) = [value |-> Post(w, k), block |-> NoBlock]
      BY <1>1, <1>3, <2>3, <2>4, <2>6 DEF ApplyUpTo, FSSafeSet, FSSetPlain
    <3>2. Top(UpTo(h), k) = Post(w, k)
      BY <1>3 DEF Top, TopOf, Post
    <3>3. QED
      BY <2>3, <3>1, <3>2 DEF NoBlock
  <2>7. QED
    BY <2>5, <2>6
<1>4. QED
  BY <1>2, <1>3

LEMMA KeptHardApply ==
    ASSUME Kept, NEW h \in Hlcs, HardApply(h), UNCHANGED cleared
    PROVE  Kept'
<1> DEFINE S0 == DOMAIN pending_deltas
           U == UpTo(h)
<1>1. /\ h \in S0 /\ driver' = [k \in Keys |-> ApplyUpTo(h, k)]
      /\ pending_deltas' = Without(pending_deltas, U)
      /\ UNCHANGED <<pending_writes, pending_reads, cache>>
  BY DEF HardApply
<1>2. S0 \subseteq Hlcs /\ pending_deltas \in Dict(Hlcs, Delta)
  BY DictElim, IsDictIsDict DEF Kept, Layers, TypeOK
<1>3. DOMAIN pending_deltas' = S0 \ U /\ \A g \in S0 \ U : pending_deltas'[g] = pending_deltas[g]
  BY <1>1 DEF Without
<1>4. U \in SUBSET S0 /\ \A g \in S0 \ U : Nanos[h] <= Nanos[g] /\ \A u \in U : Rank[u] < Rank[g]
  BY UpToSplit DEF Kept, Layers
<1>5. \A k \in Keys : /\ k \in Short => driver'[k].value = Top(U, k)
                      /\ driver'[k].block = driver[k].block \/ driver'[k].block <= Nanos[h]
  BY <1>1, ShortApplyUpTo DEF Kept
<1>6. TypeOK'
  BY TypeNext DEF Kept, Layers, Next
<1>7. ASSUME NEW S \in SUBSET S0, U \subseteq S, NEW k \in Short
      PROVE  TopOf(driver', pending_deltas', S \ U, k) = Top(S, k)
  <2>1. driver'[k].value = TopOf(driver, pending_deltas, U, k)
    BY <1>5 DEF Top, Short
  <2>2. \A u \in U : \A g \in S \ U : Rank[u] < Rank[g]
    BY <1>4
  <2>3. TopOf(driver', Without(pending_deltas, U), S \ U, k) = TopOf(driver, pending_deltas, S, k)
    BY <1>2, <1>7, <2>1, <2>2, TopFold
  <2>4. QED
    BY <1>1, <2>3 DEF Top
<1>8. \A k \in Short : Newest(k)' = Newest(k)
  BY <1>3, <1>4, <1>7 DEF Newest, Top
<1>9. NoneCached'
  BY <1>1, <1>3, <1>8 DEF Kept, Layers, NoneCached, WritersOf
<1>10. NoneRead'
  BY <1>1, <1>8 DEF Kept, Layers, NoneRead
<1>11. NoneBefore'
  <2> SUFFICES ASSUME NEW g \in S0 \ U, NEW k \in Short \cap DOMAIN pending_deltas[g],
                      pending_deltas[g][k][1] = None
               PROVE  TopOf(driver', pending_deltas', Older(g)', k) = None
    BY <1>3 DEF NoneBefore, Pre, Top
  <2>1. Older(g)' = Older(g) \ U
    BY <1>3 DEF Older
  <2>2. Older(g) \in SUBSET S0 /\ U \subseteq Older(g)
    BY <1>4 DEF Older
  <2>3. Top(Older(g), k) = None
    BY DEF Kept, Layers, NoneBefore, Pre
  <2>4. QED
    BY <1>7, <2>1, <2>2, <2>3
<1>12. NoneRefused'
  <2> SUFFICES ASSUME NEW g \in S0 \ U, NEW k \in Keys
               PROVE  driver'[k].block <= Nanos[g]
    BY <1>3 DEF NoneRefused
  <2>1. driver[k].block <= Nanos[g]
    BY DEF Kept, Layers, NoneRefused
  <2>2. driver'[k].block \in Int /\ Nanos[h] \in Int /\ Nanos[g] \in Int
    BY <1>2, <1>6, HlcAssumption DEF TypeOK, Store
  <2>3. QED
    BY <1>4, <1>5, <2>1, <2>2
<1>13. StillCleared' /\ CodeStays'
  BY <1>1, <1>8 DEF Kept, StillCleared, CodeStays
<1>14. QED
  BY <1>6, <1>9, <1>10, <1>11, <1>12, <1>13 DEF Kept, Layers

(* Busting the cache drops what no pending delta writes.                   *)
LEMMA KeptBust ==
    ASSUME Kept, NEW S \in SUBSET Keys, BustCache(S), UNCHANGED cleared
    PROVE  Kept'
<1>1. /\ cache' = Without(cache, {k \in S : Writers(DOMAIN pending_deltas, k) = {}})
      /\ UNCHANGED <<pending_writes, pending_reads, driver, pending_deltas>>
  BY DEF BustCache
<1>2. TypeOK'
  BY TypeNext DEF Kept, Layers, Next
<1>3. /\ DOMAIN cache' \subseteq DOMAIN cache
      /\ \A k \in DOMAIN cache' : cache'[k] = cache[k]
      /\ \A k \in DOMAIN cache \ DOMAIN cache' : Writers(DOMAIN pending_deltas, k) = {}
  BY <1>1 DEF Without
<1>4. \A k : Newest(k)' = Newest(k)
  BY <1>1 DEF Newest, Top
<1>5. NoneCached'
  <2>1. ASSUME NEW k \in Short
        PROVE  IF k \in DOMAIN cache' THEN cache'[k] = None => Newest(k) = None
               ELSE WritersOf(pending_deltas, DOMAIN pending_deltas, k) = {}
    BY <1>3 DEF Kept, Layers, NoneCached, Writers, WritersOf
  <2>2. QED
    BY <1>1, <1>4, <2>1 DEF NoneCached
<1>6. NoneRead'
  BY <1>1, <1>4 DEF Kept, Layers, NoneRead
<1>7. NoneBefore'
  BY <1>1 DEF Kept, Layers, NoneBefore, Pre, Top, Older
<1>8. NoneRefused'
  BY <1>1 DEF Kept, Layers, NoneRefused
<1>9. StillCleared' /\ CodeStays'
  BY <1>1, <1>3, <1>4 DEF Kept, StillCleared, CodeStays
<1>10. QED
  BY <1>2, <1>5, <1>6, <1>7, <1>8, <1>9 DEF Kept, Layers

(* Whatever leaves no writes, no cache and no deltas.                      *)
LEMMA KeptEmptied ==
    ASSUME TypeOK', cache' = EmptyDict, pending_writes' = EmptyDict, pending_deltas' = EmptyDict,
           cleared' = {}
    PROVE  Kept'
<1>1. DOMAIN cache' = {} /\ DOMAIN pending_writes' = {} /\ DOMAIN pending_deltas' = {}
  BY DEF EmptyDict
<1>2. NoneCached' /\ NoneRead' /\ NoneBefore' /\ NoneRefused'
  BY <1>1 DEF NoneCached, NoneRead, NoneBefore, NoneRefused, WritersOf
<1>3. StillCleared' /\ CodeStays'
  BY <1>1 DEF StillCleared, CodeStays
<1>4. QED
  BY <1>2, <1>3 DEF Kept, Layers

LEMMA KeptForgetting ==
    ASSUME Kept, cleared' = {},
           (pending_deltas = EmptyDict /\ Commit) \/ RollbackAll \/ Flush
    PROVE  Kept'
<1>1. cache' = EmptyDict /\ pending_writes' = EmptyDict /\ pending_deltas' = EmptyDict
  BY DEF Commit, RollbackAll, Flush, ClearTopCache
<1>2. TypeOK'
  <2>1. CASE Commit \/ RollbackAll
    BY <2>1, TypeNext DEF Kept, Layers, Next
  <2>2. CASE Flush
    <3>1. EmptyDict \in Dict(Keys, MaybeValue) /\ IsDict(EmptyDict, Hlcs, Delta)
      BY EmptyDictType, IsDictIsDict
    <3>2. [k \in Keys |-> NoEntry] \in Store
      BY DEF Store, NoEntry, NoBlock, MaybeValue
    <3>3. QED
      BY <2>2, <3>1, <3>2 DEF Flush, ClearTopCache, TypeOK
  <2>3. QED
    BY <2>1, <2>2
<1>3. QED
  BY <1>1, <1>2, KeptEmptied

(* A rolled back key takes the value before the first delta rolled back:   *)
(* if that is None, so is the newest value below.                          *)
LEMMA RolledBackNone ==
    ASSUME Layers, NEW h \in Hlcs, NEW k \in Short, k \in DOMAIN RolledBack(h), RolledBack(h)[k] = None
    PROVE  Top(Older(h), k) = None
<1> DEFINE W == Writers(From(h), k)
           f == First(W)
<1>1. W # {} /\ RolledBack(h)[k] = Pre(f, k)
  BY DEF RolledBack
<1>2. From(h) \in SUBSET DOMAIN pending_deltas
  BY FromSplit DEF Layers
<1>3. W \in SUBSET Hlcs
  BY <1>2, DeltaType DEF Layers, Writers
<1>4. f \in W /\ \A g \in W : Rank[f] <= Rank[g]
  BY <1>1, <1>3, FirstLast
<1>5. f \in From(h) /\ f \in DOMAIN pending_deltas /\ k \in DOMAIN pending_deltas[f]
  BY <1>2, <1>4 DEF Writers
<1>6. Top(Older(f), k) = None
  BY <1>1, <1>5 DEF Layers, NoneBefore
<1>7. WritersOf(pending_deltas, Older(f), k) = WritersOf(pending_deltas, Older(h), k)
  <2>1. \A g \in DOMAIN pending_deltas : g \in Hlcs /\ Rank[g] \in Nat
    BY DeltaType, HlcAssumption DEF Layers
  <2>2. Rank[h] \in Nat /\ Rank[h] <= Rank[f]
    BY <1>5, HlcAssumption DEF From
  <2>3. ASSUME NEW g \in DOMAIN pending_deltas, k \in DOMAIN pending_deltas[g]
        PROVE  Rank[g] < Rank[f] <=> Rank[g] < Rank[h]
    <3>1. Rank[g] < Rank[h] => Rank[g] < Rank[f]
      BY <1>5, <2>1, <2>2
    <3>2. ~(Rank[g] < Rank[h]) => g \in W
      BY <2>1, <2>2, <2>3 DEF From, Writers
    <3>3. g \in W => ~(Rank[g] < Rank[f])
      BY <1>4, <1>5, <2>1
    <3>4. QED
      BY <3>1, <3>2, <3>3
  <2>4. QED
    BY <2>3 DEF WritersOf, Older
<1>8. QED
  BY <1>6, <1>7 DEF Top, TopOf

LEMMA KeptRollback ==
    ASSUME Kept, NEW h \in Hlcs, Rollback(h), cleared' = {}
    PROVE  Kept'
<1> DEFINE S0 == DOMAIN pending_deltas
<1>1. /\ cache' = Update(cache, RolledBack(h))
      /\ pending_deltas' = Without(pending_deltas, From(h))
      /\ driver' = driver
  BY DEF Rollback
<1>2. From(h) \in SUBSET S0 /\ S0 \ From(h) = Older(h)
  BY FromSplit DEF Kept, Layers
<1>3. /\ DOMAIN pending_deltas' = Older(h)
      /\ \A g \in Older(h) : pending_deltas'[g] = pending_deltas[g] /\ g \in S0
  BY <1>1, <1>2 DEF Without
<1>4. pending_deltas \in Dict(Hlcs, Delta)
  BY IsDictIsDict DEF Kept, Layers, TypeOK
<1>5. ASSUME NEW S \in SUBSET Older(h), NEW k
      PROVE  TopOf(driver', pending_deltas', S, k) = Top(S, k)
  <2>1. S \in SUBSET (DOMAIN pending_deltas \ From(h))
    BY <1>2
  <2>2. TopOf(driver, Without(pending_deltas, From(h)), S, k) = TopOf(driver, pending_deltas, S, k)
    BY <1>4, <2>1, TopDrop
  <2>3. QED
    BY <1>1, <2>2 DEF Top
<1>6. \A k : Newest(k)' = Top(Older(h), k)
  BY <1>3, <1>5 DEF Newest, Top
<1>7. /\ DOMAIN cache' = DOMAIN cache \cup DOMAIN RolledBack(h)
      /\ \A k \in DOMAIN cache' : cache'[k] = IF k \in DOMAIN RolledBack(h)
                                              THEN RolledBack(h)[k] ELSE cache[k]
  BY <1>1 DEF Update
<1>8. ASSUME NEW k \in Keys, k \notin DOMAIN RolledBack(h)
      PROVE  /\ Newest(k) = Top(Older(h), k)
             /\ WritersOf(pending_deltas, S0, k) = WritersOf(pending_deltas, Older(h), k)
  <2>1. Writers(From(h), k) = {}
    BY <1>8 DEF RolledBack
  <2>2. WritersOf(pending_deltas, S0, k) = WritersOf(pending_deltas, Older(h), k)
    BY <1>2, <2>1 DEF WritersOf, Writers
  <2>3. QED
    BY <2>2 DEF Newest, Top, TopOf
<1>9. TypeOK'
  BY TypeNext DEF Kept, Layers, Next
<1>10. NoneCached'
  <2> SUFFICES ASSUME NEW k \in Short
               PROVE  IF k \in DOMAIN cache' THEN cache'[k] = None => Top(Older(h), k) = None
                      ELSE WritersOf(pending_deltas', Older(h), k) = {}
    BY <1>3, <1>6 DEF NoneCached
  <2>1. CASE k \in DOMAIN RolledBack(h)
    BY <1>7, <2>1, RolledBackNone DEF Kept
  <2>2. CASE k \notin DOMAIN RolledBack(h) /\ k \in DOMAIN cache
    BY <1>7, <1>8, <2>2 DEF Kept, Layers, NoneCached, Short
  <2>3. CASE k \notin DOMAIN RolledBack(h) /\ k \notin DOMAIN cache
    <3>1. WritersOf(pending_deltas, Older(h), k) = {}
      BY <1>8, <2>3 DEF Kept, Layers, NoneCached, Short
    <3>2. QED
      BY <1>3, <1>7, <2>3, <3>1 DEF WritersOf
  <2>4. QED
    BY <2>1, <2>2, <2>3
<1>11. NoneRead'
  <2>1. CASE S0 = {}
    <3>1. UNCHANGED <<pending_writes, pending_reads>>
      BY <2>1 DEF Rollback
    <3>2. Older(h) = S0
      BY <2>1 DEF Older
    <3>3. QED
      BY <1>6, <3>1, <3>2 DEF Kept, Layers, NoneRead, Newest
  <2>2. CASE S0 # {}
    BY <2>2 DEF Rollback, ClearTopCache, EmptyDict, NoneRead
  <2>3. QED
    BY <2>1, <2>2
<1>12. NoneBefore'
  <2> SUFFICES ASSUME NEW g \in Older(h), NEW k \in Short \cap DOMAIN pending_deltas[g],
                      pending_deltas[g][k][1] = None
               PROVE  TopOf(driver', pending_deltas', Older(g)', k) = None
    BY <1>3 DEF NoneBefore, Pre, Top
  <2>1. \A x \in S0 : x \in Hlcs /\ Rank[x] \in Nat
    BY DeltaType, HlcAssumption DEF Kept, Layers
  <2>2. Older(g)' = Older(g) /\ Older(g) \in SUBSET Older(h)
    BY <1>3, <2>1, HlcAssumption DEF Older
  <2>3. Top(Older(g), k) = None
    BY <1>3 DEF Kept, Layers, NoneBefore, Pre
  <2>4. QED
    BY <1>5, <2>2, <2>3
<1>13. NoneRefused'
  BY <1>1, <1>3 DEF Kept, Layers, NoneRefused
<1>14. StillCleared'
  BY DEF StillCleared
<1>15. CodeStays'
  <2>1. CASE S0 = {}
    BY <2>1 DEF Rollback, Kept, CodeStays
  <2>2. CASE S0 # {}
    BY <2>2 DEF Rollback, ClearTopCache, EmptyDict, CodeStays
  <2>3. QED
    BY <2>1, <2>2
<1>16. QED
  BY <1>9, <1>10, <1>11, <1>12, <1>13, <1>14, <1>15 DEF Kept, Layers

LEMMA KeptSetContract ==
    ASSUME Kept, NEW c \in Contracts, NEW code \in Values, SetContract(c, code),
           cleared' = cleared \ {CodeKey[c]}
    PROVE  Kept' /\ pending_deltas' = pending_deltas /\ Find(CodeKey[c])' # None
<1> DEFINE k == CodeKey[c]
<1>1. k \in Keys /\ code \in MaybeValue /\ code # None
  BY CodeKeyIs, NoneAssumption DEF MaybeValue
<1>2. CASE Find(k) = None
  <2>1. Set(k, code)
    BY <1>2 DEF SetContract
  <2>2. Kept'
    BY <1>1, <2>1, KeptSet
  <2>3. pending_writes' = Put(pending_writes, k, code) /\ pending_deltas' = pending_deltas
    BY <2>1 DEF Set
  <2>4. Find(k)' = code
    BY <1>1, <2>3 DEF Put, Find, Lookup
  <2>5. QED
    BY <1>1, <2>2, <2>3, <2>4
<1>3. CASE Find(k) # None
  <2>1. Get(k) /\ cleared' \subseteq cleared
    BY <1>3 DEF SetContract
  <2>2. Kept'
    BY <1>1, <2>1, KeptGet
  <2>3. UNCHANGED <<pending_writes, cache, driver, pending_deltas>>
    BY <2>1 DEF Get
  <2>4. Find(k)' = Find(k)
    BY <2>3 DEF Find, FindApplied, Lookup
  <2>5. QED
    BY <1>3, <2>2, <2>3, <2>4
<1>4. QED
  BY <1>2, <1>3

LEMMA KeptStutter ==
    ASSUME Kept, UNCHANGED <<vars, cleared>>
    PROVE  Kept'
<1>1. /\ UNCHANGED <<pending_writes, pending_reads, cache, driver, pending_deltas>>
      /\ cleared' = cleared
  BY DEF vars
<1>2. TypeOK'
  BY <1>1 DEF Kept, Layers, TypeOK
<1>3. Layers'
  BY <1>1, <1>2 DEF Kept, Layers, NoneCached, NoneRead, NoneBefore, NoneRefused, Newest, Top, Older, Pre
<1>4. StillCleared' /\ CodeStays'
  BY <1>1 DEF Kept, StillCleared, CodeStays, Newest, Top
<1>5. QED
  BY <1>3, <1>4 DEF Kept

LEMMA KeptKeeping ==
    ASSUME Kept, Keeping, UNCHANGED cleared
    PROVE  Kept'
<1>1. ASSUME NEW i \in Items, GetItem(i) PROVE Kept'
  BY <1>1, ItemIs, KeptGet DEF GetItem
<1>2. ASSUME NEW q \in Quick, QuickRead(q) PROVE Kept'
  BY <1>2, IndexedIsNoCode, KeptGet DEF QuickRead
<1>3. ASSUME NEW l \in Listings, ListItems(Prefix[l]) PROVE Kept'
  BY <1>3, ListingIs, KeptList
<1>4. ASSUME NEW c \in Contracts, ListItems(c) PROVE Kept'
  BY <1>4, KeptList DEF Prefixes
<1>5. ASSUME NEW h \in Hashes, HashAttribute(h) PROVE Kept'
  <2>1. AttributePrefix[h] \in Prefixes
    BY DEF Prefixes
  <2>2. QED
    BY <1>5, <2>1, KeptList DEF HashAttribute
<1>6. ASSUME NEW c \in Contracts, CodeAttribute(c) PROVE Kept'
  BY <1>6, CodeKeyIs, KeptGet DEF CodeAttribute
<1>7. ASSUME NEW c \in Contracts, pending_deltas = EmptyDict, DeleteContract(c) PROVE Kept'
  BY <1>7, KeptDelete
<1>8. ASSUME NEW h \in Hlcs, Latest(h), SoftApply(h) PROVE Kept'
  BY <1>8, KeptSoftApply
<1>9. ASSUME NEW h \in Hlcs, HardApply(h) PROVE Kept'
  BY <1>9, KeptHardApply
<1>10. ASSUME NEW S \in SUBSET Keys, BustCache(S) PROVE Kept'
  BY <1>10, KeptBust
<1>11. QED
  BY <1>1, <1>2, <1>3, <1>4, <1>5, <1>6, <1>7, <1>8, <1>9, <1>10 DEF Keeping

LEMMA KeptCalls ==
    ASSUME Kept, Calls
    PROVE  Kept'
<1>1. ASSUME NEW l \in Listings, Clears(l) PROVE Kept'
  BY <1>1, KeptClear
<1>2. ASSUME NEW i \in Items, NEW v \in MaybeValue, SetItem(i, v) PROVE Kept'
  BY <1>2, ItemIs, IndexedIsNoCode, KeptSet DEF SetItem
<1>3. ASSUME NEW c \in Contracts, NEW v \in Values, Stores(c, v) PROVE Kept'
  BY <1>3, KeptSetContract DEF Stores
<1>4. CASE Keeping /\ UNCHANGED cleared
  BY <1>4, KeptKeeping
<1>5. CASE Forgetting /\ cleared' = {}
  <2>1. CASE (pending_deltas = EmptyDict /\ Commit) \/ RollbackAll \/ Flush
    BY <1>5, <2>1, KeptForgetting
  <2>2. ASSUME NEW h \in Hlcs, Rollback(h) PROVE Kept'
    BY <1>5, <2>2, KeptRollback
  <2>3. QED
    BY <1>5, <2>1, <2>2 DEF Forgetting
<1>6. QED
  BY <1>1, <1>2, <1>3, <1>4, <1>5 DEF Calls

(* The client's own calls come when no delta is pending.                   *)
Submission == [step : {"delete", "set", "commit", "done"}, contract : Contracts, code : Values]

Busy ==
    /\ client \in {Idle} \cup [step : {"write"}] \cup Submission
    /\ client # Idle => pending_deltas = EmptyDict

StorageIInv == Kept /\ Busy

LEMMA StorageInvInit == StorageInit => StorageIInv
<1> SUFFICES ASSUME StorageInit PROVE StorageIInv
  OBVIOUS
<1>1. TypeOK /\ Init /\ client = Idle /\ cleared = {}
  BY TypeInit DEF StorageInit
<1>2. DOMAIN cache = {} /\ DOMAIN pending_writes = {} /\ DOMAIN pending_deltas = {}
  BY <1>1 DEF Init, EmptyDict
<1>3. NoneCached /\ NoneRead /\ NoneBefore /\ NoneRefused
  BY <1>2 DEF NoneCached, NoneRead, NoneBefore, NoneRefused, WritersOf
<1>4. StillCleared /\ CodeStays
  BY <1>1, <1>2 DEF StillCleared, CodeStays
<1>5. QED
  BY <1>1, <1>3, <1>4 DEF StorageIInv, Kept, Layers, Busy

LEMMA StepOf ==
    ASSUME Busy, client.step \in {"delete", "set", "commit", "done"}
    PROVE  client \in Submission /\ client # Idle /\ pending_deltas = EmptyDict
<1>1. client # Idle
  BY DEF Idle
<1>2. client \notin [step : {"write"}]
  OBVIOUS
<1>3. QED
  BY <1>1, <1>2 DEF Busy

LEMMA StorageInvNext == StorageIInv /\ [StorageNext]_svars => StorageIInv'
<1> SUFFICES ASSUME StorageIInv, [StorageNext]_svars PROVE StorageIInv'
  OBVIOUS
<1>0. Kept /\ Busy
  BY DEF StorageIInv
<1>1. CASE client = Idle /\ Calls /\ UNCHANGED client
  BY <1>0, <1>1, KeptCalls DEF StorageIInv, Busy
<1>2. ASSUME NEW c \in Contracts, NEW v \in Values, SubmissionRead(c, v) PROVE StorageIInv'
  <2>1. Kept'
    BY <1>0, <1>2, CodeKeyIs, KeptGet DEF SubmissionRead, GetContract
  <2>2. Busy'
    BY <1>2 DEF SubmissionRead, GetContract, Get, Busy, Submission
  <2>3. QED
    BY <2>1, <2>2 DEF StorageIInv
<1>3. CASE SubmissionDelete
  <2>1. client \in Submission /\ pending_deltas = EmptyDict
    BY <1>0, <1>3, StepOf DEF SubmissionDelete
  <2>2. client.contract \in Contracts /\ [client EXCEPT !.step = "set"] \in Submission
    BY <2>1 DEF Submission
  <2>3. Kept'
    BY <1>0, <1>3, <2>1, <2>2, KeptDelete DEF SubmissionDelete
  <2>4. pending_deltas' = pending_deltas
    BY <1>3 DEF SubmissionDelete, DeleteContract
  <2>5. QED
    BY <1>3, <2>1, <2>2, <2>3, <2>4 DEF SubmissionDelete, StorageIInv, Busy
<1>4. ASSUME NEW c \in Contracts, NEW v \in Values, ClientStart(c, v) PROVE StorageIInv'
  <2>1. Kept'
    BY <1>0, <1>4, KeptStutter DEF ClientStart
  <2>2. Busy'
    BY <1>4 DEF ClientStart, Busy, Submission, vars
  <2>3. QED
    BY <2>1, <2>2 DEF StorageIInv
<1>5. CASE SubmissionSet
  <2>1. client \in Submission /\ pending_deltas = EmptyDict
    BY <1>0, <1>5, StepOf DEF SubmissionSet
  <2>2. /\ client.contract \in Contracts /\ client.code \in Values
        /\ [client EXCEPT !.step = "commit"] \in Submission
    BY <2>1 DEF Submission
  <2>3. Kept' /\ pending_deltas' = pending_deltas
    BY <1>0, <1>5, <2>2, KeptSetContract DEF SubmissionSet
  <2>4. QED
    BY <1>5, <2>1, <2>2, <2>3 DEF SubmissionSet, StorageIInv, Busy
<1>6. CASE SubmissionCommit
  <2>1. client \in Submission /\ pending_deltas = EmptyDict
    BY <1>0, <1>6, StepOf DEF SubmissionCommit
  <2>2. [client EXCEPT !.step = "done"] \in Submission
    BY <2>1 DEF Submission
  <2>3. Kept'
    BY <1>0, <1>6, <2>1, KeptForgetting DEF SubmissionCommit
  <2>4. pending_deltas' = pending_deltas
    BY <1>6 DEF SubmissionCommit, Commit
  <2>5. QED
    BY <1>6, <2>1, <2>2, <2>3, <2>4 DEF SubmissionCommit, StorageIInv, Busy
<1>7. CASE SubmissionDone
  <2>1. client \in Submission
    BY <1>0, <1>7, StepOf DEF SubmissionDone
  <2>2. client.contract \in Contracts
    BY <2>1 DEF Submission
  <2>3. Kept'
    BY <1>0, <1>7, <2>2, CodeKeyIs, KeptGet DEF SubmissionDone, GetContract
  <2>4. QED
    BY <1>7, <2>3 DEF SubmissionDone, StorageIInv, Busy
<1>8. ASSUME NEW q \in Quick, NEW v \in MaybeValue, QuickWrite(q, v) PROVE StorageIInv'
  <2>1. Kept'
    BY <1>0, <1>8, IndexedIsNoCode, KeptSet DEF QuickWrite
  <2>2. Busy'
    BY <1>8 DEF QuickWrite, Set, Busy
  <2>3. QED
    BY <2>1, <2>2 DEF StorageIInv
<1>9. CASE QuickCommit
  <2>1. client # Idle /\ pending_deltas = EmptyDict
    BY <1>0, <1>9 DEF QuickCommit, Busy, Idle
  <2>2. Kept'
    BY <1>0, <1>9, <2>1, KeptForgetting DEF QuickCommit
  <2>3. QED
    BY <1>9, <2>2 DEF QuickCommit, StorageIInv, Busy
<1>10. CASE UNCHANGED svars
  <2>1. Kept'
    BY <1>0, <1>10, KeptStutter DEF svars
  <2>2. Busy'
    BY <1>0, <1>10 DEF svars, vars, Busy
  <2>3. QED
    BY <2>1, <2>2 DEF StorageIInv
<1>11. QED
  BY <1>1, <1>2, <1>3, <1>4, <1>5, <1>6, <1>7, <1>8, <1>9, <1>10 DEF StorageNext

LEMMA StorageInvariant == StorageSpec => []StorageIInv
<1>1. QED
  BY StorageInvInit, StorageInvNext, PTL DEF StorageSpec

-----------------------------------------------------------------------------
(* What a commit makes of what was cleared, and of the code of a contract. *)

LEMMA AfterCommit ==
    ASSUME Commit, NEW k \in Keys
    PROVE  /\ Find(k)' = IF k \in LongKeys THEN None ELSE driver'[k].value
           /\ driver'[k] = Committed(k)
<1>1. /\ driver' = [x \in Keys |-> Committed(x)]
      /\ cache' = EmptyDict /\ pending_writes' = EmptyDict
  BY DEF Commit, ClearTopCache
<1>2. DOMAIN EmptyDict = {}
  BY DEF EmptyDict
<1>3. Lookup(cache', k) = None /\ Lookup(pending_writes', k) = None
  BY <1>1, <1>2 DEF Lookup
<1>4. QED
  BY <1>1, <1>3 DEF Find, FindApplied, FSGet

LEMMA CommittedIs ==
    ASSUME NEW k \in Short
    PROVE  Committed(k).value =
             IF k \in DOMAIN pending_writes THEN pending_writes[k]
             ELSE IF k \in DOMAIN cache THEN cache[k] ELSE driver[k].value
BY DEF Committed, Update, FSDelete, FSSetPlain, NoEntry, Short

LEMMA CommitClears ==
    ASSUME Kept, Commit, NEW k \in cleared
    PROVE  Find(k)' = None
<1>1. k \in Keys
  BY DEF Kept, StillCleared
<1>2. CASE k \in LongKeys
  BY <1>1, <1>2, AfterCommit
<1>3. CASE k \notin LongKeys
  <2>1. k \in Short
    BY <1>1, <1>3 DEF Short
  <2>2. Find(k)' = Committed(k).value
    BY <1>1, <1>3, AfterCommit
  <2>3. k \notin DOMAIN pending_writes /\ k \notin DOMAIN cache => driver[k].value = None
    BY <2>1 DEF Kept, Layers, StillCleared, NoneCached, Newest, Top, TopOf
  <2>4. QED
    BY <2>1, <2>2, <2>3, CommittedIs DEF Kept, StillCleared
<1>4. QED
  BY <1>2, <1>3

LEMMA CommitKeepsCode ==
    ASSUME ShortNames, Kept, pending_deltas = EmptyDict, Commit,
           NEW c \in Contracts, Find(CodeKey[c]) # None
    PROVE  Find(CodeKey[c])' # None /\ driver'[CodeKey[c]].value = Find(CodeKey[c])'
<1> DEFINE k == CodeKey[c]
<1>1. k \in Keys /\ k \in Short /\ k \notin LongKeys
  BY CodeKeyIs DEF ShortNames, Short
<1>2. Find(k)' = driver'[k].value /\ driver'[k].value = Committed(k).value
  BY <1>1, AfterCommit
<1>3. DOMAIN pending_deltas = {}
  BY DEF EmptyDict
<1>4. Newest(k) = driver[k].value
  BY <1>3 DEF Newest, Top, TopOf, WritersOf
<1>5. k \in DOMAIN pending_writes => pending_writes[k] # None
  BY DEF Kept, CodeStays
<1>6. k \notin DOMAIN pending_writes => FindApplied(k) # None
  BY DEF Find, Lookup
<1>7. k \in DOMAIN cache /\ cache[k] = None => driver[k].value = None
  BY <1>1, <1>4 DEF Kept, Layers, NoneCached
<1>8. FindApplied(k) = IF k \in DOMAIN cache /\ cache[k] # None THEN cache[k] ELSE driver[k].value
  BY <1>1 DEF FindApplied, Lookup, FSGet
<1>9. Committed(k).value # None
  BY <1>1, <1>5, <1>6, <1>7, <1>8, CommittedIs
<1>10. QED
  BY <1>2, <1>9

(* Where a submission is, and what it has done so far.                     *)
Submitted ==
    /\ client.step \in {"commit", "done"} => Find(CodeKey[client.contract]) # None
    /\ client.step = "done" =>
         driver[CodeKey[client.contract]].value = Find(CodeKey[client.contract])

LEMMA SubmittedNext ==
    ASSUME ShortNames, StorageIInv, Submitted, [StorageNext]_svars
    PROVE  Submitted'
<1>0. Kept /\ Busy
  BY DEF StorageIInv
<1>1. CASE client'.step \notin {"commit", "done"}
  BY <1>1 DEF Submitted
<1>2. CASE SubmissionSet
  <2>1. client \in Submission
    BY <1>0, <1>2, StepOf DEF SubmissionSet
  <2>2. /\ client.contract \in Contracts /\ client.code \in Values
        /\ client'.step = "commit" /\ client'.contract = client.contract
    BY <1>2, <2>1 DEF SubmissionSet, Submission
  <2>3. Find(CodeKey[client.contract])' # None
    <3>1. PICK c \in Contracts : c = client.contract
      BY <2>2
    <3>2. Find(CodeKey[c])' # None
      BY <1>0, <1>2, <2>2, <3>1, KeptSetContract DEF SubmissionSet
    <3>3. client'.contract = c
      BY <2>2, <3>1
    <3>4. QED
      BY <3>2, <3>3
  <2>4. QED
    BY <2>2, <2>3 DEF Submitted
<1>3. CASE SubmissionCommit
  <2>1. client \in Submission /\ pending_deltas = EmptyDict
    BY <1>0, <1>3, StepOf DEF SubmissionCommit
  <2>2. PICK c \in Contracts : c = client.contract
    BY <2>1 DEF Submission
  <2>3. client'.step = "done" /\ client'.contract = c
    BY <1>3, <2>1, <2>2 DEF SubmissionCommit, Submission
  <2>4. Find(CodeKey[c]) # None
    BY <1>3, <2>2 DEF SubmissionCommit, Submitted
  <2>5. Find(CodeKey[c])' # None /\ driver'[CodeKey[c]].value = Find(CodeKey[c])'
    BY <1>0, <1>3, <2>1, <2>4, CommitKeepsCode DEF SubmissionCommit
  <2>6. QED
    BY <2>3, <2>5 DEF Submitted
<1>4. CASE UNCHANGED svars
  BY <1>4 DEF svars, vars, Submitted, Find, FindApplied
<1>5. client'.step \in {"commit", "done"} => SubmissionSet \/ SubmissionCommit \/ UNCHANGED svars
  <2>1. CASE client = Idle /\ UNCHANGED client
    BY <2>1 DEF Idle
  <2>2. ASSUME NEW c \in Contracts, NEW v \in Values, SubmissionRead(c, v) \/ ClientStart(c, v)
        PROVE  client'.step \notin {"commit", "done"}
    BY <2>2 DEF SubmissionRead, ClientStart
  <2>3. CASE SubmissionDelete
    <3>1. client \in Submission
      BY <1>0, <2>3, StepOf DEF SubmissionDelete
    <3>2. QED
      BY <2>3, <3>1 DEF SubmissionDelete, Submission
  <2>4. CASE SubmissionDone \/ QuickCommit
    BY <2>4 DEF SubmissionDone, QuickCommit, Idle
  <2>5. ASSUME NEW q \in Quick, NEW v \in MaybeValue, QuickWrite(q, v)
        PROVE  client'.step \notin {"commit", "done"}
    BY <2>5 DEF QuickWrite
  <2>6. QED
    BY <2>1, <2>2, <2>3, <2>4, <2>5 DEF StorageNext
<1>6. QED
  BY <1>1, <1>2, <1>3, <1>4, <1>5

-----------------------------------------------------------------------------
(* The contracts that set_submission_contract() and a starting client rely *)
(* on are there and durable, whatever the calls before left in the layers, *)
(* where FSDriver can write the name of a contract at all.                 *)
THEOREM SubmissionsAreThere ==
    ASSUME ShortNames
    PROVE  StorageSpec => []StorageInv
<1>1. StorageInit => Submitted
  BY DEF StorageInit, Idle, Submitted
<1>2. StorageIInv /\ Submitted /\ [StorageNext]_svars => Submitted'
  BY SubmittedNext
<1>3. StorageIInv /\ Submitted => StorageInv
  BY DEF StorageIInv, Kept, Layers, StillCleared, Busy, Submission, Submitted,
         StorageInv, StorageTypeOK, SubmissionIsThere
<1>4. QED
  BY <1>1, <1>2, <1>3, StorageInvariant, PTL DEF StorageSpec

(* Hash.clear() is complete once it is committed, for any layers that the  *)
(* values were in and any calls between the clear and the commit.          *)
THEOREM ClearsAreCompleted == StorageSpec => CommitCompletesClear
<1>1. StorageIInv /\ [StorageNext]_svars =>
        [Commit => \A k \in cleared : Find(k)' = None]_svars
  BY CommitClears DEF StorageIInv
<1>2. QED
  BY <1>1, StorageInvariant, PTL DEF StorageSpec, CommitCompletesClear

(* Listing a hash and reading its items agree, for all names and indices   *)
(* whose keys FSDriver lists as they are spelled (that have no slash and   *)
(* no empty part), where no other call names a key that starts like its    *)
(* items.                                                                  *)
THEOREM ListingsAreReads ==
    ASSUME OnlyItems
    PROVE  StorageSpec => []ListedIsReadable
<1>1. ListedIsReadable
  BY ListingFindsReads
<1>2. QED
  BY <1>1, PTL

(* An item is told from every other one by its key, so that neither a set  *)
(* nor a clear reaches an item that it does not name, and by its group, so *)
(* that no write of another key reaches what is durable of it.  This is of *)
(* keys that FSDriver lists as they are spelled: those without a slash and *)
(* without an empty part.                                                  *)
THEOREM ItemsStayApart == StorageSpec => ItemsAreApart
<1>1. [StorageNext]_svars =>
        [/\ pending_writes' # pending_writes
            /\ UNCHANGED <<client, cache, driver, pending_deltas>> =>
              /\ \A i \in Items, v \in MaybeValue : SetItem(i, v) =>
                   \A j \in Items \ {i} : Find(ItemKey[j])' = Find(ItemKey[j])
              /\ \A l \in Listings : Clears(l) =>
                   \A j \in Items \ Under[l] : Find(ItemKey[j])' = Find(ItemKey[j])
         /\ \A k \in Keys : driver'[k] # driver[k] =>
              \A i \in Items : ItemKey[i] # k => Place[ItemKey[i]] # Place[k]]_svars
  BY ItemsApartStep
<1>2. QED
  BY <1>1, PTL DEF StorageSpec, ItemsAreApart
==============================================================================
