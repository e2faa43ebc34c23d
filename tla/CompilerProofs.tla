--------------------------- MODULE CompilerProofs ---------------------------
(***************************************************************************)
(* Proofs about Compiler.  The one Linter, shared by every compiler and    *)
(* left in any state by checks that raised, gives each contract its own    *)
(* verdict: while it walks, what it has gathered is what the statements    *)
(* behind it give.  The alerts of a compiler are those of its job, as long *)
(* as the client compiles only what will compile.  Then the transformer    *)
(* has rewritten what is behind it and gathered the names declared there,  *)
(* and no others (Rewriting), so that the code is a function of the        *)
(* contract (Code), of which the properties are proved statement by        *)
(* statement.                                                              *)
(***************************************************************************)
EXTENDS Compiler, TLAPS

Careful == ~May("careless")

Walking == phase = "linting" => /\ job.lint
                                /\ linter = Gathered(job.contract, line - 1)

Alerted ==
    phase = "visiting" =>
      /\ job.by \in Owners
      /\ job.lint => compilers[job.by].lint_alerts = Violations(job.contract)
      /\ ~job.lint => job.by = "client"

ClientUnalarmed ==
    /\ compilers["client"].lint_alerts = {}
    /\ phase # "idle" /\ job.by = "client" => WillCompile(job.contract, job.lint)

Shape ==
    /\ line \in 1..(Len(job.contract) + 1)
    /\ job.contract \in Seq(Statement)
    /\ job.by \in Owners \cup {"lint"}
    /\ job.lint \in BOOLEAN
    /\ DOMAIN compilers = Owners
    /\ \A o \in Owners :
         compilers[o] = [lint_alerts |-> compilers[o].lint_alerts,
                         private_names |-> compilers[o].private_names,
                         orm_names |-> compilers[o].orm_names]

IInv == Shape /\ Walking /\ Alerted /\ ClientUnalarmed /\ VerdictIsItsOwn
-----------------------------------------------------------------------------
LEMMA GatheredNone == ASSUME NEW c PROVE Gathered(c, 0) = FreshLinter
<1>1. 1..0 = {}
  OBVIOUS
<1> QED  BY <1>1 DEF Gathered, FreshLinter

(* Visiting the next statement extends what the statements before it gave. *)
LEMMA GatheredNext ==
    ASSUME NEW c, NEW n \in Nat
    PROVE  Visited(Gathered(c, n), c[n + 1], n + 1) = Gathered(c, n + 1)
<1> DEFINE k == n + 1
           g == Gathered(c, n)
           constructed(i) == \E j \in 1..(i - 1) : Constructs(c[j])
<1>1. 1..k = (1..n) \cup {k} /\ 1..(k - 1) = 1..n
  OBVIOUS
<1>2. /\ g.violations = UNION {At(FlawsOf(c[i], constructed(i)), i) : i \in 1..n}
      /\ g.is_one_export = (\E i \in 1..n : Exports(c[i]))
      /\ g.constructor_visited = (\E i \in 1..n : Constructs(c[i]))
      /\ g.orm_names = UNION {OrmNamesOf(c[i]) : i \in 1..n}
      /\ g.visited_args = UNION {ArgsAt(c[i], i) : i \in 1..n}
      /\ g.arg_types = UNION {TypesAt(c[i], i) : i \in 1..n}
  BY DEF Gathered
<1>3. g.constructor_visited = constructed(k)
  BY <1>1, <1>2
<1> HIDE DEF k, g, constructed
<1>4. g.violations \cup At(FlawsOf(c[k], g.constructor_visited), k)
        = UNION {At(FlawsOf(c[i], constructed(i)), i) : i \in 1..k}
  <2> DEFINE flaws(i) == At(FlawsOf(c[i], constructed(i)), i)
  <2>1. g.violations = UNION {flaws(i) : i \in 1..n}
    BY <1>2
  <2>2. At(FlawsOf(c[k], g.constructor_visited), k) = flaws(k)
    BY <1>3
  <2> HIDE DEF flaws
  <2>3. g.violations \cup flaws(k) = UNION {flaws(i) : i \in 1..k}
    BY <1>1, <2>1
  <2> QED  BY <2>2, <2>3 DEF flaws
<1>5. (g.is_one_export \/ Exports(c[k])) = (\E i \in 1..k : Exports(c[i]))
  BY <1>1, <1>2
<1>6. (g.constructor_visited \/ Constructs(c[k])) = (\E i \in 1..k : Constructs(c[i]))
  BY <1>1, <1>2
<1>7. g.orm_names \cup OrmNamesOf(c[k]) = UNION {OrmNamesOf(c[i]) : i \in 1..k}
  BY <1>1, <1>2
<1>8. g.visited_args \cup ArgsAt(c[k], k) = UNION {ArgsAt(c[i], i) : i \in 1..k}
  BY <1>1, <1>2
<1>9. g.arg_types \cup TypesAt(c[k], k) = UNION {TypesAt(c[i], i) : i \in 1..k}
  BY <1>1, <1>2
<1>10. Visited(g, c[k], k) = Gathered(c, k)
  BY <1>4, <1>5, <1>6, <1>7, <1>8, <1>9 DEF Visited, Gathered, constructed
<1> QED  BY <1>10 DEF k, g
-----------------------------------------------------------------------------
LEMMA InitIInv == Init => IInv
  BY DEF Init, IInv, Shape, Walking, Alerted, ClientUnalarmed, VerdictIsItsOwn, FreshCompiler,
         NoJob, NoResult, Owners

LEMMA BeginKeeps ==
    ASSUME IInv, NEW by \in Owners \cup {"lint"}, NEW c \in Contracts, NEW lint \in BOOLEAN,
           Begin(by, c, lint), Careful
    PROVE  IInv'
<1> USE DEF Begin, Start, IInv
<1>1. Len(c) \in Nat /\ c \in Seq(Statement)
  BY CompilerAssumption
<1>2. /\ DOMAIN compilers' = Owners
      /\ \A o \in Owners : compilers'[o] = compilers[o] \/ compilers'[o] = FreshCompiler
  BY DEF Shape
<1>3. Shape'
  <2>1. job' = [by |-> by, contract |-> c, lint |-> lint] /\ line' = 1
    OBVIOUS
  <2>2. \A o \in Owners :
          compilers'[o] = [lint_alerts |-> compilers'[o].lint_alerts,
                           private_names |-> compilers'[o].private_names,
                           orm_names |-> compilers'[o].orm_names]
    BY <1>2 DEF Shape, FreshCompiler
  <2> HIDE DEF Begin, Start
  <2> QED  BY <1>1, <1>2, <2>1, <2>2 DEF Shape
<1>4. Walking'
  BY GatheredNone DEF Walking
<1>5. compilers'["client"] = compilers["client"]
  BY DEF Owners, Shape
<1>6. ClientUnalarmed'
  BY <1>5 DEF ClientUnalarmed, Careful
<1>7. Alerted'
  BY DEF Alerted
<1>8. VerdictIsItsOwn'
  BY DEF VerdictIsItsOwn, NoResult
<1> QED  BY <1>3, <1>4, <1>6, <1>7, <1>8

LEMMA LintStatementKeeps == ASSUME IInv, LintStatement PROVE IInv'
<1> USE DEF LintStatement, IInv
<1>1. line \in Nat /\ Len(job.contract) \in Nat /\ line <= Len(job.contract)
  BY DEF Shape, AtEnd
<1>2. Shape'
  BY <1>1 DEF Shape
<1>3. Walking'
  <2>1. CASE LintCrashes(Here)
    BY <2>1 DEF Walking
  <2>2. CASE ~LintCrashes(Here)
    <3>1. Visited(Gathered(job.contract, line - 1), job.contract[line], line)
            = Gathered(job.contract, line)
      <4>1. line - 1 \in Nat /\ (line - 1) + 1 = line
        BY DEF Shape
      <4> QED  BY <4>1, GatheredNext
    <3> QED  BY <1>1, <2>2, <3>1 DEF Walking, Here
  <2> QED  BY <2>1, <2>2
<1>4. Alerted' /\ ClientUnalarmed' /\ VerdictIsItsOwn'
  BY DEF Alerted, ClientUnalarmed, VerdictIsItsOwn
<1> QED  BY <1>2, <1>3, <1>4

LEMMA CheckedKeeps == ASSUME IInv, Checked PROVE IInv'
<1> USE DEF Checked, IInv
<1>1. FinalChecks(linter) = Violations(job.contract)
  <2>1. line - 1 = Len(job.contract)
    BY DEF Shape, AtEnd
  <2> QED  BY <2>1 DEF Walking, Violations
<1>2. CASE job.by = "lint"
  BY <1>1, <1>2 DEF Shape, Walking, Alerted, ClientUnalarmed, VerdictIsItsOwn
<1>3. CASE job.by # "lint"
  <2>1. job.by \in Owners
    BY <1>3 DEF Shape
  <2>2. /\ DOMAIN compilers' = Owners
        /\ \A o \in Owners : o # job.by => compilers'[o] = compilers[o]
        /\ compilers'[job.by] = [compilers[job.by] EXCEPT !.lint_alerts = Violations(job.contract)]
    BY <1>1, <1>3, <2>1 DEF Shape
  <2>3. compilers'[job.by] = [lint_alerts |-> Violations(job.contract),
                              private_names |-> compilers[job.by].private_names,
                              orm_names |-> compilers[job.by].orm_names]
    BY <2>1, <2>2 DEF Shape
  <2>4. Shape'
    BY <1>3, <2>1, <2>2, <2>3 DEF Shape
  <2>5. Walking' /\ Alerted' /\ VerdictIsItsOwn'
    BY <1>3, <2>1, <2>3 DEF Walking, Alerted, VerdictIsItsOwn
  <2>6. ClientUnalarmed'
    BY <1>3, <2>1, <2>2, <2>3 DEF ClientUnalarmed, WillCompile, Walking, Owners
  <2> QED  BY <2>4, <2>5, <2>6
<1> QED  BY <1>2, <1>3

(* A compiler that gathers or forgets names leaves its alerts alone.       *)
LEMMA VisitStatementKeeps == ASSUME IInv, VisitStatement PROVE IInv'
<1> USE DEF VisitStatement, IInv
<1>1. line + 1 \in 1..(Len(job.contract) + 1)
  BY DEF Shape, AtEnd
<1>2. \A o \in Owners : compilers'[o].lint_alerts = compilers[o].lint_alerts
  BY DEF Shape, Alerted
<1>3. /\ DOMAIN compilers' = Owners
      /\ \A o \in Owners : o # job.by => compilers'[o] = compilers[o]
  BY DEF Shape, Alerted
<1>4. Shape'
  BY <1>1, <1>3 DEF Shape, Alerted
<1>5. Walking' /\ Alerted' /\ ClientUnalarmed' /\ VerdictIsItsOwn'
  BY <1>2 DEF Walking, Alerted, ClientUnalarmed, VerdictIsItsOwn, Owners
<1> QED  BY <1>4, <1>5

LEMMA CompiledKeeps == ASSUME IInv, Compiled PROVE IInv'
<1> USE DEF Compiled, IInv
<1>1. \A o \in Owners : compilers'[o].lint_alerts = compilers[o].lint_alerts
  BY DEF Shape, Alerted
<1>2. /\ DOMAIN compilers' = Owners
      /\ \A o \in Owners : o # job.by => compilers'[o] = compilers[o]
  BY DEF Shape, Alerted
<1>3. Shape'
  BY <1>2 DEF Shape, Alerted
<1>4. Walking' /\ Alerted' /\ ClientUnalarmed'
  BY <1>1 DEF Walking, Alerted, ClientUnalarmed, Owners
<1>5. VerdictIsItsOwn'
  BY DEF VerdictIsItsOwn, Alerted, ClientUnalarmed
<1> QED  BY <1>3, <1>4, <1>5

(* Whatever the Linter checked before, and however those checks ended, the *)
(* verdict on a contract is its own, for every set of contracts; and no    *)
(* alert of one compilation is raised by another, as long as the client    *)
(* compiles only what will compile.                                        *)
THEOREM VerdictCorrect == ASSUME Careful PROVE Spec => []VerdictIsItsOwn
<1>1. Init => IInv
  BY InitIInv
<1>2. IInv /\ [Next]_vars => IInv'
  <2> SUFFICES ASSUME IInv, [Next]_vars PROVE IInv'
    OBVIOUS
  <2>1. ASSUME NEW by \in Owners \cup {"lint"}, NEW c \in Contracts, NEW lint \in BOOLEAN,
               Begin(by, c, lint)
        PROVE  IInv'
    BY <2>1, BeginKeeps
  <2>2. CASE LintStatement
    BY <2>2, LintStatementKeeps
  <2>3. CASE Checked
    BY <2>3, CheckedKeeps
  <2>4. CASE VisitStatement
    BY <2>4, VisitStatementKeeps
  <2>5. CASE Compiled
    BY <2>5, CompiledKeeps
  <2>6. CASE UNCHANGED vars
    BY <2>6 DEF vars, IInv, Shape, Walking, Alerted, ClientUnalarmed, VerdictIsItsOwn
  <2> QED  BY <2>1, <2>2, <2>3, <2>4, <2>5, <2>6 DEF Next
<1>3. IInv => VerdictIsItsOwn
  BY DEF IInv
<1> QED  BY <1>1, <1>2, <1>3, PTL DEF Spec
-----------------------------------------------------------------------------
(* The renaming.  What follows is of the transformer, which goes on where  *)
(* the Linter has been, and of the code that it leaves.                    *)

(* What the statements of a contract up to the n-th are rewritten to, and  *)
(* the names that are gathered on the way.                                 *)
PrivateNames(c, n) == UNION {IF Private(c[i]) THEN {c[i].name} ELSE {} : i \in 1..n}
OrmNames(c, n) == UNION {OrmNamesOf(c[i]) : i \in 1..n}
TreeOf(c, n) == [i \in 1..n |-> Transformed(c[i])]

Code(c) == Rename(TreeOf(c, Len(c)), PrivateNames(c, Len(c)) \cup OrmNames(c, Len(c)))

Forgotten(o) == compilers[o].private_names = {} /\ compilers[o].orm_names = {}

(* Nothing is left in a compiler that another contract will find there.    *)
NothingLeft ==
    /\ ~(phase = "visiting" /\ job.by = "client") => Forgotten("client")
    /\ phase = "linting" /\ job.by \in Owners => Forgotten(job.by)

(* The transformer, half-way.                                              *)
Rewriting ==
    /\ phase = "linting" => tree = <<>>
    /\ phase = "visiting" =>
         /\ compilers[job.by].private_names = PrivateNames(job.contract, line - 1)
         /\ compilers[job.by].orm_names = OrmNames(job.contract, line - 1)
         /\ tree = TreeOf(job.contract, line - 1)

(* No statement behind either of them raised.                              *)
NothingRaised ==
    /\ phase = "linting" => \A i \in 1..(line - 1) : ~LintCrashes(job.contract[i])
    /\ phase = "visiting" =>
         /\ \A i \in 1..(line - 1) : ~VisitCrashes(job.contract[i])
         /\ job.lint => \A i \in DOMAIN job.contract : ~LintCrashes(job.contract[i])

Produced ==
    /\ phase # "idle" => result = NoResult
    /\ result.outcome = "code" =>
         /\ tree = Code(job.contract)
         /\ ~Crashes(job.contract, job.lint)

RInv == TypeOK /\ IInv /\ NothingLeft /\ Rewriting /\ NothingRaised /\ Produced
-----------------------------------------------------------------------------
LEMMA NamesNone == ASSUME NEW c PROVE PrivateNames(c, 0) = {} /\ OrmNames(c, 0) = {} /\ TreeOf(c, 0) = <<>>
<1>1. 1..0 = {}
  OBVIOUS
<1> QED  BY <1>1 DEF PrivateNames, OrmNames, TreeOf

(* Visiting the next statement adds what it declares and how it reads.     *)
LEMMA NamesNext ==
    ASSUME NEW c, NEW n \in Nat
    PROVE  /\ PrivateNames(c, n + 1)
                = PrivateNames(c, n) \cup (IF Private(c[n + 1]) THEN {c[n + 1].name} ELSE {})
           /\ OrmNames(c, n + 1) = OrmNames(c, n) \cup OrmNamesOf(c[n + 1])
           /\ TreeOf(c, n + 1) = Append(TreeOf(c, n), Transformed(c[n + 1]))
<1>1. 1..(n + 1) = (1..n) \cup {n + 1}
  OBVIOUS
<1>2. OrmNames(c, n + 1) = OrmNames(c, n) \cup OrmNamesOf(c[n + 1])
  BY <1>1 DEF OrmNames
<1>3. PrivateNames(c, n + 1)
        = PrivateNames(c, n) \cup (IF Private(c[n + 1]) THEN {c[n + 1].name} ELSE {})
  <2> DEFINE own(i) == IF Private(c[i]) THEN {c[i].name} ELSE {}
  <2>1. PrivateNames(c, n) = UNION {own(i) : i \in 1..n} /\ PrivateNames(c, n + 1) = UNION {own(i) : i \in 1..(n + 1)}
    BY DEF PrivateNames
  <2> HIDE DEF own
  <2>2. PrivateNames(c, n + 1) = PrivateNames(c, n) \cup own(n + 1)
    BY <1>1, <2>1
  <2> QED  BY <2>2 DEF own
<1>4. TreeOf(c, n + 1) = Append(TreeOf(c, n), Transformed(c[n + 1]))
  <2> DEFINE f(i) == Transformed(c[i])
             S == {f(i) : i \in 1..(n + 1)}
  <2>1. TreeOf(c, n) = [i \in 1..n |-> f(i)] /\ TreeOf(c, n + 1) = [i \in 1..(n + 1) |-> f(i)]
    BY DEF TreeOf
  <2>2. \A i \in 1..(n + 1) : f(i) \in S
    OBVIOUS
  <2> HIDE DEF f, S
  <2>3. [i \in 1..n |-> f(i)] \in Seq(S) /\ Len([i \in 1..n |-> f(i)]) = n
    BY <1>1, <2>2
  <2>4. Append([i \in 1..n |-> f(i)], f(n + 1)) = [i \in 1..(n + 1) |-> f(i)]
    BY <1>1, <2>2, <2>3
  <2> QED  BY <2>1, <2>4 DEF f
<1> QED  BY <1>2, <1>3, <1>4

LEMMA FlawsType ==
    ASSUME NEW s \in Statement, NEW constructed \in BOOLEAN
    PROVE  FlawsOf(s, constructed) \subseteq Triggers
<1>1. s.flaws \subseteq Triggers
  BY DEF Statement
<1>2. DefFlaws(s, constructed) \subseteq Triggers
  BY DEF DefFlaws, Triggers
<1>3. AssignFlaws(s) \subseteq Triggers
  BY DEF AssignFlaws, Triggers
<1> QED  BY <1>1, <1>2, <1>3 DEF FlawsOf

LEMMA ArgsType ==
    ASSUME NEW s \in Statement, NEW i \in Nat
    PROVE  /\ ArgsAt(s, i) \subseteq Names \X Nat
           /\ TypesAt(s, i) \subseteq Annotations \X Nat
           /\ OrmNamesOf(s) \subseteq Names
<1>1. \A a \in Elements(s.args) : a.name \in Names /\ a.annotation \in Annotations
  <2> DEFINE Args == [name : Names, annotation : Annotations]
             args == s.args
  <2>1. args \in Seq(Args)
    BY DEF Statement
  <2>2. \A a \in Args : a.name \in Names /\ a.annotation \in Annotations
    OBVIOUS
  <2> HIDE DEF Args, args
  <2>3. \A k \in DOMAIN args : args[k] \in Args
    BY <2>1
  <2> QED  BY <2>2, <2>3 DEF Elements, args
<1>2. s.name \in Names
  BY DEF Statement
<1> QED  BY <1>1, <1>2 DEF ArgsAt, TypesAt, OrmNamesOf

LEMMA VisitedType ==
    ASSUME NEW l \in LinterState, NEW s \in Statement, NEW i \in Nat
    PROVE  Visited(l, s, i) \in LinterState
<1>1. /\ l.violations \in SUBSET (Triggers \X Nat) /\ l.is_one_export \in BOOLEAN
      /\ l.constructor_visited \in BOOLEAN /\ l.orm_names \in SUBSET Names
      /\ l.visited_args \in SUBSET (Names \X Nat) /\ l.arg_types \in SUBSET (Annotations \X Nat)
  BY DEF LinterState
<1>2. At(FlawsOf(s, l.constructor_visited), i) \subseteq Triggers \X Nat
  BY <1>1, FlawsType DEF At
<1>3. (l.is_one_export \/ Exports(s)) \in BOOLEAN
  OBVIOUS
<1>4. (l.constructor_visited \/ Constructs(s)) \in BOOLEAN
  OBVIOUS
<1> QED  BY <1>1, <1>2, <1>3, <1>4, ArgsType DEF Visited, LinterState

LEMMA FinalType ==
    ASSUME NEW l \in LinterState
    PROVE  FinalChecks(l) \in SUBSET (Triggers \X Nat)
<1>1. /\ l.violations \subseteq Triggers \X Nat /\ l.visited_args \subseteq Names \X Nat
      /\ l.arg_types \subseteq Annotations \X Nat
  BY DEF LinterState
<1>2. {"S13", "S15", "S16", "S17"} \subseteq Triggers
  BY DEF Triggers
<1>3. {<<"S15", a[2]>> : a \in {b \in l.visited_args : b[1] \in l.orm_names}} \subseteq Triggers \X Nat
  BY <1>1, <1>2
<1>4. {<<"S17", t[2]>> : t \in {a \in l.arg_types : a[1] = None}} \subseteq Triggers \X Nat
  BY <1>1, <1>2
<1>5. {<<"S16", t[2]>> : t \in {a \in l.arg_types : a[1] \notin {None, "allowed"}}} \subseteq Triggers \X Nat
  BY <1>1, <1>2
<1>6. (IF l.is_one_export THEN {} ELSE {<<"S13", 0>>}) \subseteq Triggers \X Nat
  BY <1>2
<1>7. FinalChecks(l) \subseteq Triggers \X Nat
  BY <1>1, <1>3, <1>4, <1>5, <1>6 DEF FinalChecks
<1> QED  BY <1>7
-----------------------------------------------------------------------------
LEMMA InitRInv == Init => RInv
<1> SUFFICES ASSUME Init PROVE RInv
  OBVIOUS
<1>1. IInv
  BY InitIInv
<1>2. FreshLinter \in LinterState /\ FreshCompiler \in CompilerState
  BY DEF FreshLinter, LinterState, FreshCompiler, CompilerState
<1>3. NoResult \in [outcome : {"none", "crash", "linted", "alerts", "code"}, alerts : SUBSET (Triggers \X Nat)]
  BY DEF NoResult
<1>4. NoJob \in [by : Owners \cup {"lint"}, contract : Contracts \cup {<<>>}, lint : BOOLEAN]
  BY DEF NoJob
<1>5. Len(NoJob.contract) = 0
  BY DEF NoJob
<1>6. TypeOK
  BY <1>2, <1>3, <1>4, <1>5 DEF Init, TypeOK
<1>7. NothingLeft /\ Rewriting /\ NothingRaised /\ Produced
  BY DEF Init, NothingLeft, Forgotten, FreshCompiler, Rewriting, NothingRaised, Produced, NoResult, NoJob, Owners
<1> QED  BY <1>1, <1>6, <1>7 DEF RInv

LEMMA BeginRewrites ==
    ASSUME RInv, NEW by \in Owners \cup {"lint"}, NEW c \in Contracts, NEW lint \in BOOLEAN,
           Begin(by, c, lint), Careful
    PROVE  RInv'
<1> USE DEF Begin, Start, RInv
<1>1. IInv'
  BY BeginKeeps
<1>2. /\ job' = [by |-> by, contract |-> c, lint |-> lint] /\ line' = 1 /\ tree' = <<>>
      /\ phase' = (IF lint THEN "linting" ELSE "visiting") /\ result' = NoResult
  OBVIOUS
<1>3. FreshLinter \in LinterState /\ FreshCompiler \in CompilerState
  BY DEF FreshLinter, LinterState, FreshCompiler, CompilerState
<1>4. TypeOK'
  <2>1. linter' \in LinterState /\ compilers' \in [Owners -> CompilerState]
    BY <1>3 DEF TypeOK
  <2>2. result' \in [outcome : {"none", "crash", "linted", "alerts", "code"}, alerts : SUBSET (Triggers \X Nat)]
    BY <1>2 DEF NoResult
  <2>3. Len(c) \in Nat
    BY CompilerAssumption
  <2> HIDE DEF Begin, Start
  <2> QED  BY <1>2, <2>1, <2>2, <2>3 DEF TypeOK
<1>5. \A o \in Owners : compilers'[o] = IF o = by /\ by = "submission" THEN FreshCompiler ELSE compilers[o]
  BY DEF TypeOK
<1>6. Forgotten("client") /\ (by \in Owners => Forgotten(by)')
  BY <1>5 DEF NothingLeft, Forgotten, FreshCompiler, Owners
<1>7. NothingLeft'
  BY <1>2, <1>5, <1>6 DEF NothingLeft, Forgotten, Owners
<1>8. Rewriting'
  <2>1. CASE lint
    BY <1>2, <2>1 DEF Rewriting
  <2>2. CASE ~lint
    <3>1. by = "client"
      BY <2>2
    <3>2. compilers'[by].private_names = {} /\ compilers'[by].orm_names = {}
      BY <1>6, <3>1 DEF Forgotten, Owners
    <3>3. line' - 1 = 0
      BY <1>2
    <3>4. /\ PrivateNames(job'.contract, line' - 1) = {}
          /\ OrmNames(job'.contract, line' - 1) = {}
          /\ TreeOf(job'.contract, line' - 1) = <<>>
      BY <3>3, NamesNone
    <3>5. phase' = "visiting" /\ job'.by = by
      BY <1>2, <2>2
    <3> HIDE DEF Begin, Start
    <3> QED  BY <1>2, <3>2, <3>4, <3>5 DEF Rewriting
  <2> QED  BY <2>1, <2>2
<1>9. NothingRaised' /\ Produced'
  BY <1>2 DEF NothingRaised, Produced, NoResult
<1> QED  BY <1>1, <1>4, <1>7, <1>8, <1>9

LEMMA LintStatementRewrites == ASSUME RInv, LintStatement PROVE RInv'
<1> USE DEF LintStatement, RInv
<1>1. IInv'
  BY LintStatementKeeps
<1>2. line \in Nat /\ Len(job.contract) \in Nat /\ 1 <= line /\ line <= Len(job.contract)
  BY DEF IInv, Shape, AtEnd
<1>3. Here \in Statement
  BY <1>2 DEF Here, IInv, Shape
<1>4. TypeOK'
  <2>1. CASE LintCrashes(Here)
    BY <2>1 DEF TypeOK
  <2>2. CASE ~LintCrashes(Here)
    <3>1. Visited(linter, Here, line) \in LinterState
      BY <1>2, <1>3, VisitedType DEF TypeOK
    <3> QED  BY <1>2, <2>2, <3>1 DEF TypeOK
  <2> QED  BY <2>1, <2>2
<1>5. NothingRaised'
  BY <1>2 DEF NothingRaised, Here
<1>6. NothingLeft' /\ Rewriting' /\ Produced'
  BY DEF NothingLeft, Forgotten, Rewriting, Produced, NoResult
<1> QED  BY <1>1, <1>4, <1>5, <1>6

LEMMA CheckedRewrites == ASSUME RInv, Checked PROVE RInv'
<1> USE DEF Checked, RInv
<1>1. IInv'
  BY CheckedKeeps
<1>2. /\ linter.violations \in SUBSET (Triggers \X Nat)
      /\ FinalChecks(linter) \in SUBSET (Triggers \X Nat)
  BY FinalType DEF TypeOK, LinterState
<1>3. linter' \in LinterState
  BY <1>2 DEF TypeOK, LinterState
<1>4. \A i \in DOMAIN job.contract : ~LintCrashes(job.contract[i])
  <2>1. DOMAIN job.contract = 1..(line - 1)
    BY DEF IInv, Shape, AtEnd
  <2> QED  BY <2>1 DEF NothingRaised
<1>5. CASE job.by = "lint"
  <2>1. TypeOK'
    BY <1>2, <1>3, <1>5 DEF TypeOK
  <2>2. NothingLeft' /\ Rewriting' /\ NothingRaised' /\ Produced'
    BY <1>5 DEF NothingLeft, Forgotten, Rewriting, NothingRaised, Produced
  <2> QED  BY <1>1, <2>1, <2>2
<1>6. CASE job.by # "lint"
  <2>1. job.by \in Owners
    BY <1>6 DEF IInv, Shape
  <2>2. /\ compilers' = [compilers EXCEPT ![job.by].lint_alerts = FinalChecks(linter)]
        /\ phase' = "visiting" /\ line' = 1 /\ job' = job /\ tree' = tree /\ result' = result
    BY <1>6
  <2>3. compilers' \in [Owners -> CompilerState]
    BY <1>2, <2>1, <2>2 DEF TypeOK, CompilerState
  <2>4. \A o \in Owners : /\ compilers'[o].private_names = compilers[o].private_names
                          /\ compilers'[o].orm_names = compilers[o].orm_names
    BY <2>1, <2>2 DEF TypeOK, CompilerState
  <2>5. TypeOK'
    BY <1>3, <2>2, <2>3 DEF TypeOK, IInv, Shape
  <2>6. NothingLeft'
    BY <2>2, <2>4 DEF NothingLeft, Forgotten, Owners
  <2>7. Rewriting'
    <3>1. compilers'[job.by].private_names = {} /\ compilers'[job.by].orm_names = {} /\ tree = <<>>
      BY <2>1, <2>4 DEF NothingLeft, Forgotten, Rewriting
    <3>2. line' - 1 = 0
      BY <2>2
    <3> QED  BY <2>2, <3>1, <3>2, NamesNone DEF Rewriting
  <2>8. NothingRaised' /\ Produced'
    BY <1>4, <2>2 DEF NothingRaised, Produced, NoResult
  <2> QED  BY <1>1, <2>5, <2>6, <2>7, <2>8
<1> QED  BY <1>5, <1>6

LEMMA VisitStatementRewrites == ASSUME RInv, VisitStatement PROVE RInv'
<1> USE DEF VisitStatement, RInv
<1>1. IInv'
  BY VisitStatementKeeps
<1>2. /\ line \in Nat /\ Len(job.contract) \in Nat /\ 1 <= line /\ line <= Len(job.contract)
      /\ job.by \in Owners /\ job.by \in {"client", "submission"}
  BY DEF IInv, Shape, AtEnd, Alerted, Owners
<1>3. Here \in Statement
  BY <1>2 DEF Here, IInv, Shape
<1>4. CASE VisitCrashes(Here)
  <2>1. job.by = "submission"
    <3>1. \E i \in DOMAIN job.contract : VisitCrashes(job.contract[i])
      BY <1>2, <1>4 DEF Here, IInv, Shape
    <3>2. ~WillCompile(job.contract, job.lint)
      BY <3>1 DEF WillCompile, Crashes
    <3> QED  BY <1>2, <3>2 DEF IInv, ClientUnalarmed
  <2>2. TypeOK'
    BY <1>4 DEF TypeOK
  <2>3. NothingLeft' /\ Rewriting' /\ NothingRaised' /\ Produced'
    BY <1>4, <2>1 DEF NothingLeft, Forgotten, Rewriting, NothingRaised, Produced
  <2> QED  BY <1>1, <2>2, <2>3
<1>5. CASE ~VisitCrashes(Here)
  <2> DEFINE own == IF Private(Here) THEN {Here.name} ELSE {}
             k == line - 1
  <2>1. /\ compilers' = [compilers EXCEPT ![job.by].private_names = @ \cup own,
                                          ![job.by].orm_names = @ \cup OrmNamesOf(Here)]
        /\ phase' = phase /\ line' = line + 1 /\ job' = job /\ linter' = linter
        /\ tree' = Append(tree, Transformed(Here)) /\ result' = result
    BY <1>5
  <2>2. own \subseteq Names /\ OrmNamesOf(Here) \subseteq Names
    BY <1>3, ArgsType DEF Statement
  <2> HIDE DEF own
  <2>3. compilers' \in [Owners -> CompilerState]
    <3> DEFINE comp == compilers[job.by]
               kept == [lint_alerts |-> comp.lint_alerts, private_names |-> comp.private_names \cup own,
                        orm_names |-> comp.orm_names \cup OrmNamesOf(Here)]
    <3>1. compilers \in [Owners -> CompilerState]
      BY DEF TypeOK
    <3>2. comp \in CompilerState
      BY <1>2, <3>1
    <3>3. comp = [lint_alerts |-> comp.lint_alerts, private_names |-> comp.private_names, orm_names |-> comp.orm_names]
      BY <3>2 DEF CompilerState
    <3>4. kept \in CompilerState
      BY <2>2, <3>2 DEF CompilerState
    <3>5. compilers' = [compilers EXCEPT ![job.by] = kept]
      BY <2>1, <3>1, <3>3
    <3> HIDE DEF kept
    <3> QED  BY <3>1, <3>4, <3>5
  <2>4. /\ compilers'[job.by].private_names = compilers[job.by].private_names \cup own
        /\ compilers'[job.by].orm_names = compilers[job.by].orm_names \cup OrmNamesOf(Here)
        /\ \A o \in Owners : o # job.by => compilers'[o] = compilers[o]
    BY <1>2, <2>1 DEF TypeOK, CompilerState
  <2>5. k \in Nat /\ k + 1 = line /\ line' - 1 = line
    BY <1>2, <2>1
  <2>6. /\ PrivateNames(job.contract, line) = PrivateNames(job.contract, k) \cup own
        /\ OrmNames(job.contract, line) = OrmNames(job.contract, k) \cup OrmNamesOf(Here)
        /\ TreeOf(job.contract, line) = Append(TreeOf(job.contract, k), Transformed(Here))
    BY <2>5, NamesNext DEF Here, own
  <2>7. Rewriting'
    BY <2>1, <2>4, <2>5, <2>6 DEF Rewriting
  <2>8. Len(tree') = line
    <3>1. tree' = TreeOf(job.contract, line)
      BY <2>1, <2>6 DEF Rewriting
    <3> QED  BY <1>2, <3>1 DEF TreeOf
  <2>9. TypeOK'
    BY <1>2, <2>1, <2>3, <2>8 DEF TypeOK
  <2>10. NothingLeft'
    BY <1>2, <2>1, <2>4 DEF NothingLeft, Forgotten, Owners
  <2>11. NothingRaised'
    <3>1. \A i \in 1..line : i # line => i \in 1..k
      BY <1>2
    <3> QED  BY <1>5, <2>1, <2>5, <3>1 DEF NothingRaised, Here
  <2>12. Produced'
    BY <2>1 DEF Produced, NoResult
  <2> QED  BY <1>1, <2>7, <2>9, <2>10, <2>11, <2>12
<1> QED  BY <1>4, <1>5

LEMMA CompiledRewrites == ASSUME RInv, Compiled PROVE RInv'
<1> USE DEF Compiled, RInv
<1>1. IInv'
  BY CompiledKeeps
<1>2. /\ job.by \in Owners /\ job.by \in {"client", "submission"}
      /\ line - 1 = Len(job.contract) /\ DOMAIN job.contract = 1..Len(job.contract)
  BY DEF IInv, Shape, AtEnd, Alerted, Owners
<1>3. CASE compilers[job.by].lint_alerts # {}
  <2>1. /\ compilers' = compilers /\ tree' = tree /\ phase' = "idle" /\ job' = job /\ line' = line
        /\ linter' = linter /\ result' = [outcome |-> "alerts", alerts |-> compilers[job.by].lint_alerts]
    BY <1>3
  <2>2. job.by = "submission"
    BY <1>2, <1>3 DEF IInv, ClientUnalarmed
  <2>3. compilers[job.by].lint_alerts \in SUBSET (Triggers \X Nat)
    BY <1>2 DEF TypeOK, CompilerState
  <2>4. TypeOK'
    BY <2>1, <2>3 DEF TypeOK
  <2>5. NothingLeft' /\ Rewriting' /\ NothingRaised' /\ Produced'
    BY <2>1, <2>2 DEF NothingLeft, Forgotten, Rewriting, NothingRaised, Produced
  <2> QED  BY <1>1, <2>4, <2>5
<1>4. CASE compilers[job.by].lint_alerts = {}
  <2> DEFINE names == compilers[job.by].private_names \cup compilers[job.by].orm_names
  <2>1. /\ compilers' = [compilers EXCEPT ![job.by].private_names = {}, ![job.by].orm_names = {}]
        /\ tree' = Rename(tree, names) /\ phase' = "idle" /\ job' = job /\ line' = line
        /\ linter' = linter /\ result' = [outcome |-> "code", alerts |-> {}]
    BY <1>4
  <2>2. compilers' \in [Owners -> CompilerState]
    BY <1>2, <2>1 DEF TypeOK, CompilerState
  <2>3. Forgotten(job.by)' /\ \A o \in Owners : o # job.by => compilers'[o] = compilers[o]
    BY <1>2, <2>1 DEF TypeOK, CompilerState, Forgotten
  <2>4. tree' = Code(job.contract)
    BY <1>2, <2>1 DEF Rewriting, Code
  <2>5. Len(tree') = Len(job.contract)
    <3>1. DOMAIN TreeOf(job.contract, Len(job.contract)) = 1..Len(job.contract)
      BY DEF TreeOf
    <3>2. Len(job.contract) \in Nat
      BY DEF IInv, Shape
    <3>3. DOMAIN Code(job.contract) = 1..Len(job.contract)
      BY <3>1 DEF Code, Rename
    <3>4. Code(job.contract) = [i \in 1..Len(job.contract) |-> Code(job.contract)[i]]
      BY <3>1 DEF Code, Rename
    <3> QED  BY <2>4, <3>2, <3>3, <3>4
  <2>6. TypeOK'
    BY <2>1, <2>2, <2>5 DEF TypeOK, IInv, Shape
  <2>7. NothingLeft'
    BY <1>2, <2>1, <2>3 DEF NothingLeft, Forgotten, Owners
  <2>8. ~Crashes(job.contract, job.lint)
    BY <1>2 DEF Crashes, NothingRaised
  <2>9. Rewriting' /\ NothingRaised' /\ Produced'
    BY <2>1, <2>4, <2>8 DEF Rewriting, NothingRaised, Produced
  <2> QED  BY <1>1, <2>6, <2>7, <2>9
<1> QED  BY <1>3, <1>4
-----------------------------------------------------------------------------
(* What the verdict of the Linter says of the statements, and what that    *)
(* makes of the code.                                                      *)

Accepts(c) == c \in Contracts /\ ~Crashes(c, TRUE) /\ Violations(c) = {}

Renamed(c, n) == IF n \in PrivateNames(c, Len(c)) \cup OrmNames(c, Len(c)) THEN Privatize[n] ELSE n

LEMMA Statements ==
    ASSUME NEW c \in Contracts
    PROVE  /\ Len(c) \in Nat /\ DOMAIN c = 1..Len(c)
           /\ \A i \in DOMAIN c : c[i] \in Statement /\ (~IsAssign(c[i]) => c[i].value = "other")
<1>1. c \in Seq(Statement) /\ \A i \in DOMAIN c : c[i].kind # "assign" => c[i].value = "other"
  BY CompilerAssumption
<1>2. \A i \in DOMAIN c : c[i] \in Statement
  <2> HIDE DEF Statement
  <2> QED  BY <1>1
<1> QED  BY <1>1, <1>2 DEF IsAssign

LEMMA Unflawed ==
    ASSUME NEW c, Accepts(c), NEW i \in DOMAIN c
    PROVE  /\ FlawsOf(c[i], \E j \in 1..(i - 1) : Constructs(c[j])) = {}
           /\ \A a \in Elements(c[i].args) :
                /\ IsDef(c[i]) => \A j \in DOMAIN c : a.name \notin OrmNamesOf(c[j])
                /\ Exports(c[i]) => a.annotation = "allowed"
<1> DEFINE g == Gathered(c, Len(c))
           flaws(k) == FlawsOf(c[k], \E j \in 1..(k - 1) : Constructs(c[j]))
<1>1. Len(c) \in Nat /\ DOMAIN c = 1..Len(c) /\ i \in 1..Len(c)
  BY Statements DEF Accepts
<1>2. FinalChecks(g) = {}
  BY DEF Accepts, Violations
<1>3. /\ g.violations = UNION {At(flaws(k), k) : k \in 1..Len(c)}
      /\ g.orm_names = UNION {OrmNamesOf(c[k]) : k \in 1..Len(c)}
      /\ g.visited_args = UNION {ArgsAt(c[k], k) : k \in 1..Len(c)}
      /\ g.arg_types = UNION {TypesAt(c[k], k) : k \in 1..Len(c)}
  BY DEF Gathered
<1> HIDE DEF g, flaws
<1>4. /\ g.violations = {}
      /\ \A b \in g.visited_args : b[1] \notin g.orm_names
      /\ \A t \in g.arg_types : t[1] # None /\ t[1] \in {None, "allowed"}
  BY <1>2 DEF FinalChecks
<1>5. flaws(i) = {}
  <2>1. At(flaws(i), i) = {}
    BY <1>1, <1>3, <1>4
  <2>2. \A x \in flaws(i) : <<x, i>> \in At(flaws(i), i)
    BY DEF At
  <2> QED  BY <2>1, <2>2
<1>6. ASSUME NEW a \in Elements(c[i].args), IsDef(c[i]), NEW j \in DOMAIN c
      PROVE  a.name \notin OrmNamesOf(c[j])
  <2>1. <<a.name, i>> \in g.visited_args
    BY <1>1, <1>3, <1>6 DEF ArgsAt
  <2>2. OrmNamesOf(c[j]) \subseteq g.orm_names
    BY <1>1, <1>3
  <2> QED  BY <1>4, <2>1, <2>2
<1>7. ASSUME NEW a \in Elements(c[i].args), Exports(c[i])
      PROVE  a.annotation = "allowed"
  <2>1. <<a.annotation, i>> \in g.arg_types
    BY <1>1, <1>3, <1>7 DEF TypesAt
  <2> QED  BY <1>4, <2>1
<1> QED  BY <1>5, <1>6, <1>7 DEF flaws

(* A function is private, exported or the constructor, and one of these    *)
(* only; there is one constructor; and no keyword of a Variable or a Hash  *)
(* is given.                                                               *)
LEMMA Decorated ==
    ASSUME NEW c, Accepts(c), NEW i \in DOMAIN c
    PROVE  /\ IsDef(c[i]) => Private(c[i]) \/ Exports(c[i]) \/ Constructs(c[i])
           /\ Exports(c[i]) => LastOf(c[i].decorators) = "export" /\ c[i].decorators # <<>>
           /\ Constructs(c[i]) => LastOf(c[i].decorators) = "construct" /\ c[i].decorators # <<>>
           /\ \A j \in DOMAIN c : Constructs(c[i]) /\ Constructs(c[j]) => i = j
           /\ IsOrm(c[i]) => c[i].target = "name" /\ (c[i].value = "orm" => ~c[i].overloaded)
<1>1. Len(c) \in Nat /\ DOMAIN c = 1..Len(c) /\ i \in 1..Len(c) /\ c[i] \in Statement
  BY Statements DEF Accepts
<1>2. ASSUME NEW k \in DOMAIN c, IsDef(c[k])
      PROVE  /\ ~(Len(c[k].decorators) > 1)
             /\ Elements(c[k].decorators) \subseteq {"export", "construct"}
             /\ Constructs(c[k]) => ~\E j \in 1..(k - 1) : Constructs(c[j])
  <2>1. DefFlaws(c[k], \E j \in 1..(k - 1) : Constructs(c[j])) = {}
    BY <1>2, Unflawed DEF FlawsOf
  <2> QED  BY <2>1 DEF DefFlaws
<1>3. ASSUME IsDef(c[i])
      PROVE  c[i].decorators \in {<<>>, <<"export">>, <<"construct">>}
  <2> DEFINE ds == c[i].decorators
  <2>1. ds \in Seq(Decorators)
    BY <1>1 DEF Statement
  <2>2. ~(Len(ds) > 1)
    BY <1>2, <1>3
  <2> HIDE DEF ds
  <2>5. Len(ds) \in Nat /\ DOMAIN ds = 1..Len(ds) /\ (Len(ds) = 0 \/ Len(ds) = 1)
    <3>1. Len(ds) \in Nat /\ DOMAIN ds = 1..Len(ds)
      BY <2>1
    <3> QED  BY <2>2, <3>1
  <2>3. CASE Len(ds) = 0
    BY <2>1, <2>3 DEF ds
  <2>4. CASE Len(ds) = 1
    <3>1. ds = <<ds[1]>>
      BY <2>1, <2>4
    <3>2. ds[1] \in Elements(ds)
      BY <2>5, <2>4 DEF Elements
    <3>3. ds[1] \in {"export", "construct"}
      BY <1>2, <1>3, <3>2 DEF ds
    <3> QED  BY <3>1, <3>3 DEF ds
  <2> QED  BY <2>3, <2>4, <2>5
<1>4. Elements(<<"export">>) = {"export"} /\ Elements(<<"construct">>) = {"construct"} /\ Elements(<<>>) = {}
  BY DEF Elements
<1>5. /\ IsDef(c[i]) => Private(c[i]) \/ Exports(c[i]) \/ Constructs(c[i])
      /\ Exports(c[i]) => LastOf(c[i].decorators) = "export" /\ c[i].decorators # <<>>
      /\ Constructs(c[i]) => LastOf(c[i].decorators) = "construct" /\ c[i].decorators # <<>>
  <2>1. ASSUME IsDef(c[i]), c[i].decorators = <<>>
        PROVE  Private(c[i]) /\ ~Exports(c[i]) /\ ~Constructs(c[i])
    BY <1>4, <2>1 DEF Private, Exports, Constructs
  <2>2. ASSUME IsDef(c[i]), c[i].decorators = <<"export">>
        PROVE  Exports(c[i]) /\ ~Constructs(c[i]) /\ LastOf(c[i].decorators) = "export"
    BY <1>4, <2>2 DEF Exports, Constructs, LastOf
  <2>3. ASSUME IsDef(c[i]), c[i].decorators = <<"construct">>
        PROVE  Constructs(c[i]) /\ ~Exports(c[i]) /\ LastOf(c[i].decorators) = "construct"
    BY <1>4, <2>3 DEF Exports, Constructs, LastOf
  <2> QED  BY <1>3, <2>1, <2>2, <2>3 DEF Exports, Constructs
<1>6. ASSUME NEW j \in DOMAIN c, Constructs(c[i]), Constructs(c[j])
      PROVE  i = j
  <2>1. ~(j < i) /\ ~(i < j)
    BY <1>1, <1>2, <1>6 DEF Constructs
  <2> QED  BY <1>1, <2>1
<1>7. ASSUME IsOrm(c[i])
      PROVE  c[i].target = "name" /\ (c[i].value = "orm" => ~c[i].overloaded)
  <2>1. c[i].target = "name"
    BY <1>7 DEF Accepts, Crashes, VisitCrashes
  <2>2. AssignFlaws(c[i]) = {}
    BY <1>7, Unflawed DEF FlawsOf, IsOrm, IsAssign, IsDef
  <2> QED  BY <2>1, <2>2 DEF AssignFlaws
<1> QED  BY <1>5, <1>6, <1>7

(* The names that are made private are those of private functions and of   *)
(* ORM objects.                                                            *)
LEMMA MadePrivate ==
    ASSUME NEW c, Accepts(c), NEW n
    PROVE  n \in PrivateNames(c, Len(c)) \cup OrmNames(c, Len(c))
             <=> \E j \in DOMAIN c : (Private(c[j]) \/ IsOrm(c[j])) /\ c[j].name = n
<1>1. DOMAIN c = 1..Len(c)
  BY Statements DEF Accepts
<1>2. n \in PrivateNames(c, Len(c)) <=> \E j \in DOMAIN c : Private(c[j]) /\ c[j].name = n
  BY <1>1 DEF PrivateNames
<1>3. n \in OrmNames(c, Len(c)) <=> \E j \in DOMAIN c : n \in OrmNamesOf(c[j])
  BY <1>1 DEF OrmNames
<1>4. \A j \in DOMAIN c : n \in OrmNamesOf(c[j]) <=> IsOrm(c[j]) /\ c[j].name = n
  BY Decorated DEF OrmNamesOf
<1> QED  BY <1>2, <1>3, <1>4

(* The code, one statement at a time.                                      *)
LEMMA CodeAt ==
    ASSUME NEW c \in Contracts
    PROVE  /\ DOMAIN Code(c) = DOMAIN c
           /\ \A i \in DOMAIN c :
                LET s == Code(c)[i]
                IN  /\ s.kind = c[i].kind /\ s.args = c[i].args /\ s.value = c[i].value
                    /\ s.exported = (IsDef(c[i]) /\ c[i].decorators # <<>> /\ LastOf(c[i].decorators) = "export")
                    /\ s.keywords = (IF IsOrm(c[i]) THEN (IF c[i].overloaded THEN 2 ELSE 1) ELSE 0)
                    /\ DOMAIN s.uses = c[i].uses
                    /\ \A u \in c[i].uses : s.uses[u] = Renamed(c, u)
                    /\ s.name = IF IsAssign(c[i]) THEN Renamed(c, c[i].name) ELSE NameOf(c[i])
<1> DEFINE names == PrivateNames(c, Len(c)) \cup OrmNames(c, Len(c))
           t == TreeOf(c, Len(c))
           renamed(n) == IF n \in names THEN Privatize[n] ELSE n
<1>1. DOMAIN c = 1..Len(c)
  BY Statements
<1>2. DOMAIN t = DOMAIN c /\ \A i \in DOMAIN c : t[i] = Transformed(c[i])
  BY <1>1 DEF TreeOf
<1>3. Code(c) = [i \in DOMAIN t |->
                   [t[i] EXCEPT !.uses = [u \in DOMAIN @ |-> renamed(u)],
                                !.name = IF t[i].kind = "assign" THEN renamed(@) ELSE @]]
  BY DEF Code, Rename
<1>4. \A n : renamed(n) = Renamed(c, n)
  BY DEF Renamed
<1> HIDE DEF t, renamed
<1>5. DOMAIN Code(c) = DOMAIN c
  BY <1>2, <1>3
<1>6. ASSUME NEW i \in DOMAIN c
      PROVE  LET s == Code(c)[i]
             IN  /\ s.kind = c[i].kind /\ s.args = c[i].args /\ s.value = c[i].value
                 /\ s.exported = (IsDef(c[i]) /\ c[i].decorators # <<>> /\ LastOf(c[i].decorators) = "export")
                 /\ s.keywords = (IF IsOrm(c[i]) THEN (IF c[i].overloaded THEN 2 ELSE 1) ELSE 0)
                 /\ DOMAIN s.uses = c[i].uses
                 /\ \A u \in c[i].uses : s.uses[u] = Renamed(c, u)
                 /\ s.name = IF IsAssign(c[i]) THEN Renamed(c, c[i].name) ELSE NameOf(c[i])
  <2> DEFINE r == Transformed(c[i])
             s == [r EXCEPT !.uses = [u \in DOMAIN @ |-> renamed(u)],
                            !.name = IF r.kind = "assign" THEN renamed(@) ELSE @]
  <2>1. Code(c)[i] = s
    BY <1>2, <1>3
  <2>2. /\ r.kind = c[i].kind /\ r.args = c[i].args /\ r.value = c[i].value
        /\ r.exported = (IsDef(c[i]) /\ c[i].decorators # <<>> /\ LastOf(c[i].decorators) = "export")
        /\ r.keywords = (IF IsOrm(c[i]) THEN (IF c[i].overloaded THEN 2 ELSE 1) ELSE 0)
        /\ DOMAIN r.uses = c[i].uses /\ r.name = NameOf(c[i])
    BY DEF Transformed
  <2>3. DOMAIN r = {"kind", "name", "uses", "args", "value", "exported", "keywords"}
    BY DEF Transformed
  <2> HIDE DEF r
  <2>4. /\ s.kind = r.kind /\ s.args = r.args /\ s.value = r.value /\ s.exported = r.exported
        /\ s.keywords = r.keywords /\ s.uses = [u \in DOMAIN r.uses |-> renamed(u)]
        /\ s.name = IF r.kind = "assign" THEN renamed(r.name) ELSE r.name
    BY <2>3
  <2>5. IsAssign(c[i]) => NameOf(c[i]) = c[i].name
    BY DEF IsAssign, NameOf, Private, IsDef
  <2> HIDE DEF s
  <2>6. DOMAIN s.uses = c[i].uses /\ \A u \in c[i].uses : s.uses[u] = Renamed(c, u)
    BY <1>4, <2>2, <2>4
  <2>7. s.name = IF IsAssign(c[i]) THEN Renamed(c, c[i].name) ELSE NameOf(c[i])
    BY <1>4, <2>2, <2>4, <2>5 DEF IsAssign
  <2> QED  BY <2>1, <2>2, <2>4, <2>6, <2>7
<1> QED  BY <1>5, <1>6
-----------------------------------------------------------------------------
LEMMA RenamedApart ==
    ASSUME NEW c, NEW m \in Names, NEW n \in Names
    PROVE  /\ Renamed(c, m) = Renamed(c, n) <=> m = n
           /\ Renamed(c, m) # InitName
           /\ Privatize[m] = Privatize[n] <=> m = n
           /\ Privatize[m] \notin Names /\ Privatize[m] # InitName
           /\ Renamed(c, m) \in {m, Privatize[m]}
  BY CompilerAssumption DEF Renamed

(* What every statement is called in the code.                             *)
LEMMA CalledInCode ==
    ASSUME NEW c, Accepts(c), NEW i \in DOMAIN c
    PROVE  /\ c[i].name \in Names
           /\ Private(c[i]) => Code(c)[i].name = Privatize[c[i].name]
           /\ Exports(c[i]) => Code(c)[i].name = c[i].name
           /\ Constructs(c[i]) => Code(c)[i].name = InitName
           /\ IsOrm(c[i]) => Code(c)[i].name = Privatize[c[i].name]
           /\ IsAssign(c[i]) => Code(c)[i].name = Renamed(c, c[i].name)
           /\ c[i].kind = "other" => Code(c)[i].name = c[i].name
<1>1. c \in Contracts /\ c[i] \in Statement
  BY Statements DEF Accepts
<1>2. Code(c)[i].name = IF IsAssign(c[i]) THEN Renamed(c, c[i].name) ELSE NameOf(c[i])
  BY <1>1, CodeAt
<1>3. c[i].name \in Names
  BY <1>1 DEF Statement
<1>4. IsOrm(c[i]) => Renamed(c, c[i].name) = Privatize[c[i].name]
  BY MadePrivate DEF Renamed
<1>5. Private(c[i]) => Code(c)[i].name = Privatize[c[i].name]
  BY <1>2 DEF NameOf, Private, IsDef, IsAssign
<1>6. Exports(c[i]) => Code(c)[i].name = c[i].name
  BY <1>2, Decorated DEF NameOf, Private, Exports, IsDef, IsAssign
<1>7. Constructs(c[i]) => Code(c)[i].name = InitName
  BY <1>2, Decorated DEF NameOf, Private, Constructs, IsDef, IsAssign
<1>8. c[i].kind = "other" => Code(c)[i].name = c[i].name
  BY <1>2 DEF NameOf, Private, IsDef, IsAssign
<1>9. IsOrm(c[i]) => Code(c)[i].name = Privatize[c[i].name]
  BY <1>2, <1>4 DEF IsOrm
<1> QED  BY <1>2, <1>3, <1>5, <1>6, <1>7, <1>8, <1>9

LEMMA FormOfCode ==
    ASSUME NEW c, Accepts(c)
    PROVE  LET t == Code(c)
           IN  /\ \A i \in DOMAIN t : t[i].kind = "def" =>
                    \/ t[i].exported
                    \/ t[i].name = InitName
                    \/ \E n \in Names : t[i].name = Privatize[n]
               /\ \A i, j \in DOMAIN t : t[i].name = InitName /\ t[j].name = InitName => i = j
               /\ \A i \in DOMAIN t : t[i].value = "orm" => t[i].keywords = 1
<1> DEFINE t == Code(c)
<1>1. c \in Contracts /\ DOMAIN t = DOMAIN c
  BY CodeAt DEF Accepts
<1>2. \A i \in DOMAIN c : c[i].kind \in {"def", "assign", "other"}
  BY <1>1, Statements DEF Statement
<1>3. ASSUME NEW i \in DOMAIN t, t[i].kind = "def"
      PROVE  t[i].exported \/ t[i].name = InitName \/ \E n \in Names : t[i].name = Privatize[n]
  <2>1. IsDef(c[i])
    BY <1>1, <1>3, CodeAt DEF IsDef
  <2>2. Exports(c[i]) => t[i].exported
    <3>1. i \in DOMAIN c
      BY <1>1
    <3>2. t[i].exported = (IsDef(c[i]) /\ c[i].decorators # <<>> /\ LastOf(c[i].decorators) = "export")
      BY <1>1, <3>1, CodeAt
    <3>3. Exports(c[i]) => c[i].decorators # <<>> /\ LastOf(c[i].decorators) = "export"
      BY <3>1, Decorated
    <3> HIDE DEF t
    <3> QED  BY <2>1, <3>2, <3>3
  <2> QED  BY <1>1, <2>1, <2>2, Decorated, CalledInCode
<1>4. ASSUME NEW i \in DOMAIN t, t[i].name = InitName
      PROVE  Constructs(c[i])
  <2>1. ~IsAssign(c[i]) /\ ~Private(c[i]) /\ ~Exports(c[i]) /\ c[i].kind # "other"
    BY <1>1, <1>4, CalledInCode, RenamedApart, CompilerAssumption
  <2> QED  BY <1>1, <1>2, <2>1, Decorated DEF IsDef, IsAssign
<1>5. ASSUME NEW i \in DOMAIN t, t[i].value = "orm"
      PROVE  t[i].keywords = 1
  <2>1. c[i].value = "orm"
    BY <1>1, <1>5, CodeAt
  <2>2. IsOrm(c[i])
    BY <1>1, <2>1, Statements DEF IsOrm
  <2> QED  BY <1>1, <2>1, <2>2, CodeAt, Decorated
<1> QED  BY <1>1, <1>3, <1>4, <1>5, Decorated

LEMMA MeaningKept ==
    ASSUME NEW c, Accepts(c), NEW i \in DOMAIN c, IsDef(c[i]), NEW u \in c[i].uses,
           ~HidesArgument(c, i, u), ~HidesExport(c, u)
    PROVE  LET t == Code(c)
           IN  Meaning(c, i, t[i].uses[u], {j \in DOMAIN t : t[j].kind \in {"def", "assign"}
                                               /\ t[j].name = t[i].uses[u]})
                 = Meaning(c, i, u, {j \in DOMAIN c : c[j].kind \in {"def", "assign"}
                                       /\ ~Constructs(c[j]) /\ c[j].name = u})
<1> DEFINE t == Code(c)
           v == Renamed(c, u)
<1>1. c \in Contracts /\ DOMAIN t = DOMAIN c /\ t[i].uses[u] = v
  BY CodeAt DEF Accepts
<1>2. u \in Names
  BY <1>1, Statements DEF Statement
<1>3. CASE \E j \in DOMAIN c : (Private(c[j]) \/ IsOrm(c[j])) /\ c[j].name = u
  <2>1. v = Privatize[u]
    BY <1>3, MadePrivate DEF Renamed
  <2>2. \A a \in Elements(c[i].args) : a.name \in Names
    <3>1. c[i] \in Statement
      BY <1>1, Statements
    <3>2. ArgsAt(c[i], 0) \subseteq Names \X Nat
      BY <3>1, ArgsType
    <3>3. \A a \in Elements(c[i].args) : <<a.name, 0>> \in ArgsAt(c[i], 0)
      BY DEF ArgsAt
    <3> QED  BY <3>2, <3>3
  <2>3. ~\E a \in Elements(c[i].args) : a.name = v
    BY <1>2, <2>1, <2>2, RenamedApart
  <2>4. ~\E a \in Elements(c[i].args) : a.name = u
    <3>1. CASE \E j \in DOMAIN c : Private(c[j]) /\ c[j].name = u
      BY <3>1 DEF HidesArgument
    <3>2. CASE \E j \in DOMAIN c : IsOrm(c[j]) /\ c[j].name = u
      <4>1. PICK j \in DOMAIN c : IsOrm(c[j]) /\ c[j].name = u
        BY <3>2
      <4>2. u \in OrmNamesOf(c[j])
        BY <4>1, Decorated DEF OrmNamesOf
      <4> QED  BY <4>2, Unflawed
    <3> QED  BY <1>3, <3>1, <3>2
  <2>5. ASSUME NEW j \in DOMAIN c, c[j].kind \in {"def", "assign"}
        PROVE  t[j].name = v <=> ~Constructs(c[j]) /\ c[j].name = u
    <3>1. c[j].name \in Names
      BY CalledInCode
    <3>2. CASE Private(c[j])
      <4>1. ~Constructs(c[j])
        BY <3>2, Decorated DEF Private
      <4> QED  BY <1>2, <2>1, <3>1, <3>2, <4>1, CalledInCode, RenamedApart
    <3>3. CASE Exports(c[j])
      <4>1. c[j].name # u
        BY <1>3, <3>3 DEF HidesExport
      <4> QED  BY <1>2, <2>1, <3>1, <3>3, <4>1, CalledInCode, RenamedApart
    <3>4. CASE Constructs(c[j])
      BY <1>2, <2>1, <3>4, CalledInCode, RenamedApart
    <3>5. CASE IsAssign(c[j])
      <4>1. ~Constructs(c[j])
        BY <3>5 DEF Constructs, IsAssign, IsDef
      <4> QED  BY <1>2, <3>1, <3>5, <4>1, CalledInCode, RenamedApart
    <3> QED  BY <2>5, <3>2, <3>3, <3>4, <3>5, Decorated DEF IsDef, IsAssign
  <2> QED  BY <1>1, <2>3, <2>4, <2>5, CodeAt DEF Meaning
<1>4. CASE ~\E j \in DOMAIN c : (Private(c[j]) \/ IsOrm(c[j])) /\ c[j].name = u
  <2>1. v = u
    BY <1>4, MadePrivate DEF Renamed
  <2>2. ASSUME NEW j \in DOMAIN c, c[j].kind \in {"def", "assign"}
        PROVE  t[j].name = u <=> ~Constructs(c[j]) /\ c[j].name = u
    <3>1. c[j].name \in Names
      BY CalledInCode
    <3>2. CASE Private(c[j])
      BY <1>2, <1>4, <3>1, <3>2, CalledInCode, RenamedApart
    <3>3. CASE Exports(c[j])
      BY <3>3, CalledInCode, Decorated
    <3>4. CASE Constructs(c[j])
      BY <1>2, <3>4, CalledInCode, CompilerAssumption
    <3>5. CASE IsAssign(c[j])
      <4>1. ~Constructs(c[j])
        BY <3>5 DEF Constructs, IsAssign, IsDef
      <4> QED  BY <1>2, <2>1, <3>1, <3>5, <4>1, CalledInCode, RenamedApart
    <3> QED  BY <2>2, <3>2, <3>3, <3>4, <3>5, Decorated DEF IsDef, IsAssign
  <2>3. {j \in DOMAIN t : t[j].kind \in {"def", "assign"} /\ t[j].name = u}
          = {j \in DOMAIN c : c[j].kind \in {"def", "assign"} /\ ~Constructs(c[j]) /\ c[j].name = u}
    BY <1>1, <2>2, CodeAt
  <2> QED  BY <1>1, <2>1, <2>3
<1> QED  BY <1>3, <1>4
-----------------------------------------------------------------------------
(* What the parser and importlib find in the code.                         *)

LEMMA FoundInCode ==
    ASSUME NEW c, Accepts(c), NEW i \in DOMAIN c, NEW n \in Names,
           IsDef(Code(c)[i]) \/ IsAssign(Code(c)[i])
    PROVE  /\ Code(c)[i].name = n => c[i].name = n /\ (Exports(c[i]) \/ (IsAssign(c[i]) /\ ~IsOrm(c[i])))
           /\ Code(c)[i].name = Privatize[n] => c[i].name = n /\ (Private(c[i]) \/ IsAssign(c[i]))
<1>1. c[i].name \in Names /\ (IsDef(c[i]) \/ IsAssign(c[i]))
  BY CalledInCode, CodeAt DEF Accepts, IsDef, IsAssign
<1>2. CASE Private(c[i])
  BY <1>1, <1>2, CalledInCode, RenamedApart
<1>3. CASE Exports(c[i])
  BY <1>1, <1>3, CalledInCode, RenamedApart
<1>4. CASE Constructs(c[i])
  BY <1>1, <1>4, CalledInCode, RenamedApart, CompilerAssumption
<1>5. CASE IsAssign(c[i])
  <2>1. Code(c)[i].name = Renamed(c, c[i].name)
    BY <1>5, CalledInCode
  <2>2. Renamed(c, c[i].name) = n => c[i].name = n
    BY <1>1, RenamedApart
  <2>3. Renamed(c, c[i].name) = Privatize[n] => c[i].name = n
    BY <1>1, RenamedApart
  <2>4. IsOrm(c[i]) => Code(c)[i].name # n
    BY <1>1, CalledInCode, RenamedApart
  <2> QED  BY <1>5, <2>1, <2>2, <2>3, <2>4
<1> QED  BY <1>1, <1>2, <1>3, <1>4, <1>5, Decorated

LEMMA ParserFinds ==
    ASSUME NEW c, Accepts(c)
    PROVE  LET t == Code(c)
               orm(i) == IsOrm(c[i]) /\ c[i].value = "orm"
           IN  /\ Methods(t) = {i \in DOMAIN t : t[i].exported}
               /\ ~MethodsRaise(t)
               /\ Variables(t) \subseteq {c[i].name : i \in {j \in DOMAIN c : orm(j)}}
               /\ \A i \in DOMAIN c : orm(i) /\ (\A j \in 1..i : ~IsDef(c[j])) => c[i].name \in Variables(t)
<1> DEFINE t == Code(c)
           orm(i) == IsOrm(c[i]) /\ c[i].value = "orm"
<1>1. c \in Contracts /\ DOMAIN t = DOMAIN c /\ DOMAIN c = 1..Len(c) /\ Len(c) \in Nat
  BY CodeAt, Statements DEF Accepts
<1>2. ASSUME NEW i \in DOMAIN t
      PROVE  /\ i \in Methods(t) <=> Exports(c[i])
             /\ t[i].exported <=> Exports(c[i])
             /\ t[i].value = "orm" <=> orm(i)
  <2>1. /\ t[i].kind = c[i].kind /\ t[i].value = c[i].value
        /\ t[i].exported = (IsDef(c[i]) /\ c[i].decorators # <<>> /\ LastOf(c[i].decorators) = "export")
    BY <1>1, CodeAt
  <2>2. t[i].exported <=> Exports(c[i])
    <3>1. IsDef(c[i]) /\ c[i].decorators # <<>> /\ LastOf(c[i].decorators) = "export" <=> Exports(c[i])
      BY <1>1, Decorated DEF Private, Exports
    <3> HIDE DEF t
    <3> QED  BY <2>1, <3>1
  <2>3. i \in Methods(t) <=> IsDef(c[i]) /\ t[i].name \in Names
    BY <2>1 DEF Methods, IsDef
  <2>4. IsDef(c[i]) /\ t[i].name \in Names <=> Exports(c[i])
    <3>1. c[i].name \in Names
      BY <1>1, CalledInCode
    <3>2. Private(c[i]) \/ Constructs(c[i]) => t[i].name \notin Names
      BY <1>1, <3>1, CalledInCode, CompilerAssumption
    <3>3. Exports(c[i]) => IsDef(c[i]) /\ t[i].name \in Names
      BY <1>1, <3>1, CalledInCode DEF Exports
    <3> QED  BY <1>1, <3>2, <3>3, Decorated
  <2>5. t[i].value = "orm" <=> orm(i)
    BY <1>1, <2>1, Statements DEF IsOrm
  <2> QED  BY <2>2, <2>3, <2>4, <2>5
<1>3. Methods(t) = {i \in DOMAIN t : t[i].exported}
  BY <1>2 DEF Methods
<1>4. ~MethodsRaise(t)
  <2> SUFFICES ASSUME NEW i \in Methods(t), NEW a \in Elements(t[i].args) PROVE a.annotation # None
    BY DEF MethodsRaise
  <2>1. i \in DOMAIN c /\ Exports(c[i]) /\ t[i].args = c[i].args
    BY <1>1, <1>2, CodeAt DEF Methods
  <2> HIDE DEF t
  <2> QED  BY <2>1, Unflawed, CompilerAssumption
<1>5. ASSUME NEW i \in DOMAIN c, orm(i)
      PROVE  Spelled(t[i].name) = c[i].name
  <2>1. c[i].name \in Names /\ t[i].name = Privatize[c[i].name]
    BY <1>5, CalledInCode
  <2> QED  BY <2>1, CompilerAssumption DEF Spelled
<1>6. Variables(t) \subseteq {c[i].name : i \in {j \in DOMAIN c : orm(j)}}
  <2> SUFFICES ASSUME NEW i \in BeforeFunctions(t), t[i].value = "orm"
               PROVE  Spelled(t[i].name) \in {c[j].name : j \in {k \in DOMAIN c : orm(k)}}
    BY DEF Variables
  <2>1. i \in DOMAIN c /\ orm(i)
    BY <1>1, <1>2 DEF BeforeFunctions
  <2> QED  BY <1>5, <2>1
<1>7. ASSUME NEW i \in DOMAIN c, orm(i), \A j \in 1..i : ~IsDef(c[j])
      PROVE  c[i].name \in Variables(t)
  <2>1. \A j \in 1..i : j \in DOMAIN c /\ t[j].kind = c[j].kind
    BY <1>1, CodeAt
  <2>2. i \in BeforeFunctions(t)
    BY <1>1, <1>7, <2>1 DEF BeforeFunctions, IsDef
  <2>3. t[i].value = "orm"
    BY <1>1, <1>2, <1>7
  <2> HIDE DEF t
  <2> QED  BY <1>5, <1>7, <2>2, <2>3 DEF Variables
<1> QED  BY <1>3, <1>4, <1>6, <1>7

LEMMA Enforced ==
    ASSUME NEW c, Accepts(c), NEW kind \in {"function", "private", "orm", "foreign"}, NEW n \in Names, NEW args
    PROVE  LET t == Code(c)
               w == [kind |-> kind, name |-> n, args |-> args]
               named == {i \in DOMAIN c : (IsDef(c[i]) \/ IsAssign(c[i])) /\ c[i].name = n}
               has(i) ==
                 \/ kind = "function" /\ Exports(c[i]) /\ ArgNames(c[i]) = args
                 \/ kind = "private" /\ Private(c[i]) /\ ArgNames(c[i]) = args
                 \/ IsOrm(c[i]) /\ c[i].value = kind
           IN  ~EnforceRaises(t, w) =>
                 /\ EnforceInterface(t, w) => \E i \in named : has(i) \/ (IsAssign(c[i]) /\ ~IsOrm(c[i]))
                 /\ (\E i \in named : named = {i} /\ has(i)) => EnforceInterface(t, w)
<1> DEFINE t == Code(c)
           w == [kind |-> kind, name |-> n, args |-> args]
           named == {i \in DOMAIN c : (IsDef(c[i]) \/ IsAssign(c[i])) /\ c[i].name = n}
           has(i) ==
             \/ kind = "function" /\ Exports(c[i]) /\ ArgNames(c[i]) = args
             \/ kind = "private" /\ Private(c[i]) /\ ArgNames(c[i]) = args
             \/ IsOrm(c[i]) /\ c[i].value = kind
           bound == {i \in DOMAIN t : (IsDef(t[i]) \/ IsAssign(t[i])) /\ t[i].name = WantedName(w)}
           wanted == IF kind = "function" THEN n ELSE Privatize[n]
<1> SUFFICES ASSUME ~EnforceRaises(t, w)
             PROVE  /\ EnforceInterface(t, w) => \E i \in named : has(i) \/ (IsAssign(c[i]) /\ ~IsOrm(c[i]))
                    /\ (\E i \in named : named = {i} /\ has(i)) => EnforceInterface(t, w)
  OBVIOUS
<1>1. c \in Contracts /\ DOMAIN t = DOMAIN c
  BY CodeAt DEF Accepts
<1>2. WantedName(w) = wanted /\ w.kind = kind /\ w.args = args
  BY DEF WantedName
<1>3. ASSUME NEW i \in DOMAIN c
      PROVE  /\ IsDef(t[i]) <=> IsDef(c[i])
             /\ IsAssign(t[i]) <=> IsAssign(c[i])
             /\ IsDatum(t[i]) <=> IsOrm(c[i])
             /\ ArgNames(t[i]) = ArgNames(c[i]) /\ t[i].value = c[i].value
  BY <1>1, CodeAt DEF IsDef, IsAssign, IsDatum, IsOrm, ArgNames
<1>4. ASSUME NEW i \in bound
      PROVE  /\ i \in named
             /\ kind = "function" => Exports(c[i]) \/ (IsAssign(c[i]) /\ ~IsOrm(c[i]))
             /\ kind # "function" => Private(c[i]) \/ IsAssign(c[i])
  <2>1. i \in DOMAIN c /\ (IsDef(t[i]) \/ IsAssign(t[i])) /\ t[i].name = wanted
    BY <1>1, <1>2
  <2>2. /\ t[i].name = n => c[i].name = n /\ (Exports(c[i]) \/ (IsAssign(c[i]) /\ ~IsOrm(c[i])))
        /\ t[i].name = Privatize[n] => c[i].name = n /\ (Private(c[i]) \/ IsAssign(c[i]))
    BY <2>1, FoundInCode
  <2>3. IsDef(c[i]) \/ IsAssign(c[i])
    BY <1>3, <2>1
  <2> HIDE DEF t
  <2> QED  BY <2>1, <2>2, <2>3
<1>5. Implemented(t, w) = {t[i] : i \in {j \in bound : \A k \in bound : k <= j}}
  BY DEF Implemented
<1> HIDE DEF t, w, bound
<1>6. ASSUME EnforceInterface(t, w)
      PROVE  \E i \in named : has(i) \/ (IsAssign(c[i]) /\ ~IsOrm(c[i]))
  <2>1. PICK i \in bound : t[i] \in Implemented(t, w) /\ IsOf(t[i], w)
    BY <1>5, <1>6 DEF EnforceInterface
  <2>2. i \in named /\ i \in DOMAIN c
    BY <1>4, <2>1
  <2>3. /\ IsDef(c[i]) => kind \in {"function", "private"} /\ ArgNames(c[i]) = args
        /\ IsOrm(c[i]) => c[i].value = kind
    BY <1>2, <1>3, <2>1, <2>2 DEF IsOf
  <2>4. Exports(c[i]) => IsDef(c[i])
    BY DEF Exports
  <2>5. Private(c[i]) => IsDef(c[i])
    BY DEF Private
  <2>6. has(i) \/ (IsAssign(c[i]) /\ ~IsOrm(c[i]))
    BY <1>4, <2>1, <2>3, <2>4, <2>5
  <2> QED  BY <2>2, <2>6
<1>7. ASSUME NEW i \in named, named = {i}, has(i)
      PROVE  EnforceInterface(t, w)
  <2>1. i \in DOMAIN c /\ c[i].name = n /\ (IsDef(c[i]) \/ IsAssign(c[i]))
    OBVIOUS
  <2>2. t[i].name = wanted
    <3>1. kind = "function" /\ Exports(c[i]) => t[i].name = n
      BY <2>1, CalledInCode DEF t
    <3>2. kind = "private" /\ Private(c[i]) => t[i].name = Privatize[n]
      BY <2>1, CalledInCode DEF t
    <3>3. IsOrm(c[i]) /\ c[i].value = kind => kind # "function" /\ t[i].name = Privatize[n]
      BY <2>1, CalledInCode DEF t, IsOrm
    <3> QED  BY <1>7, <3>1, <3>2, <3>3
  <2>3. i \in bound
    BY <1>1, <1>2, <1>3, <2>1, <2>2 DEF bound
  <2>4. bound = {i}
    BY <1>4, <1>7, <2>3
  <2>5. i \in {j \in bound : \A k \in bound : k <= j}
    <3>1. i \in Nat
      BY <1>1, <2>1, Statements
    <3> QED  BY <2>4, <3>1
  <2>6. t[i] \in Implemented(t, w)
    BY <1>5, <2>5
  <2>7. IsOf(t[i], w)
    <3>1. IsDef(c[i]) => ~IsOrm(c[i])
      BY DEF IsDef, IsOrm, IsAssign
    <3>2. Exports(c[i]) \/ Private(c[i]) => IsDef(c[i])
      BY DEF Exports, Private
    <3> QED  BY <1>2, <1>3, <1>7, <2>1, <3>1, <3>2 DEF IsOf
  <2> QED  BY <2>6, <2>7 DEF EnforceInterface
<1> QED  BY <1>6, <1>7
-----------------------------------------------------------------------------
LEMMA CodeIsOfAccepted ==
    ASSUME RInv, Accepted
    PROVE  Accepts(job.contract) /\ tree = Code(job.contract)
<1>1. result.outcome = "code" /\ job.lint = TRUE
  BY DEF Accepted, RInv, IInv, Shape
<1>2. tree = Code(job.contract) /\ ~Crashes(job.contract, TRUE)
  BY <1>1 DEF RInv, Produced
<1>3. Violations(job.contract) = {}
  BY <1>1 DEF RInv, IInv, VerdictIsItsOwn
<1>4. job.contract \in Contracts
  <2>1. Violations(<<>>) # {}
    <3>1. Len(<<>>) = 0
      OBVIOUS
    <3>2. Gathered(<<>>, 0) = FreshLinter
      BY GatheredNone
    <3>3. <<"S13", 0>> \in FinalChecks(FreshLinter)
      BY DEF FinalChecks, FreshLinter
    <3> QED  BY <3>1, <3>2, <3>3 DEF Violations
  <2>2. job.contract \in Contracts \cup {<<>>}
    BY DEF RInv, TypeOK
  <2> QED  BY <1>3, <2>1, <2>2
<1> QED  BY <1>2, <1>3, <1>4 DEF Accepts

LEMMA RInvImplies == RInv => CompilerInv /\ BindingsKept /\ InterfaceIsFound
<1> SUFFICES ASSUME RInv PROVE CompilerInv /\ BindingsKept /\ InterfaceIsFound
  OBVIOUS
<1>1. CASE ~Accepted
  BY <1>1 DEF RInv, CompilerInv, ExportedOrPrivate, StoredUnderOwnName, BindingsKept, InterfaceIsFound,
              ParserTellsTheInterface, InterfaceIsEnforced
<1>2. CASE Accepted
  <2>1. Accepts(job.contract) /\ tree = Code(job.contract)
    BY <1>2, CodeIsOfAccepted
  <2>2. CompilerInv
    BY <2>1, FormOfCode DEF RInv, CompilerInv, ExportedOrPrivate, StoredUnderOwnName
  <2>3. BindingsKept
    BY <2>1, MeaningKept DEF BindingsKept
  <2>4. ParserTellsTheInterface
    BY <2>1, ParserFinds DEF ParserTellsTheInterface
  <2>5. InterfaceIsEnforced
    BY <2>1, Enforced DEF InterfaceIsEnforced
  <2> QED  BY <2>2, <2>3, <2>4, <2>5 DEF InterfaceIsFound
<1> QED  BY <1>1, <1>2

(* RInv is inductive, as long as the client compiles only what will        *)
(* compile: what a contract is rewritten to depends on it alone.           *)
THEOREM RewritingInvariant == ASSUME Careful PROVE Spec => []RInv
<1>1. Init => RInv
  BY InitRInv
<1>2. RInv /\ [Next]_vars => RInv'
  <2> SUFFICES ASSUME RInv, [Next]_vars PROVE RInv'
    OBVIOUS
  <2>1. ASSUME NEW by \in Owners \cup {"lint"}, NEW c \in Contracts, NEW lint \in BOOLEAN,
               Begin(by, c, lint)
        PROVE  RInv'
    BY <2>1, BeginRewrites
  <2>2. CASE LintStatement
    BY <2>2, LintStatementRewrites
  <2>3. CASE Checked
    BY <2>3, CheckedRewrites
  <2>4. CASE VisitStatement
    BY <2>4, VisitStatementRewrites
  <2>5. CASE Compiled
    BY <2>5, CompiledRewrites
  <2>6. CASE UNCHANGED vars
    BY <2>6 DEF vars, RInv, IInv, Shape, Walking, Alerted, ClientUnalarmed, VerdictIsItsOwn,
                TypeOK, NothingLeft, Forgotten, Rewriting, NothingRaised, Produced
  <2> QED  BY <2>1, <2>2, <2>3, <2>4, <2>5, <2>6 DEF Next
<1> QED  BY <1>1, <1>2, PTL DEF Spec

(* In the code of an accepted contract every function is exported, private *)
(* or the one constructor, and every Variable and Hash says once whose it  *)
(* is, for contracts of any length, with any names.                        *)
THEOREM CodeIsWellFormed == ASSUME Careful PROVE Spec => []CompilerInv
<1>1. Spec => []RInv
  BY RewritingInvariant
<1>2. RInv => CompilerInv
  BY RInvImplies
<1> QED  BY <1>1, <1>2, PTL

(* Nothing that another contract declared, and nothing that this one       *)
(* declares further down, gives a name of its code another meaning.        *)
THEOREM RenamingKeepsBindings == ASSUME Careful PROVE Spec => []BindingsKept
<1>1. Spec => []RInv
  BY RewritingInvariant
<1>2. RInv => BindingsKept
  BY RInvImplies
<1> QED  BY <1>1, <1>2, PTL

(* The parser and importlib find in the code the interface of the source.  *)
THEOREM InterfaceSurvives == ASSUME Careful PROVE Spec => []InterfaceIsFound
<1>1. Spec => []RInv
  BY RewritingInvariant
<1>2. RInv => InterfaceIsFound
  BY RInvImplies
<1> QED  BY <1>1, <1>2, PTL
=============================================================================
