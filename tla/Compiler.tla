------------------------------ MODULE Compiler ------------------------------
(***************************************************************************)
(* From the source of a contract to the code that is stored: Linter of     *)
(* contracting/compilation/linter.py and ContractingCompiler of            *)
(* contracting/compilation/compiler.py, which walk over the statements one *)
(* after the other and keep what they gathered in attributes.  One Linter  *)
(* serves every compiler; the submission of a contract makes a compiler of *)
(* its own, and ContractingClient keeps one for all that it compiles.      *)
(***************************************************************************)
EXTENDS Integers, Sequences

CONSTANTS
    Names,          \* identifiers, as contracts spell them
    Privatize,      \* the identifier with PRIVATE_METHOD_PREFIX before it
    InitName,       \* INIT_FUNC_NAME
    None,           \* Python's None
    Contracts,      \* the contracts: sequences of statements
    Liberties       \* "unlinted": the client compiles with lint=False;
                    \* "careless": also what will not compile

Triggers == {"S1", "S2", "S3", "S4", "S6", "S7", "S8", "S9", "S10", "S11", "S12", "S13", "S14",
             "S15", "S16", "S17", "S19"}

Decorators == {"export", "construct", "other", "called"}        \* called: @export()
Annotations == {None, "allowed", "other", "subscript"}
RightSides == {"orm", "foreign", "class", "call of call", "call of attribute", "other"}

(* A def, an assignment at the top level, or another statement.  uses are  *)
(* the names that its body reads, and flaws the triggers of VIOLATION_     *)
(* TRIGGERS that depend on no other statement and on nothing listed here.  *)
Statement ==
    [kind : {"def", "assign", "other"}, name : Names, flaws : SUBSET Triggers,
     decorators : Seq(Decorators), args : Seq([name : Names, annotation : Annotations]),
     returns : BOOLEAN, uses : SUBSET Names,
     value : RightSides, target : {"name", "tuple", "item"}, overloaded : BOOLEAN]

ASSUME CompilerAssumption ==
    /\ Contracts \subseteq Seq(Statement)
    /\ \A c \in Contracts : \A i \in DOMAIN c : c[i].kind # "assign" => c[i].value = "other"
    /\ DOMAIN Privatize = Names
    /\ \A m, n \in Names : Privatize[m] = Privatize[n] => m = n
    /\ \A n \in Names : Privatize[n] \notin Names \cup {InitName}
    /\ InitName \notin Names
    /\ None \notin {"allowed", "other", "subscript"}
    /\ Liberties \subseteq {"unlinted", "careless"}

VARIABLES
    linter,         \* the attributes of the one Linter
    compilers,      \* those of the client's compiler and of the one a submission made
    job,            \* what is linted or compiled, and by whom
    phase,
    line,           \* the statement that comes next
    tree,           \* the statements already transformed
    result          \* what the last call returned or raised

vars == <<linter, compilers, job, phase, line, tree, result>>

May(liberty) == liberty \in Liberties

FreshLinter ==
    [violations |-> {}, is_one_export |-> FALSE, constructor_visited |-> FALSE,
     orm_names |-> {}, visited_args |-> {}, arg_types |-> {}]

FreshCompiler == [lint_alerts |-> {}, private_names |-> {}, orm_names |-> {}]

Owners == {"client", "submission"}
NoJob == [by |-> "lint", contract |-> <<>>, lint |-> TRUE]
NoResult == [outcome |-> "none", alerts |-> {}]

Init ==
    /\ linter = FreshLinter
    /\ compilers = [o \in Owners |-> FreshCompiler]
    /\ job = NoJob
    /\ phase = "idle"
    /\ line = 1
    /\ tree = <<>>
    /\ result = NoResult

-----------------------------------------------------------------------------
Elements(s) == {s[i] : i \in DOMAIN s}
LastOf(s) == s[Len(s)]

IsDef(s) == s.kind = "def"
IsAssign(s) == s.kind = "assign"
IsOrm(s) == IsAssign(s) /\ s.value \in {"orm", "foreign"}
Exports(s) == IsDef(s) /\ "export" \in Elements(s.decorators)
Constructs(s) == IsDef(s) /\ "construct" \in Elements(s.decorators)
ConstructsTwice(s) ==
    \E i, j \in DOMAIN s.decorators : i # j /\ s.decorators[i] = "construct" /\ s.decorators[j] = "construct"

(* AttributeError, or UnboundLocalError for the annotation of a function   *)
(* without arguments: the check of a return annotation looks at that of    *)
(* the last argument instead, and S18 is never reported.                   *)
LintCrashes(s) ==
    \/ IsDef(s) /\ "called" \in Elements(s.decorators)
    \/ Exports(s) /\ \E a \in Elements(s.args) : a.annotation = "subscript"
    \/ Exports(s) /\ s.returns /\ (s.args = <<>> \/ LastOf(s.args).annotation = None)
    \/ IsAssign(s) /\ s.value = "call of call"

VisitCrashes(s) ==
    \/ IsDef(s) /\ s.decorators # <<>> /\ LastOf(s.decorators) = "called"
    \/ IsAssign(s) /\ s.value = "call of call"
    \/ IsOrm(s) /\ s.target # "name"

(* Mutant: any decorator will do.                                          *)
DefFlawsAnyDecorator(s, constructed) ==
    (IF Len(s.decorators) > 1 THEN {"S10"} ELSE {}) \cup
    (IF Constructs(s) /\ (constructed \/ ConstructsTwice(s)) THEN {"S9"} ELSE {})

(* visit_FunctionDef, visit_Assign and the other visitors of the Linter.   *)
DefFlaws(s, constructed) ==
    (IF Len(s.decorators) > 1 THEN {"S10"} ELSE {}) \cup
    (IF Elements(s.decorators) \subseteq {"export", "construct"} THEN {} ELSE {"S8"}) \cup
    (IF Constructs(s) /\ (constructed \/ ConstructsTwice(s)) THEN {"S9"} ELSE {})

(* Mutant: the keywords of an ORM definition are not looked at.            *)
AssignFlawsAnyKeyword(s) ==
    (IF s.value = "class" THEN {"S14"} ELSE {}) \cup
    (IF IsOrm(s) /\ s.target = "tuple" THEN {"S12"} ELSE {})

AssignFlaws(s) ==
    (IF s.value = "class" THEN {"S14"} ELSE {}) \cup
    (IF s.value = "orm" /\ s.overloaded THEN {"S11"} ELSE {}) \cup
    (IF IsOrm(s) /\ s.target = "tuple" THEN {"S12"} ELSE {})

FlawsOf(s, constructed) ==
    s.flaws \cup (IF IsDef(s) THEN DefFlaws(s, constructed)
                  ELSE IF IsAssign(s) THEN AssignFlaws(s) ELSE {})

At(triggers, i) == triggers \X {i}

ArgsAt(s, i) == IF IsDef(s) THEN {<<a.name, i>> : a \in Elements(s.args)} ELSE {}
TypesAt(s, i) == IF Exports(s) THEN {<<a.annotation, i>> : a \in Elements(s.args)} ELSE {}
OrmNamesOf(s) == IF IsOrm(s) /\ s.target = "name" THEN {s.name} ELSE {}

Visited(l, s, i) ==
    [violations |-> l.violations \cup At(FlawsOf(s, l.constructor_visited), i),
     is_one_export |-> l.is_one_export \/ Exports(s),
     constructor_visited |-> l.constructor_visited \/ Constructs(s),
     orm_names |-> l.orm_names \cup OrmNamesOf(s),
     visited_args |-> l.visited_args \cup ArgsAt(s, i),
     arg_types |-> l.arg_types \cup TypesAt(s, i)]

(* Mutant: an argument needs no annotation.                                *)
FinalChecksUnannotated(l) ==
    l.violations
      \cup {<<"S15", a[2]>> : a \in {b \in l.visited_args : b[1] \in l.orm_names}}
      \cup (IF l.is_one_export THEN {} ELSE {<<"S13", 0>>})
      \cup {<<"S16", t[2]>> : t \in {a \in l.arg_types : a[1] \notin {None, "allowed"}}}

(* Mutant: what concerns no line is reported at line -1.                   *)
FinalChecksBelowZero(l) ==
    l.violations
      \cup {<<"S15", a[2]>> : a \in {b \in l.visited_args : b[1] \in l.orm_names}}
      \cup (IF l.is_one_export THEN {} ELSE {<<"S13", -1>>})
      \cup {<<"S17", t[2]>> : t \in {a \in l.arg_types : a[1] = None}}
      \cup {<<"S16", t[2]>> : t \in {a \in l.arg_types : a[1] \notin {None, "allowed"}}}

FinalChecks(l) ==
    l.violations
      \cup {<<"S15", a[2]>> : a \in {b \in l.visited_args : b[1] \in l.orm_names}}
      \cup (IF l.is_one_export THEN {} ELSE {<<"S13", 0>>})
      \cup {<<"S17", t[2]>> : t \in {a \in l.arg_types : a[1] = None}}
      \cup {<<"S16", t[2]>> : t \in {a \in l.arg_types : a[1] \notin {None, "allowed"}}}

-----------------------------------------------------------------------------
Crashes(c, lint) ==
    \E i \in DOMAIN c : VisitCrashes(c[i]) \/ (lint /\ LintCrashes(c[i]))

(* What the first n statements of a contract give, read off all of them at *)
(* once, and with it the verdict that the contract deserves.               *)
Gathered(c, n) ==
    [violations |-> UNION {At(FlawsOf(c[i], \E j \in 1..(i - 1) : Constructs(c[j])), i) : i \in 1..n},
     is_one_export |-> \E i \in 1..n : Exports(c[i]),
     constructor_visited |-> \E i \in 1..n : Constructs(c[i]),
     orm_names |-> UNION {OrmNamesOf(c[i]) : i \in 1..n},
     visited_args |-> UNION {ArgsAt(c[i], i) : i \in 1..n},
     arg_types |-> UNION {TypesAt(c[i], i) : i \in 1..n}]

Violations(c) == FinalChecks(Gathered(c, Len(c)))

WillCompile(c, lint) == ~Crashes(c, lint) /\ (lint => Violations(c) = {})

(* client.lint, client.compile, and Contract.submit with its new compiler. *)
Start(by, c, lint) ==
    /\ phase = "idle"
    /\ lint \/ (by = "client" /\ May("unlinted"))
    /\ by = "client" => May("careless") \/ WillCompile(c, lint)
    /\ job' = [by |-> by, contract |-> c, lint |-> lint]
    /\ compilers' = IF by = "submission" THEN [compilers EXCEPT ![by] = FreshCompiler] ELSE compilers
    /\ phase' = IF lint THEN "linting" ELSE "visiting"
    /\ line' = 1
    /\ tree' = <<>>
    /\ result' = NoResult

(* Mutant: check() does not call _reset().                                 *)
BeginUnreset(by, c, lint) == Start(by, c, lint) /\ UNCHANGED linter

Begin(by, c, lint) ==
    /\ Start(by, c, lint)
    /\ linter' = IF lint THEN FreshLinter ELSE linter

AtEnd == line > Len(job.contract)
Here == job.contract[line]

(* What an exception leaves of the statement it came from does not matter  *)
(* to a Linter that is reset.                                              *)
LintStatement ==
    /\ phase = "linting" /\ ~AtEnd
    /\ IF LintCrashes(Here)
       THEN /\ phase' = "idle"
            /\ result' = [outcome |-> "crash", alerts |-> {}]
            /\ UNCHANGED <<linter, line>>
       ELSE /\ linter' = Visited(linter, Here, line)
            /\ line' = line + 1
            /\ UNCHANGED <<phase, result>>
    /\ UNCHANGED <<compilers, job, tree>>

Checked ==
    /\ phase = "linting" /\ AtEnd
    /\ linter' = [linter EXCEPT !.violations = FinalChecks(linter)]
    /\ IF job.by = "lint"
       THEN /\ phase' = "idle"
            /\ result' = [outcome |-> "linted", alerts |-> FinalChecks(linter)]
            /\ UNCHANGED <<compilers, line>>
       ELSE /\ phase' = "visiting"
            /\ compilers' = [compilers EXCEPT ![job.by].lint_alerts = FinalChecks(linter)]
            /\ line' = 1
            /\ UNCHANGED result
    /\ UNCHANGED <<job, tree>>

-----------------------------------------------------------------------------
(* The transformer runs whether the linter was content or not.             *)

Private(s) == IsDef(s) /\ s.decorators = <<>>

NameOf(s) ==
    IF Private(s) THEN Privatize[s.name]
    ELSE IF IsDef(s) /\ LastOf(s.decorators) = "construct" THEN InitName
    ELSE s.name

(* The keywords contract and name are added to those that are there.       *)
Transformed(s) ==
    [kind |-> s.kind, name |-> NameOf(s), uses |-> [u \in s.uses |-> u], args |-> s.args, value |-> s.value,
     exported |-> IsDef(s) /\ s.decorators # <<>> /\ LastOf(s.decorators) = "export",
     keywords |-> IF IsOrm(s) THEN (IF s.overloaded THEN 2 ELSE 1) ELSE 0]

VisitStatement ==
    /\ phase = "visiting" /\ ~AtEnd
    /\ IF VisitCrashes(Here)
       THEN /\ phase' = "idle"
            /\ result' = [outcome |-> "crash", alerts |-> {}]
            /\ UNCHANGED <<compilers, line, tree>>
       ELSE /\ compilers' = [compilers EXCEPT
                 ![job.by].private_names = @ \cup (IF Private(Here) THEN {Here.name} ELSE {}),
                 ![job.by].orm_names = @ \cup OrmNamesOf(Here)]
            /\ tree' = Append(tree, Transformed(Here))
            /\ line' = line + 1
            /\ UNCHANGED <<phase, result>>
    /\ UNCHANGED <<linter, job>>

(* Every Name of the tree was visited; the names of functions and of their *)
(* arguments are none.                                                     *)
Rename(t, names) ==
    LET renamed(n) == IF n \in names THEN Privatize[n] ELSE n
    IN  [i \in DOMAIN t |->
           [t[i] EXCEPT !.uses = [u \in DOMAIN @ |-> renamed(u)],
                        !.name = IF t[i].kind = "assign" THEN renamed(@) ELSE @]]

(* Mutant: the names gathered for one contract stay for the next.          *)
CompiledWithoutReset ==
    LET comp == compilers[job.by]
    IN  /\ phase = "visiting" /\ AtEnd
        /\ phase' = "idle"
        /\ IF comp.lint_alerts # {}
           THEN result' = [outcome |-> "alerts", alerts |-> comp.lint_alerts] /\ UNCHANGED tree
           ELSE /\ result' = [outcome |-> "code", alerts |-> {}]
                /\ tree' = Rename(tree, comp.private_names \cup comp.orm_names)
        /\ UNCHANGED <<linter, compilers, job, line>>

(* The names are forgotten only when there is code.                        *)
Compiled ==
    LET comp == compilers[job.by]
    IN  /\ phase = "visiting" /\ AtEnd
        /\ phase' = "idle"
        /\ IF comp.lint_alerts # {}
           THEN /\ result' = [outcome |-> "alerts", alerts |-> comp.lint_alerts]
                /\ UNCHANGED <<compilers, tree>>
           ELSE /\ result' = [outcome |-> "code", alerts |-> {}]
                /\ tree' = Rename(tree, comp.private_names \cup comp.orm_names)
                /\ compilers' = [compilers EXCEPT ![job.by].private_names = {},
                                                  ![job.by].orm_names = {}]
        /\ UNCHANGED <<linter, job, line>>

-----------------------------------------------------------------------------
(* What contracting/compilation/parser.py tells of the code of a contract. *)

(* methods_for_contract: the functions whose names do not begin with "__". *)
Methods(t) == {i \in DOMAIN t : IsDef(t[i]) /\ t[i].name \in Names}

MethodsRaise(t) == \E i \in Methods(t) : \E a \in Elements(t[i].args) : a.annotation = None

(* variables_for_contract: lstrip() takes the underscores off again.       *)
Spelled(n) == IF n \in Names THEN n ELSE CHOOSE m \in Names : Privatize[m] = n

BeforeFunctions(t) == {i \in DOMAIN t : \A j \in 1..i : ~IsDef(t[j])}

Variables(t) == {Spelled(t[i].name) : i \in {j \in BeforeFunctions(t) : t[j].value = "orm"}}

VariablesRaise(t) ==
    \E i \in BeforeFunctions(t) : t[i].value \in {"call of call", "call of attribute"}

-----------------------------------------------------------------------------
(* importlib of contracting/stdlib/bridge/imports.py, by which a contract  *)
(* asks whether another one has what it needs: a Func, private or not, or  *)
(* a Var of some class of ORM objects.                                     *)

ArgNames(s) == [i \in DOMAIN s.args |-> s.args[i].name]
IsDatum(s) == IsAssign(s) /\ s.value \in {"orm", "foreign"}

WantedName(w) == IF w.kind = "function" THEN w.name ELSE Privatize[w.name]

(* vars(m).get: what was bound last.                                       *)
Implemented(t, w) ==
    LET bound == {i \in DOMAIN t : (IsDef(t[i]) \/ IsAssign(t[i])) /\ t[i].name = WantedName(w)}
    IN  {t[i] : i \in {j \in bound : \A k \in bound : k <= j}}

(* Mutant: the arguments of a function are not compared.                   *)
IsOfAnyArguments(s, w) ==
    /\ IsDef(s) => w.kind \in {"function", "private"}
    /\ IsDatum(s) => s.value = w.kind

(* Func.is_of and Var.is_of, which are not asked about other values.       *)
IsOf(s, w) ==
    /\ IsDef(s) => w.kind \in {"function", "private"} /\ ArgNames(s) = w.args
    /\ IsDatum(s) => s.value = w.kind

(* Func.is_of looks for the closure of an ORM object.                      *)
EnforceRaises(t, w) ==
    w.kind \in {"function", "private"} /\ \E s \in Implemented(t, w) : IsDatum(s)

EnforceInterface(t, w) == \E s \in Implemented(t, w) : IsOf(s, w)

-----------------------------------------------------------------------------
Next ==
    \/ \E by \in Owners \cup {"lint"}, c \in Contracts, lint \in BOOLEAN : Begin(by, c, lint)
    \/ LintStatement
    \/ Checked
    \/ VisitStatement
    \/ Compiled

Spec == Init /\ [][Next]_vars
-----------------------------------------------------------------------------
LinterState ==
    [violations : SUBSET (Triggers \X Nat), is_one_export : BOOLEAN,
     constructor_visited : BOOLEAN, orm_names : SUBSET Names,
     visited_args : SUBSET (Names \X Nat), arg_types : SUBSET (Annotations \X Nat)]

CompilerState ==
    [lint_alerts : SUBSET (Triggers \X Nat), private_names : SUBSET Names,
     orm_names : SUBSET Names]

TypeOK ==
    /\ linter \in LinterState
    /\ compilers \in [Owners -> CompilerState]
    /\ job \in [by : Owners \cup {"lint"}, contract : Contracts \cup {<<>>}, lint : BOOLEAN]
    /\ phase \in {"idle", "linting", "visiting"}
    /\ line \in 1..(Len(job.contract) + 1)
    /\ Len(tree) <= Len(job.contract)
    /\ result \in [outcome : {"none", "crash", "linted", "alerts", "code"},
                   alerts : SUBSET (Triggers \X Nat)]

(* The verdict on a contract is its own: it depends on no contract checked *)
(* before, nor on a check that an exception ended half-way.                *)
VerdictIsItsOwn ==
    /\ result.outcome \in {"linted", "alerts"} => result.alerts = Violations(job.contract)
    /\ result.outcome = "code" /\ job.lint => Violations(job.contract) = {}

Accepted == result.outcome = "code" /\ job.lint

(* What a name in the body of function i means: an argument, or whatever   *)
(* the statements in the set define under it.                              *)
Meaning(c, i, n, definers) ==
    IF \E a \in Elements(c[i].args) : a.name = n THEN <<"argument", {}>>
    ELSE <<"global", definers>>

(* The linter compares arguments with the names of ORM objects only, and   *)
(* the names of functions with no others, so that a contract may spell two *)
(* things alike of which the compiler renames one.                         *)
HidesArgument(c, i, n) ==
    /\ \E a \in Elements(c[i].args) : a.name = n
    /\ \E j \in DOMAIN c : Private(c[j]) /\ c[j].name = n

HidesExport(c, n) ==
    /\ \E j \in DOMAIN c : Exports(c[j]) /\ c[j].name = n
    /\ \E j \in DOMAIN c : (Private(c[j]) \/ IsOrm(c[j])) /\ c[j].name = n

(* Renaming keeps the meaning of every name in a contract that the linter  *)
(* accepts, unless the name is spelled alike for something that is not     *)
(* renamed, and except that nothing refers to the constructor any more.    *)
BindingsKept ==
    LET c == job.contract
        before(i, u) == Meaning(c, i, u, {j \in DOMAIN c : c[j].kind \in {"def", "assign"}
                                            /\ ~Constructs(c[j]) /\ c[j].name = u})
        after(i, n) == Meaning(c, i, n, {j \in DOMAIN tree : tree[j].kind \in {"def", "assign"}
                                            /\ tree[j].name = n})
    IN  Accepted =>
          \A i \in DOMAIN c : IsDef(c[i]) =>
            \A u \in c[i].uses :
              ~HidesArgument(c, i, u) /\ ~HidesExport(c, u) => after(i, tree[i].uses[u]) = before(i, u)

(* What is violated: only what is private is renamed (compiler.py 33), so  *)
(* that a function that reads its argument still reads it.                 *)
ArgumentsAreRead ==
    Accepted =>
      \A i \in DOMAIN tree : IsDef(tree[i]) =>
        \A a \in Elements(tree[i].args) : a.name \in DOMAIN tree[i].uses => tree[i].uses[a.name] = a.name

(* A function of an accepted contract is exported, or private by its name, *)
(* or the constructor, of which there is one at most.                      *)
ExportedOrPrivate ==
    Accepted =>
      /\ \A i \in DOMAIN tree : tree[i].kind = "def" =>
           \/ tree[i].exported
           \/ tree[i].name = InitName
           \/ \E n \in Names : tree[i].name = Privatize[n]
      /\ \A i, j \in DOMAIN tree :
           tree[i].name = InitName /\ tree[j].name = InitName => i = j

(* The ORM objects that an accepted contract writes are stored under its   *)
(* own name: the keyword that says so is there once.                       *)
StoredUnderOwnName ==
    Accepted => \A i \in DOMAIN tree : tree[i].value = "orm" => tree[i].keywords = 1

(* What is violated: no ORM assignment of an accepted contract, of foreign *)
(* objects either, overloads the keywords (whitelists.py 52).              *)
NoKeywordTwice ==
    Accepted => \A i \in DOMAIN tree : tree[i].keywords <= 1

(* What the parser tells of the stored code of an accepted contract is its *)
(* interface: the exported functions, all of whose arguments it can read,  *)
(* and, unless it raises, names that the source gives to ORM objects, all  *)
(* of those above the first function among them.                           *)
ParserTellsTheInterface ==
    Accepted =>
      LET c == job.contract
          orm(i) == IsOrm(c[i]) /\ c[i].value = "orm"
      IN  /\ Methods(tree) = {i \in DOMAIN tree : tree[i].exported}
          /\ ~MethodsRaise(tree)
          /\ ~VariablesRaise(tree) =>
               /\ Variables(tree) \subseteq {c[i].name : i \in {j \in DOMAIN c : orm(j)}}
               /\ \A i \in DOMAIN c : orm(i) /\ (\A j \in 1..i : ~IsDef(c[j])) => c[i].name \in Variables(tree)

(* A contract that is asked by importlib has what its source says, and     *)
(* only that: exported functions under their names, private ones and ORM   *)
(* objects under those they were renamed to, with the arguments they take. *)
(* Any other value passes for whatever is asked for.                       *)
InterfaceIsEnforced ==
    Accepted =>
      \A kind \in {"function", "private", "orm", "foreign"}, n \in Names :
        LET c == job.contract
            named == {i \in DOMAIN c : (IsDef(c[i]) \/ IsAssign(c[i])) /\ c[i].name = n}
            has(i, args) ==
              \/ kind = "function" /\ Exports(c[i]) /\ ArgNames(c[i]) = args
              \/ kind = "private" /\ Private(c[i]) /\ ArgNames(c[i]) = args
              \/ IsOrm(c[i]) /\ c[i].value = kind
        IN  \A args \in {ArgNames(c[i]) : i \in {j \in DOMAIN c : IsDef(c[j])}} \cup {<<>>} :
              LET w == [kind |-> kind, name |-> n, args |-> args]
              IN  ~EnforceRaises(tree, w) =>
                    /\ EnforceInterface(tree, w) =>
                         \E i \in named : has(i, args) \/ (IsAssign(c[i]) /\ ~IsOrm(c[i]))
                    /\ (\E i \in named : named = {i} /\ has(i, args)) => EnforceInterface(tree, w)

(* What compiles is well formed: exported, private or the constructor, and *)
(* stored under its own name.                                              *)
CompilerInv == TypeOK /\ ExportedOrPrivate /\ StoredUnderOwnName

(* Both ways to ask what a contract offers, the parser and importlib, find *)
(* under the names that the compiler made what the source has.             *)
InterfaceIsFound == ParserTellsTheInterface /\ InterfaceIsEnforced
=============================================================================
