----------------------------- MODULE MCCompiler -----------------------------
EXTENDS Compiler, SequencesExt

UnderscoresBefore == [f |-> "__f", g |-> "__g", v |-> "__v", n |-> "__n"]

Base == [kind |-> "other", name |-> "f", flaws |-> {}, decorators |-> <<>>, args |-> <<>>,
         returns |-> FALSE, uses |-> {}, value |-> "other", target |-> "name", overloaded |-> FALSE]
Def(n, ds, as, us) == [Base EXCEPT !.kind = "def", !.name = n, !.decorators = ds, !.args = as, !.uses = us]
Arg(n, t) == <<[name |-> n, annotation |-> t]>>
Assign(n, v) == [Base EXCEPT !.kind = "assign", !.name = n, !.value = v]

Definitions ==
    {Assign("v", "orm"), Assign("v", "class"), Assign("v", "call of call"), Assign("v", "call of attribute"),
     [Assign("v", "orm") EXCEPT !.overloaded = TRUE],
     [Assign("v", "orm") EXCEPT !.target = "tuple"],
     [Assign("v", "foreign") EXCEPT !.target = "item"],
     [Assign("v", "foreign") EXCEPT !.overloaded = TRUE],
     [Base EXCEPT !.flaws = {"S1", "S6"}]}

Helpers ==
    {Def("f", ds, <<>>, {"v"}) : ds \in {<<>>, <<"construct">>, <<"other">>}}
      \cup {Def("f", <<"called">>, <<>>, {}), Def("f", <<"construct", "export">>, <<>>, {})}

Exports1(as) == Def("g", <<"export">>, as, {"f", "v"})
Exporting ==
    {Exports1(as) : as \in {<<>>, Arg("n", None), Arg("n", "other"), Arg("n", "subscript")}}
      \cup {[Exports1(as) EXCEPT !.returns = TRUE] : as \in {<<>>, Arg("n", "allowed")}}
      \cup {Def("g", <<"construct">>, <<>>, {"f"})}

(* An ORM object, a function for the contract itself or a constructor, and *)
(* an exported function; then each of these parts in its other forms.      *)
Sound == Assign("v", "orm")
Shadowing == Exports1(Arg("v", "allowed"))
SmallContracts ==
    {<<Sound, h, Exports1(<<>>)>> : h \in Helpers}
      \cup {<<d, Exports1(<<>>)>> : d \in Definitions}
      \cup {<<Def("f", ds, <<>>, {}), e>> : ds \in {<<>>, <<"construct">>}, e \in Exporting}
      \cup {<<Sound, Shadowing>>, <<Shadowing, Sound>>, <<Shadowing, Assign("v", "other")>>}
      \cup {<<Def("f", <<>>, Arg("v", None), {"v"}), Assign("v", "foreign"), Exports1(<<>>)>>,
            <<Def("f", <<>>, <<>>, {}), Exports1(Arg("f", "allowed"))>>,
            <<Def("g", <<>>, <<>>, {"v"}), Sound, Exports1(<<>>)>>,
            <<Exports1(<<>>)>>, <<>>}
=============================================================================
