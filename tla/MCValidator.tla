----------------------------- MODULE MCValidator -----------------------------
(***************************************************************************)
(* Instances of Validator for TLC: documents of at most two levels.        *)
(***************************************************************************)
EXTENDS Validator

MCKeyOrder     == <<"a", "b">>
MCArrayFilters == ("$array=2" :> 2) @@ ("$array=x" :> 0)

One == Number("uint", 1)
Scalars == {Null, Bool(TRUE), One, Number("int", -1), Number("float", 1), Text("x")}
Arrays  == {Array(<<>>), Array(<<7>>), Array(<<7, 8>>)}
Empty   == Object(<<>>)

\* Objects with these values under some of the keys.
Objects(S) == UNION {{Object(m) : m \in [ks -> S]} : ks \in SUBSET {"a", "b"} \ {{}}}
Under(k, v) == Object([x \in {k} |-> v])

Wanted == Scalars \cup Arrays \cup {Empty} \cup {Text(t) : t \in Dollar}
Given  == Scalars \cup Arrays \cup {Empty, Text(NoFilter)}

\* Every value against every value, and mixed objects against mixed objects.
FlatExpectations == {Under("a", v) : v \in Wanted} \cup Wanted
DeepExpectations == Objects({One, Text("$int"), Empty, Under("b", Text("$bool"))})
MCExpectations   == FlatExpectations \cup DeepExpectations
MCIncomings ==
    {Under("a", v) : v \in Given} \cup {Empty, Text("x"), Array(<<7>>)}
        \cup Objects({One, Bool(TRUE), Under("b", Bool(TRUE)), Under("b", One)})
=============================================================================
