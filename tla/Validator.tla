------------------------------ MODULE Validator ------------------------------
(***************************************************************************)
(* Validator (src/src/validation/validator.cpp) as a Response step uses it  *)
(* (src/src/flow/step/response.hpp): what was received is compared with the *)
(* document the step's template rendered to.  do_validate is recursive; its *)
(* pending calls are the sequence todo, the next one first, and one action  *)
(* is one call.                                                             *)
(*                                                                          *)
(* FlowRunner::run copies the flow's steps (runner.hpp:67) and a block makes *)
(* its steps anew for every iteration: each validation finds the validator  *)
(* that the step was made with.                                             *)
(***************************************************************************)
EXTENDS Integers, Sequences, SequencesExt

CONSTANTS KeyOrder,       \* the keys of all objects, in std::map's order
          Expectations,   \* documents a response template may render to
          Incomings,      \* documents a server may send
          ArrayFilters,   \* what atoi makes of the rest of a "$array=" string
          Depth           \* bound: how many objects deep an expectation is

Keys == ToSet(KeyOrder)

\* A document is a record with its kind; what else it has depends on the kind.
Null          == [kind |-> "null"]
Bool(b)       == [kind |-> "bool", flag |-> b]
Number(k, n)  == [kind |-> k, num |-> n]   \* k is "uint", "int" (negative) or "float"
Text(t)       == [kind |-> "string", text |-> t]
Array(items)  == [kind |-> "array", items |-> items]
Object(m)     == [kind |-> "object", members |-> m]
\* No document at all.
Missing       == [kind |-> "missing"]

Integral == {"uint", "int"}
Numeric  == Integral \cup {"float"}

\* Strings that start with a dollar sign: the filters, and one that is none.
TypeFilters == {"$bool", "$string", "$array", "$double", "$int", "$uint", "$object"}
NoFilter    == "$other"
Dollar      == TypeFilters \cup DOMAIN ArrayFilters \cup {NoFilter}

\* contains() and operator[]: only an object has members.
Member(i, key) ==
    IF i.kind = "object" /\ key \in DOMAIN i.members THEN i.members[key] ELSE Missing

\* The value at a path of a document, if there is one.
At(doc, path) ==
    LET at[n \in 0 .. Len(path)] == IF n = 0 THEN doc ELSE Member(at[n - 1], path[n])
    IN  at[Len(path)]

\* Positions that matter: the expectations are at most this deep.
Positions == UNION {[1 .. n -> Keys] : n \in 0 .. Depth}

\* A document that has a value under each of its keys and ends somewhere.
IsDocument(doc) ==
    /\ doc # Missing
    /\ \A p \in Positions : At(doc, p).kind = "object" =>
          \A k \in DOMAIN At(doc, p).members : k \in Keys /\ At(doc, p).members[k] # Missing
    /\ \A p \in [1 .. Depth + 1 -> Keys] : At(doc, p) = Missing

ASSUME ValidatorAssumption ==
    /\ KeyOrder \in Seq(Keys) /\ IsInjective(KeyOrder)
    /\ Depth \in Nat
    /\ \A e \in Expectations : IsDocument(e)
    /\ Incomings # {}

VARIABLES expected,   \* the step's expectations
          incoming,   \* what was received
          todo,       \* calls of do_validate to be made, the next one first
          issues,     \* issues_ of the copy's validator
          isValid,    \* is_valid_ of the copy's validator
          pc

vars == <<expected, incoming, todo, issues, isValid, pc>>

Types == {"NO_MATCH", "TYPE_CHECK", "NOT_EQUAL"}

TypeOK ==
    /\ expected \in Expectations /\ incoming \in Incomings
    /\ \A i \in DOMAIN todo : todo[i].path \in Seq(Keys)
    /\ issues \in Seq([type : Types, path : Seq(Keys)])
    /\ isValid \in BOOLEAN /\ pc \in {"idle", "validating", "done"}

Init ==
    /\ expected \in Expectations /\ incoming \in Incomings
    /\ todo = <<>> /\ issues = <<>> /\ isValid = TRUE
    /\ pc = "idle"

-----------------------------------------------------------------------------
\* Definitions that start with Slip are what a maintainer could have written by
\* mistake in place of the definition after them; the specification uses none.

\* nlohmann::json's operator==: numbers of different kinds compare by value.
Equal(e, i) ==
    \/ e.kind \in Numeric /\ i.kind \in Numeric /\ e.num = i.num
    \/ e.kind \notin Numeric /\ e = i

IsFilter(e) == e.kind = "string" /\ e.text \in Dollar

\* The filters; a string that is none of them is compared.
Passes(t, i) ==
    \/ t = "$bool"   /\ i.kind = "bool"
    \/ t = "$string" /\ i.kind = "string"
    \/ t = "$array"  /\ i.kind = "array"
    \/ t = "$double" /\ i.kind = "float"
    \/ t = "$int"    /\ i.kind \in Integral
    \/ t = "$uint"   /\ i.kind = "uint"
    \/ t = "$object" /\ i.kind = "object"
    \/ t \in DOMAIN ArrayFilters /\ i.kind = "array" /\ Len(i.items) = ArrayFilters[t]
    \/ t = NoFilter  /\ i = Text(t)

\* is_null() or empty(): a string or a scalar is never empty.
Unconstrained(e) ==
    \/ e = Null
    \/ e.kind = "array" /\ e.items = <<>>
    \/ e.kind = "object" /\ DOMAIN e.members = {}

\* The members of an object, in the order of items().
InOrder(D) ==
    LET ks[n \in 0 .. Len(KeyOrder)] ==
            IF n = 0 THEN <<>>
            ELSE IF KeyOrder[n] \in D THEN Append(ks[n - 1], KeyOrder[n]) ELSE ks[n - 1]
    IN  ks[Len(KeyOrder)]

Call(path, e, i) == [path |-> path, exp |-> e, inc |-> i]

\* One call per member of an object of expectations, in the order of the keys.
MemberCalls(c) ==
    LET ks == InOrder(DOMAIN c.exp.members)
    IN [n \in DOMAIN ks |->
            Call(Append(c.path, ks[n]), c.exp.members[ks[n]], Member(c.inc, ks[n]))]

\* The step's own validator, not a copy of it.
SlipFreshCopy == UNCHANGED <<issues, isValid>>
FreshCopy     == issues' = <<>> /\ isValid' = TRUE

\* An iteration reaches the step: it validates another document.
Start(i) ==
    /\ pc \in {"idle", "done"}
    /\ incoming' = i
    /\ FreshCopy
    /\ todo' = <<Call(<<>>, expected, i)>>
    /\ pc' = "validating"
    /\ UNCHANGED expected

-----------------------------------------------------------------------------
\* do_validate, by what the next call's arguments are.

Now  == Head(todo)
InCall == pc = "validating" /\ todo # <<>>
Rest == todo' = Tail(todo)
Keep == UNCHANGED <<expected, incoming, pc>>

\* The type that the steps give to failures of their own.
SlipAddIssue(type) == /\ isValid' = FALSE
                      /\ issues' = Append(issues, [type |-> "LOGIC_ERROR", path |-> Now.path])
AddIssue(type) == /\ isValid' = FALSE
                  /\ issues' = Append(issues, [type |-> type, path |-> Now.path])

\* The key of the expectation is not in the response (the caller's test, made
\* before the call and whatever the expectation is).
NotPresent ==
    /\ InCall /\ Now.inc = Missing
    /\ AddIssue("NO_MATCH") /\ Rest /\ Keep

AnythingGoes ==
    /\ InCall /\ Now.inc # Missing /\ Unconstrained(Now.exp)
    /\ Rest /\ Keep /\ UNCHANGED <<issues, isValid>>

\* Returns after the first member, as a return in the loop would.
SlipDescended == todo' = <<Head(MemberCalls(Now))>> \o Tail(todo)
Descended     == todo' = MemberCalls(Now) \o Tail(todo)

Members ==
    /\ InCall /\ Now.inc # Missing /\ ~Unconstrained(Now.exp) /\ Now.exp.kind = "object"
    /\ Descended /\ Keep /\ UNCHANGED <<issues, isValid>>

Judge(ok, type) == \/ ok /\ UNCHANGED <<issues, isValid>>
                   \/ ~ok /\ AddIssue(type)

Filter ==
    /\ InCall /\ Now.inc # Missing /\ IsFilter(Now.exp)
    /\ Judge(Passes(Now.exp.text, Now.inc), "TYPE_CHECK") /\ Rest /\ Keep

Compare ==
    /\ InCall /\ Now.inc # Missing /\ ~Unconstrained(Now.exp)
    /\ Now.exp.kind # "object" /\ ~IsFilter(Now.exp)
    /\ Judge(Equal(Now.exp, Now.inc), "NOT_EQUAL") /\ Rest /\ Keep

\* validate() returns; the step throws a FlowException with the issues, or goes on.
Return ==
    /\ pc = "validating" /\ todo = <<>>
    /\ pc' = "done"
    /\ UNCHANGED <<expected, incoming, todo, issues, isValid>>

Visit == NotPresent \/ AnythingGoes \/ Members \/ Filter \/ Compare \/ Return

Next == Visit \/ \E i \in Incomings : Start(i)

\* A call of validate() runs to its end.
Spec == Init /\ [][Next]_vars /\ WF_vars(Visit)

-----------------------------------------------------------------------------
\* What a template author is told, position by position and free of any order of
\* traversal: a position of the expectations is wrong when the response has the
\* position above it and not this one, or has a value there that is not accepted.
Accepts(e, i) == \/ Unconstrained(e)
                 \/ e.kind = "object"
                 \/ IsFilter(e) /\ Passes(e.text, i)
                 \/ e.kind # "object" /\ ~IsFilter(e) /\ Equal(e, i)
Mismatch(path) ==
    /\ At(expected, path) # Missing
    /\ path # <<>> => At(incoming, Front(path)) # Missing
    /\ \/ At(incoming, path) = Missing
       \/ ~Accepts(At(expected, path), At(incoming, path))

\* The issues of a validation are exactly the wrong positions, each once, also
\* when the step validates again and whatever the order and the nesting.
IssuesAreTheMismatches ==
    pc = "done" => /\ {issues[n].path : n \in DOMAIN issues} = {p \in Positions : Mismatch(p)}
                   /\ \A m, n \in DOMAIN issues : issues[m].path = issues[n].path => m = n

\* The verdict the step acts on: valid exactly when no position is wrong.
VerdictIsRight == pc = "done" => (isValid <=> \A p \in Positions : ~Mismatch(p))

\* A response that passes has all that the expectations have, however deep, and
\* each of their values or filters accepts what is there: a call that is not made,
\* for a member of a member, would let a wrong response through.
SpecifiedIsReceived ==
    pc = "done" /\ isValid =>
        \A p \in Positions : At(expected, p) # Missing =>
            At(incoming, p) # Missing /\ Accepts(At(expected, p), At(incoming, p))

\* README.md:179 "If an actual value is specified (other than empty object),
\* Cliot will compare by equality": a response that passes equals, at the
\* position of each value specified, that value.
ValuesAreCompared ==
    pc = "done" /\ isValid =>
        \A p \in Positions :
            LET e == At(expected, p)
            IN e.kind \notin {"missing", "null", "object"} /\ ~IsFilter(e) => Equal(e, At(incoming, p))
=============================================================================
