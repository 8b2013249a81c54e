---------------------------- MODULE Environment ----------------------------
(***************************************************************************)
(* The variables of a flow: the json store that FlowRunner::run makes       *)
(* (src/src/runner.hpp) and fills from env.json, and the two ways in which  *)
(* templates get at it.  A step renders its template with the store that    *)
(* its flow was made with; the functions it may call (store, load, fetch,   *)
(* fetch_json) are lambdas that captured a store when they were registered. *)
(* Subflows and blocks are handed the environment of their parent.          *)
(*                                                                         *)
(* What a template does is left open: it is any sequence of uses of these.  *)
(* FlowRunner is the model of which steps run, Validator of what a response *)
(* is compared with.                                                       *)
(***************************************************************************)
EXTENDS Naturals, Sequences

CONSTANTS Names,      \* names of variables
          Res,        \* the variable "$res"
          LastFlow,   \* the flows of the plan are 1 .. LastFlow, in its order
          EnvJson,    \* EnvJson[f]: the variables set by the env.json of flow f, if any
          MaxValues,  \* bound: how many values come into being in a run
          MaxDepth    \* bound: nesting of subflows and blocks

Vars == Names \cup {Res}

ASSUME EnvironmentAssumption ==
    /\ LastFlow \in Nat
    /\ EnvJson \in [1 .. LastFlow -> SUBSET Vars]
    /\ MaxValues \in Nat /\ MaxDepth \in Nat

\* Where a value is from, and which of these it is: an env.json, an expression of
\* a template, a message from the server, a fetched text, the JSON in a fetched
\* text, the text of a fetch's exception.
Value == [kind : {"file", "made", "message", "body", "json", "error"}, n : Nat]
Null   == [kind |-> "null", n |-> 0]
Absent == [kind |-> "absent", n |-> 0]   \* the store has no such key
FileValue(f) == [kind |-> "file", n |-> f]
Store == [Vars -> Value \cup {Null, Absent}]

VARIABLES
    pc,        \* "between" flows, "run"ning steps, "render"ing a template, "exit"
    flow,      \* the top-level flow executed last
    heap,      \* the stores that exist; a reference to a store is an index
    captured,  \* the store the registered functions refer to
    stack,     \* per active FlowRunner::run, outermost first, the store of its steps
    made,      \* number of values that came into being
    latest,    \* ghost: the value each variable was given last in this flow
    read       \* ghost: a read's result, and what the variable was given last

vars == <<pc, flow, heap, captured, stack, made, latest, read>>

TypeOK ==
    /\ pc \in {"between", "run", "render", "exit"}
    /\ flow \in 0 .. LastFlow
    /\ heap \in Seq(Store)
    /\ stack \in Seq(DOMAIN heap)
    /\ pc \in {"run", "render"} => stack # <<>> /\ captured \in DOMAIN heap
    /\ made \in Nat
    /\ latest \in Store
    /\ read \in [val : Value \cup {Null}, want : Value \cup {Null, Absent}]

Init ==
    /\ pc = "between" /\ flow = 0
    /\ heap = <<>> /\ captured = 0 /\ stack = <<>>
    /\ made = 0 /\ latest = [x \in Vars |-> Absent]
    /\ read = [val |-> Null, want |-> Absent]

-----------------------------------------------------------------------------
\* Definitions that start with Slip are what a maintainer could have written by
\* mistake in place of the definition after them; the specification uses none.

\* FlowRunner::run(): what load_json makes of the flow's env.json, or nothing.
Loaded(f) == [x \in Vars |-> IF x \in EnvJson[f] THEN FileValue(f) ELSE Absent]

StartFlow ==
    /\ pc = "between" /\ flow < LastFlow
    /\ flow' = flow + 1 /\ pc' = "run"
    /\ heap' = <<Loaded(flow + 1)>>
    /\ captured' = 1 /\ stack' = <<1>>
    /\ latest' = Loaded(flow + 1)
    /\ UNCHANGED <<made, read>>

Exit == /\ pc = "between" /\ flow = LastFlow
        /\ pc' = "exit"
        /\ UNCHANGED <<flow, heap, captured, stack, made, latest, read>>

Top == stack[Len(stack)]

\* The environment of a subflow by value: a copy of the parent's.
SlipInherit == /\ heap' = Append(heap, heap[Top])
               /\ stack' = Append(stack, Len(heap) + 1)
\* The steps of the inner run get the references the step itself was made with.
Inherit == stack' = Append(stack, Top) /\ UNCHANGED heap

\* RunFlow::run, which does not look for an env.json of the subflow's own, and an
\* iteration of RepeatBlock::run.  The functions registered for the outermost
\* run stay in place.
InnerRun ==
    /\ pc = "run" /\ Len(stack) < MaxDepth
    /\ Inherit
    /\ UNCHANGED <<pc, flow, captured, made, latest, read>>

\* The end of a run(): the runner, and for the outermost one the store, are gone.
Return ==
    /\ pc = "run"
    /\ stack' = SubSeq(stack, 1, Len(stack) - 1)
    /\ pc' = IF Len(stack) = 1 THEN "between" ELSE "run"
    /\ UNCHANGED <<flow, heap, captured, made, latest, read>>

\* A FlowException from a step ends the whole flow: RunFlow and RepeatBlock throw
\* it on, up to the scheduler.
FlowFails == /\ pc' = "between" /\ stack' = <<>>
             /\ UNCHANGED <<flow, captured>>

\* An exception of another kind ends the process.
Dies == /\ pc = "run"
        /\ pc' = "exit" /\ stack' = <<>>
        /\ UNCHANGED <<flow, heap, captured, made, latest, read>>

-----------------------------------------------------------------------------
\* The steps that render.

Fresh(kind) == [kind |-> kind, n |-> made]
NewValue    == made < MaxValues /\ made' = made + 1

\* An assignment to a variable, through the reference r.
Put(r, x, v) == /\ heap' = [heap EXCEPT ![r][x] = v]
                /\ latest' = [latest EXCEPT ![x] = v]

\* Request::perform starts to render.
Request ==
    /\ pc = "run" /\ pc' = "render"
    /\ UNCHANGED <<flow, heap, captured, stack, made, latest, read>>

\* Response::validate puts the message under $res, then starts to render.
Response ==
    /\ pc = "run" /\ pc' = "render"
    /\ NewValue /\ Put(Top, Res, Fresh("message"))
    /\ UNCHANGED <<flow, captured, stack, read>>

Saw(x, v) == read' = [val |-> v, want |-> latest[x]]

\* {{ x }}: the renderer looks the variable up in the step's store.
Refer(x) ==
    /\ pc = "render" /\ heap[Top][x] # Absent
    /\ Saw(x, heap[Top][x])
    /\ UNCHANGED <<pc, flow, heap, captured, stack, made, latest>>

\* The const operator[], which does not insert what it does not find.
SlipLoaded(v) == v
\* store[var]: a key that is not there is inserted, with null.
LoadedValue(v) == IF v = Absent THEN Null ELSE v

\* load(x)
Load(x) ==
    /\ pc = "render"
    /\ LET v == LoadedValue(heap[captured][x]) IN
       /\ heap' = [heap EXCEPT ![captured][x] = v]
       /\ Saw(x, v)
    /\ UNCHANGED <<pc, flow, captured, stack, made, latest>>

\* store(v, x), storeAndReturn(v, x): v is what an expression made.
StoreMade(x) ==
    /\ pc = "render"
    /\ NewValue /\ Put(captured, x, Fresh("made"))
    /\ UNCHANGED <<pc, flow, captured, stack, read>>

\* store(y, x), storeAndReturn(y, x): the value of a variable under another name.
StoreCopy(y, x) ==
    /\ pc = "render" /\ heap[Top][y] # Absent
    /\ Put(captured, x, heap[Top][y])
    /\ Saw(y, heap[Top][y])
    /\ UNCHANGED <<pc, flow, captured, stack, made>>

\* OnDemandFetcher::fetch: a body, or the text of what was thrown on the way,
\* which is never empty.
Texts == {"body", "error"}

\* fetch(url, x): stores the text; an empty one leaves the variable alone.
Fetch(x) ==
    /\ pc = "render"
    /\ NewValue
    /\ \/ \E t \in Texts : Put(captured, x, Fresh(t))
       \/ UNCHANGED <<heap, latest>>
    /\ UNCHANGED <<pc, flow, captured, stack, read>>

\* fetch_json(url, x): stores the JSON in the text; a body that is none, or the
\* text of an exception, makes the template throw.
FetchJson(x) ==
    /\ pc = "render"
    /\ NewValue
    /\ \/ /\ Put(captured, x, Fresh("json"))
          /\ UNCHANGED <<pc, flow, captured, stack>>
       \/ /\ FlowFails
          /\ UNCHANGED <<heap, latest>>
       \/ UNCHANGED <<pc, flow, captured, stack, heap, latest>>
    /\ UNCHANGED read

\* The template is rendered, and the step's other business succeeds.
Rendered ==
    /\ pc = "render" /\ pc' = "run"
    /\ UNCHANGED <<flow, heap, captured, stack, made, latest, read>>

\* An assert, a variable that is not there, a result that is not JSON, a response
\* that is not as expected: what the template has stored so far stays stored.
StepFails ==
    /\ pc = "render" /\ FlowFails
    /\ UNCHANGED <<heap, made, latest, read>>

-----------------------------------------------------------------------------
Render(x) == \/ Refer(x) \/ Load(x) \/ StoreMade(x) \/ Fetch(x) \/ FetchJson(x)
             \/ \E y \in Vars : StoreCopy(y, x)

Next == \/ StartFlow \/ Exit \/ InnerRun \/ Return \/ Dies \/ Request \/ Response
        \/ Rendered \/ StepFails
        \/ \E x \in Vars : Render(x)

Spec == Init /\ [][Next]_vars

-----------------------------------------------------------------------------
\* Whatever mix of subflows, blocks and functions a flow goes through, and however
\* the flows before it ended, a read of a variable yields the value that this flow
\* gave it last (its env.json, $res, store, fetch), through whichever of the two
\* references and in whichever frame; null when this flow gave it none.
ReadsLatest == \/ read.want # Absent /\ read.val = read.want
               \/ read.want = Absent /\ read.val = Null

-----------------------------------------------------------------------------
\* What a comment says and the code does not do, checked by a run that finds the
\* counterexample.

\* connection_manager.hpp:34 "blocks, performs http connection GET and returns
\* data or throws": no variable ever holds the text of a fetch's exception.
FetchReturnsDataOrThrows ==
    \A r \in DOMAIN heap : \A x \in Vars : heap[r][x].kind # "error"
=============================================================================
