---------------------------- MODULE MCFlowRunner ----------------------------
(***************************************************************************)
(* Instances of FlowRunner for TLC: the scripts on the disk, and which of  *)
(* them are top-level flows of a run.                                      *)
(***************************************************************************)
EXTENDS FlowRunner

Req      == [op |-> "request", stream |-> FALSE]
Subscr   == [op |-> "request", stream |-> TRUE]
Resp     == [op |-> "response"]
Sub(n)   == [op |-> "run_flow", name |-> n]
Blk(b,n) == [op |-> "block", body |-> b, repeat |-> n]

\* Scripts, and the bodies of their blocks.
MCStepsOf ==
    [ ask     |-> <<Req, Resp>>,
      twice   |-> <<Req, Resp, Req, Resp>>,
      loop    |-> <<Blk("ask", 2), Req, Resp>>,
      calls   |-> <<Sub("ask"), Req, Resp>>,
      around  |-> <<Req, Sub("ask"), Blk("ask", 0), Resp>>,
      again   |-> <<Req, Blk("ask", 1), Req, Resp>>,
      holds   |-> <<Req, Resp, Blk("twice", 1), Req, Resp>>,
      inner   |-> <<Blk("calls", 1)>>,
      mute    |-> <<Req, Req>>,
      listen  |-> <<Subscr, Resp, Resp>>,
      early   |-> <<Resp>>,
      deep    |-> <<Req, Blk("deep2", 1), Resp>>,
      deep2   |-> <<Req, Blk("ask", 1), Resp>>,
      deep3   |-> <<Req, Blk("deep", 1), Resp>>,
      nested  |-> <<Sub("calls")>>,
      lost    |-> <<Sub("nowhere")>>,
      default |-> <<Blk("ask", Absent)>> ]
MCBodies  == DOMAIN MCStepsOf
MCNames   == MCBodies \cup {"broken", "nowhere", "data"}
MCDataDir == <<"data">>

\* Every script is a flow of its own name, next to one that does not convert.
\* "nowhere" is only where a subflow of a subflow would be looked for.
MCDisk == [d \in {<<"data", "flows", n>> : n \in MCBodies \cup {"broken"}} |->
              IF Last(d) = "broken" THEN Malformed ELSE Last(d)]

\* The crawler hands over its flows in the order of their names.
PairedPlans  == {<<"ask", "calls", "loop">>, <<"default", "holds">>}
MixedPlans   == {<<"around", "mute", "ask">>, <<"deep3", "loop">>, <<"ask", "broken", "mute">>,
                 <<"default", "early">>, <<"around", "listen", "lost">>, <<"nested">>,
                 <<"mute", "listen", "around">>, <<"again", "inner">>}
NestedPlans  == {<<"nested">>, <<"calls">>}
DefaultPlans == {<<"ask", "default">>}
=============================================================================
