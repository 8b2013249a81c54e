------------------------- MODULE MCFlowRunnerPaired -------------------------
(***************************************************************************)
(* MCFlowRunner with scripts for which every response step reads the reply *)
(* to its own request.                                                     *)
(***************************************************************************)
EXTENDS MCFlowRunner

PairedBodies == {"ask", "twice", "loop", "calls", "holds", "default"}

ASSUME PairedAssumption == PairedBodies \subseteq Bodies /\ Paired(PairedBodies)
=============================================================================
