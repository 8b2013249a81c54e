---------------------------- MODULE FlowSchedule ----------------------------
(***************************************************************************)
(* What cliot promises for a whole run (src/src/scheduler.hpp, main.cpp):  *)
(* the flows are executed one after another in the order of the plan, each *)
(* ends in exactly one report, and the process exits with success only     *)
(* when every one of them has its report.  An exception that is not a      *)
(* FlowException, or a failed assert, ends the run early.  Steps,          *)
(* subflows, blocks, connections and exceptions in flight are invisible.   *)
(***************************************************************************)
EXTENDS Naturals, Sequences

CONSTANT Plans   \* the sequences of flow names a run may be given

VARIABLES plan,     \* the flows the crawler found
          reports,  \* one record per finished flow: its name, whether it succeeded
          status    \* how the process ended

vars == <<plan, reports, status>>

Init == /\ plan \in Plans
        /\ reports = <<>>
        /\ status = "running"

\* The next flow of the plan ends in a SuccessEvent or in a FailureEvent.
Report(ok) == /\ status = "running"
              /\ Len(reports) < Len(plan)
              /\ reports' = Append(reports, [name |-> plan[Len(reports) + 1], ok |-> ok])
              /\ UNCHANGED <<plan, status>>

Succeed == /\ status = "running"
           /\ Len(reports) = Len(plan)
           /\ status' = "success"
           /\ UNCHANGED <<plan, reports>>

\* The flow being executed takes the process down with it.
GiveUp(how) == /\ status = "running"
               /\ Len(reports) < Len(plan)
               /\ status' = how
               /\ UNCHANGED <<plan, reports>>

Next == \/ \E ok \in BOOLEAN : Report(ok)
        \/ Succeed
        \/ \E how \in {"failure", "aborted"} : GiveUp(how)

Spec == Init /\ [][Next]_vars
=============================================================================
