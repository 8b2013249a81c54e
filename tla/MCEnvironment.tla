--------------------------- MODULE MCEnvironment ---------------------------
(***************************************************************************)
(* An instance of Environment for TLC: which flows have an env.json.       *)
(***************************************************************************)
EXTENDS Environment, TLC

\* The first flow has none.
MCEnvJson == [f \in 1 .. LastFlow |-> IF f = 1 THEN {} ELSE Names]

\* No variable but $res is special.
Symmetry == Permutations(Names)
=============================================================================
