------------------------ MODULE MCDeoptlessDispatch ------------------------
(* Model-checking instance of DeoptlessDispatch: two continuation         *)
(* contexts, a table of capacity one so that both the full and the        *)
(* compile paths are taken, and bounds on the extra pool and the number   *)
(* of Code Generator invocations.                                         *)
EXTENDS DeoptlessDispatch

CONSTANTS x1, x2, x3

MCCtxs == {x1, x2}

\* Three contexts for the refinement run, with a table of capacity two.
MCCtxs3 == {x1, x2, x3}

\* The Code object starts with one compile-time entry (a promise).
MCInitialPool == <<Other>>

\* Bounds: extra-pool slots and compiles explored.
MaxPool == 4
MaxCompiles == 4

StateBound ==
    /\ Len(extraPool) <= MaxPool
    /\ Len(genLog) <= MaxCompiles
=============================================================================
