----------------------------- MODULE MCRjitInterp -----------------------------
EXTENDS RjitInterp

CONSTANTS v1, v2

MCValues == {v1, v2}

\* capacity 0 is the zero-initialised global stack_; 2 stands for an
\* initialisation done outside interpreter.c.
MCStackCaps == {0, 2}

MaxLen == 3
MaxAdds == 2

StateBound ==
    /\ length <= MaxLen
    /\ \A p \in {"cp", "src"} : Len(added[p]) <= MaxAdds
=============================================================================
