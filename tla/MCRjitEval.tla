------------------------------ MODULE MCRjitEval ------------------------------
EXTENDS RjitEval

CONSTANTS v1, v2

MCValues == {v1, v2}

\* capacity 0 is the zero-initialised global stack_; 2 and 3 stand for an
\* initialisation done outside interpreter.c.
MCInitCaps == {0, 2, 3}

MaxLen == 4

StateBound == length <= MaxLen
=============================================================================
