----------------------------- MODULE MCRecording -----------------------------
EXTENDS Recording

CONSTANTS c1, c2, c3, k1, k2

\* c1 and c2 are two objects of the same closure (the same content hash),
\* c3 another closure.
MCKey(c) == IF c = c3 THEN k2 ELSE k1
=============================================================================
