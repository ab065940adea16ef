----------------------------- MODULE MCInternPool -----------------------------
EXTENDS InternPool

CONSTANTS a, b, u1, u2

MCContents == {a, b}

\* Distinct contents have distinct UUIDs.
MCHash(c) == IF c = a THEN u1 ELSE u2
=============================================================================
