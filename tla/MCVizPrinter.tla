------------------------------ MODULE MCVizPrinter ------------------------------
EXTENDS VizPrinter

\* vizv takes at most 16 roots; one is the same boundary with the two
\* roots explored here.
MCMaxArgs == 1
=============================================================================
