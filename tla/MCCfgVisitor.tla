--------------------------- MODULE MCCfgVisitor ---------------------------
(* Model-checking instance of CfgVisitor: every CFG of three blocks with  *)
(* goto, branch and exit shapes, any start block, any set of deopt exits  *)
(* and failing blocks, and one spare block for a split.                   *)
EXTENDS CfgVisitor

Cf(o, b, p, m, s) == [order |-> o, backward |-> b, pnn |-> p, mode |-> m, split |-> s]

\* The instantiations of genericRun the compiler uses: the Random order
\* under check(), forward and backward; the Lowering order; run() of
\* passes that split edges, with and without processNewNodes.
MCConfigs ==
    { Cf("Random", FALSE, FALSE, "check", FALSE),
      Cf("Random", TRUE, FALSE, "check", FALSE),
      Cf("Lowering", FALSE, FALSE, "run", FALSE),
      Cf("Depth", FALSE, TRUE, "run", TRUE),
      Cf("Random", FALSE, FALSE, "run", TRUE),
      Cf("DomTree", FALSE, FALSE, "run", FALSE) }

MCBBs == {1, 2, 3}
MCSpare == {4}

\* Four blocks for the Breadth order: a level-2 block can then be queued
\* ahead of a level-1 one.  By symmetry of the block ids the walk may
\* start at block 1 only.
MCBreadth == {Cf("Breadth", FALSE, FALSE, "run", FALSE),
              Cf("DomTree", FALSE, FALSE, "run", FALSE)}
MCBBs4 == {1, 2, 3, 4}
MCSpare4 == {}
MCStart4 == {1}
=============================================================================
