-------------------------- MODULE MCEpochScheduler --------------------------
(***************************************************************************)
(* Instances of EpochScheduler for TLC.                                    *)
(***************************************************************************)
EXTENDS EpochScheduler

Shape(p, m, e, g) == [prompt |-> p, max |-> m, eligible |-> e, grammar |-> g]

\* Every eligible request fits a row of three positions: a one-token prompt, a
\* longer one, and one with sampling that the Device does not do.
FitShapes == {Shape(1, 3, TRUE, FALSE), Shape(2, 2, TRUE, FALSE),
              Shape(2, 2, FALSE, FALSE)}

\* The same and a prompt that is longer than a resident row.
AnyShapes == FitShapes \cup {Shape(4, 2, TRUE, FALSE)}

\* Structured output: ineligible, and not schedulable until its grammar is ready.
GrammarShapes == {Shape(1, 3, TRUE, FALSE), Shape(2, 1, FALSE, TRUE)}

\* A prompt is taken whole, or one token at a time.
BothChunks == {1, 4}
WholePrompt == {4}
=============================================================================
