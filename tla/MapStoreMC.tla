----------------------------- MODULE MapStoreMC -----------------------------
(***************************************************************************)
(* Instances of MapStore for TLC.                                          *)
(***************************************************************************)
EXTENDS MapStore, DrvTrees

TreeDerivations == Chain \cup Wrong \cup {Suite, Anonymous, Twin}

TreeHashes == TreeHash(TreeDerivations)

\* What the walk of the trees gives solves the equations of the replacements.
ASSUME TreesSolved == WalkSolves(TreeDerivations)

\* Of mirrors there is no solution.
NoHashes == NoReplacements
=============================================================================
