--------------------------- MODULE BadgerStoreMC ---------------------------
(***************************************************************************)
(* Instances of BadgerStore for TLC.                                       *)
(***************************************************************************)
EXTENDS BadgerStore, DrvTrees, TLC

Symmetry == Permutations(Workers)

TreeDerivations == Chain \cup Wrong \cup {Anonymous, Twin}

\* A derivation of two inputs.
SuiteDerivations == {Source, Tool, Lib, Suite}

SuiteHashes == TreeHash(SuiteDerivations)

TreeHashes == TreeHash(TreeDerivations)

\* What the walk of the trees gives solves the equations of the replacements.
ASSUME TreesSolved == WalkSolves(TreeDerivations) /\ WalkSolves(SuiteDerivations)
-----------------------------------------------------------------------------
\* "All referred derivation paths should have been Put() before": when they
\* have, and its output paths are right, no check of Put refuses a derivation.
GoodPassesChecks ==
  [][\A w \in Workers : \A d \in putting[w] :
       (/\ pc[w] = "has" /\ pc'[w] = "idle" /\ answer'[w] = "error"
        /\ d \in AllRight)
         => ~ (DOMAIN d.inputs \subseteq DOMAIN drv)]_vars
=============================================================================
