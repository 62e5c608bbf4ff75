------------------------------ MODULE DrvStore ------------------------------
(***************************************************************************)
(* What a derivation.Store promises (the comments of pkg/derivation/       *)
(* store.go): a growing set of derivations, each inserted at once, behind  *)
(* everything that it refers to and with the output paths that the whole   *)
(* tree below it gives.  A derivation is its path and its text there, which *)
(* is all that a path tells.                                               *)
(***************************************************************************)
EXTENDS Derivation

CONSTANTS
  Derivations,  \* the derivations that may be Put
  Right         \* those of them whose output paths are right

VARIABLE stored  \* the paths that are taken, each with the text at it

Init == stored = {}

Paths == {s[1] : s \in stored}

Insert(d) ==
  /\ d \in Right
  /\ Validate(d) /\ DOMAIN d.inputs \subseteq Paths
  /\ stored' = stored \cup {<<DrvPath(d), ATerm(d)>>}

Next == \E d \in Derivations : Insert(d)

Spec == Init /\ [][Next]_stored
=============================================================================
