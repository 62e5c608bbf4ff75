------------------------------ MODULE MapStore ------------------------------
(***************************************************************************)
(* The store of derivations in two hash maps (pkg/derivation/store/map.go, *)
(* util.go).  It is not thread-safe: its operations run one at a time.     *)
(***************************************************************************)
EXTENDS Derivation

CONSTANTS
  Derivations,  \* the derivations a caller may Put
  Hash          \* the replacements that their whole trees give, for the properties

ASSUME DerivationsAssumption == \A d \in Derivations : IsDerivation(d)

VARIABLES
  drvs,             \* ms.drvs
  drvReplacements,  \* ms.drvReplacements
  answer            \* the derivation of the last Put, and what it returned

vars == <<drvs, drvReplacements, answer>>

Nobody == [drv |-> {}, result |-> "none"]

Init ==
  /\ drvs = NoReplacements
  /\ drvReplacements = NoReplacements
  /\ answer = Nobody

With(map, k, v) == [p \in DOMAIN map \cup {k} |-> IF p = k THEN v ELSE map[p]]

\* Variant: the inputs are not looked up.
HasNothing(d) == TRUE

\* Has, for every input of d.
HasInputs(d) == DOMAIN d.inputs \subseteq DOMAIN drvs

\* Variant: the replacement is only recorded for what is not fixed.
PutFixedForgotten(d) ==
  /\ Validate(d) /\ HasInputs(d) /\ MayMatch(d, drvReplacements)
  /\ drvs' = With(drvs, DrvPath(d), d)
  /\ drvReplacements' \in
       IF IsFixed(d.outputs["out"]) THEN {drvReplacements}
       ELSE {With(drvReplacements, DrvPath(d), r) : r \in DrvReplacements(d, drvReplacements)}
  /\ answer' = [drv |-> {d}, result |-> "path"]

\* Variant: the derivation is stored at the path of its output.
PutAtOutput(d) ==
  /\ Validate(d) /\ HasInputs(d) /\ MayMatch(d, drvReplacements)
  /\ drvs' = With(drvs, d.outputs["out"].path, d)
  /\ drvReplacements' \in
       {With(drvReplacements, DrvPath(d), r) : r \in DrvReplacements(d, drvReplacements)}
  /\ answer' = [drv |-> {d}, result |-> "path"]

\* Variant: the replacement is the hash that the output paths are made of.
PutMasked(d) ==
  /\ Validate(d) /\ HasInputs(d) /\ MayMatch(d, drvReplacements)
  /\ drvs' = With(drvs, DrvPath(d), d)
  /\ drvReplacements' \in
       {With(drvReplacements, DrvPath(d), r) : r \in DrvReplacementsMasked(d, drvReplacements)}
  /\ answer' = [drv |-> {d}, result |-> "path"]

\* Put, when every check passes.  The replacement is computed from the map
\* as it was, after the derivation is in; an error there leaves it in.
PutAccepted(d) ==
  /\ Validate(d) /\ HasInputs(d) /\ MayMatch(d, drvReplacements)
  /\ drvs' = With(drvs, DrvPath(d), d)
  /\ LET replacements == DrvReplacements(d, drvReplacements)
     IN  /\ drvReplacements' \in
              IF replacements = {} THEN {drvReplacements}
              ELSE {With(drvReplacements, DrvPath(d), r) : r \in replacements}
         /\ answer' = [drv |-> {d}, result |-> IF replacements = {} THEN "error" ELSE "path"]

\* Put, when a check fails.
PutRefused(d) ==
  /\ ~ Validate(d) \/ ~ HasInputs(d) \/ MayDiffer(d, drvReplacements)
  /\ answer' = [drv |-> {d}, result |-> "error"]
  /\ UNCHANGED <<drvs, drvReplacements>>

\* Put, when CalculateOutputPaths panics; the caller recovers.
PutPanics(d) ==
  /\ Validate(d) /\ HasInputs(d) /\ Unnamed(d)
  /\ answer' = [drv |-> {d}, result |-> "panic"]
  /\ UNCHANGED <<drvs, drvReplacements>>

Next == \E d \in Derivations : PutAccepted(d) \/ PutRefused(d) \/ PutPanics(d)

Spec == Init /\ [][Next]_vars
-----------------------------------------------------------------------------
(* Properties. *)

\* Only derivations are stored, each at its own path.
TypeOK ==
  /\ \A p \in DOMAIN drvs : drvs[p] \in Derivations /\ DrvPath(drvs[p]) = p
  /\ answer.drv \subseteq Derivations /\ answer.result \in {"none", "path", "error", "panic"}

\* The two maps go together: what is stored can be referred to, and the
\* replacement of everything a stored derivation refers to is known.
ReplacementsComplete ==
  /\ DOMAIN drvReplacements = DOMAIN drvs
  /\ \A p \in DOMAIN drvs : DOMAIN drvs[p].inputs \subseteq DOMAIN drvReplacements

\* "We might already have one in here, and overwrite it.  But as it's fully
\* validated, it'll be the same": what is known of a path never changes.
OverwriteIsSame ==
  [][\A p \in DOMAIN drvs :
       p \in DOMAIN drvs' /\ drvs'[p] = drvs[p] /\ drvReplacements'[p] = drvReplacements[p]]_vars

AllRight == RightBy(Hash, Derivations)

\* "All referred derivation paths should have been Put() before": a
\* derivation for which they have been, and which is right, is taken.
GoodAccepted == \A d \in answer.drv : (d \in AllRight /\ HasInputs(d)) => answer.result = "path"

Texts == {<<p, ATerm(drvs[p])>> : p \in DOMAIN drvs}

Store == INSTANCE DrvStore WITH Right <- AllRight, stored <- Texts

\* The hash map is a store as the interface promises it: it takes nothing
\* but derivations behind all their inputs and with the paths that the whole
\* tree gives, although it only ever looks at the replacements it keeps.
ImplementsStore == Store!Spec
=============================================================================
