----------------------------- MODULE Derivation -----------------------------
(***************************************************************************)
(* Derivations and the paths that are computed from them (pkg/derivation). *)
(*                                                                         *)
(* A hash stands for the term that is hashed, so that two hashes are equal *)
(* exactly when their inputs are.  A derivation is a record:               *)
(*   name     the value of the variable that names it, NoName if there is   *)
(*            none (of structured attributes, their name, NoName if empty)   *)
(*   outputs  output name -> [path, algo, hash], algo "" if not fixed      *)
(*   inputs   derivation path -> the set of output names that are used     *)
(*   env      the environment variables named like an output               *)
(*   rest     the text of platform, builder, arguments, sources and the    *)
(*            rest of env, "" if one of those that must be there is missing *)
(*   args     how the text of the arguments splits into them.  It does not *)
(*            tell: they are written between quotes, and unescaped, so that *)
(*            two derivations may have one text, and one path.             *)
(* Names of outputs and of variables have no quotes in them here.          *)
(***************************************************************************)
EXTENDS Integers, Sequences

IsDerivation(d) ==
  /\ d = [name |-> d.name, outputs |-> d.outputs, inputs |-> d.inputs, env |-> d.env,
          rest |-> d.rest, args |-> d.args]
  /\ d.inputs = [p \in DOMAIN d.inputs |-> d.inputs[p]]

Invalid == <<"invalid">>

\* storepath.Validate: only a path that is computed from a hash is well-formed.
IsStorePath(p) == p.digest # Invalid

NoPath == [name |-> <<>>, digest |-> Invalid]

IsFixed(o) == o.algo # ""

NoName == "none"

\* Derivation.Validate.
Validate(d) ==
  /\ DOMAIN d.outputs # {} /\ "" \notin DOMAIN d.outputs
  /\ \A n \in DOMAIN d.outputs :
       IF IsFixed(d.outputs[n]) THEN DOMAIN d.outputs = {"out"}
                                ELSE IsStorePath(d.outputs[n].path)
  /\ \A p \in DOMAIN d.inputs :
       IsStorePath(p) /\ d.inputs[p] # {} /\ "" \notin d.inputs[p]
  /\ d.rest # "" /\ d.name # NoName
-----------------------------------------------------------------------------
(* writeDerivation. *)

\* The input derivations as they are written: with their paths replaced, if
\* there are replacements at all.  Two inputs of one replacement share a key
\* of the new map, and the one that the loop over the old map, in any order,
\* meets last stays.  Each result the loop may give is in the set; it is
\* empty when a replacement is missing, an error.
ReplacedInputs(d, replacements) ==
  IF DOMAIN replacements = {} THEN {d.inputs}
  ELSE IF ~ (DOMAIN d.inputs \subseteq DOMAIN replacements) THEN {}
  ELSE LET keys == {replacements[p] : p \in DOMAIN d.inputs}
           last == {f \in [keys -> DOMAIN d.inputs] : \A k \in keys : replacements[f[k]] = k}
       IN  {[k \in keys |-> d.inputs[f[k]]] : f \in last}

\* Without the outputs: their paths and the variables named like them.
Strip(outputs) == [n \in DOMAIN outputs |-> [outputs[n] EXCEPT !.path = NoPath]]

Blank(d) == [n \in DOMAIN d.env |-> IF n \in DOMAIN d.outputs THEN NoPath ELSE d.env[n]]

ATerms(d, stripOutputs, replacements) ==
  {<<IF stripOutputs THEN Strip(d.outputs) ELSE d.outputs, inputs,
     IF stripOutputs THEN Blank(d) ELSE d.env, d.rest, d.name>> :
     inputs \in ReplacedInputs(d, replacements)}

NoReplacements == [p \in {} |-> <<>>]

\* WriteDerivation: the text, of everything but how the arguments split.
ATerm(d) == <<d.outputs, d.inputs, d.env, d.rest, d.name>>

\* The paths that a text names as inputs.
InputsOf(text) == DOMAIN text[2]
-----------------------------------------------------------------------------
(* The paths. *)

\* DrvPath: a hash over the references and the ATerm.
DrvPath(d) ==
  [name |-> <<d.name, ".drv">>, digest |-> <<"text", DOMAIN d.inputs, ATerm(d)>>]

\* Name() is "": CalculateOutputPaths panics.
Unnamed(d) == d.name \in {NoName, ""}

OutputName(d, n) == IF n = "out" THEN <<d.name>> ELSE <<d.name, n>>

\* CalculateOutputPaths, for the output n.
OutputPaths(d, n, replacements) ==
  LET o == d.outputs[n]
  IN  IF IsFixed(o)
      THEN {[name |-> OutputName(d, n), digest |-> <<"fixed", o.algo, o.hash>>]}
      ELSE {[name |-> OutputName(d, n), digest |-> <<"output", n, a>>] :
              a \in ATerms(d, TRUE, replacements)}

\* A hash in hex, which takes the place of a path.
Hex(term) == [name |-> <<>>, digest |-> term]

\* Variant: the replacement is the hash that the output paths are made of.
DrvReplacementsMasked(d, replacements) ==
  IF DOMAIN d.outputs = {"out"} /\ IsFixed(d.outputs["out"])
  THEN LET o == d.outputs["out"] IN {Hex(<<"fixed", o.algo, o.hash, o.path>>)}
  ELSE {Hex(<<"aterm", a>>) : a \in ATerms(d, TRUE, replacements)}

\* CalculateDrvReplacement.
DrvReplacements(d, replacements) ==
  IF DOMAIN d.outputs = {"out"} /\ IsFixed(d.outputs["out"])
  THEN LET o == d.outputs["out"] IN {Hex(<<"fixed", o.algo, o.hash, o.path>>)}
  ELSE {Hex(<<"aterm", a>>) : a \in ATerms(d, FALSE, replacements)}

\* checkOutputPaths: whether it may find nothing wrong, and whether it may
\* find a path that differs or fail.
MayMatch(d, replacements) ==
  /\ ~ Unnamed(d)
  /\ \A n \in DOMAIN d.outputs : d.outputs[n].path \in OutputPaths(d, n, replacements)

MayDiffer(d, replacements) ==
  /\ ~ Unnamed(d)
  /\ \E n \in DOMAIN d.outputs : OutputPaths(d, n, replacements) # {d.outputs[n].path}
-----------------------------------------------------------------------------
(* What right is: by the replacements that whole trees give, which no store *)
(* ever computes.  They are the solution of an equation for each derivation. *)

\* Hash has the replacement of every derivation of ds, computed from those
\* that it has for the inputs.  None has where two inputs of a derivation
\* share a replacement: what the code computes of it is not determined.
Solves(Hash, ds) ==
  \A d \in ds :
    /\ DrvPath(d) \in DOMAIN Hash
    /\ DOMAIN d.inputs \subseteq DOMAIN Hash => DrvReplacements(d, Hash) = {Hash[DrvPath(d)]}

RightBy(Hash, ds) ==
  {d \in ds : Validate(d) /\ DOMAIN d.inputs \subseteq DOMAIN Hash /\ MayMatch(d, Hash)}
=============================================================================
