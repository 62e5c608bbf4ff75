-------------------------- MODULE DerivationProofs --------------------------
(***************************************************************************)
(* Lemmas about derivations and the paths that are computed from them.     *)
(***************************************************************************)
EXTENDS Derivation, TLAPS

LEMMA NoKeys == DOMAIN NoReplacements = {}
BY DEF NoReplacements

\* Where every input has a replacement, writeDerivation does not fail.
LEMMA ReplacedInputsExist ==
  ASSUME NEW d, NEW replacements, DOMAIN d.inputs \subseteq DOMAIN replacements
  PROVE  ReplacedInputs(d, replacements) # {}
<1>. DEFINE keys == {replacements[p] : p \in DOMAIN d.inputs}
            f == [k \in keys |-> CHOOSE p \in DOMAIN d.inputs : replacements[p] = k]
<1>1. \A k \in keys : f[k] \in DOMAIN d.inputs /\ replacements[f[k]] = k
  OBVIOUS
<1>. DEFINE last == {g \in [keys -> DOMAIN d.inputs] : \A k \in keys : replacements[g[k]] = k}
            results == {[k \in keys |-> d.inputs[g[k]]] : g \in last}
<1>2. f \in last
  BY <1>1
<1>3. CASE DOMAIN replacements = {}
  BY <1>3 DEF ReplacedInputs
<1>4. CASE DOMAIN replacements # {}
  <2>1. ReplacedInputs(d, replacements) = results
    BY <1>4 DEF ReplacedInputs
  <2>2. results # {}
    <3>. HIDE DEF f, last, keys
    <3>. QED  BY <1>2
  <2>. QED  BY <2>1, <2>2
<1>. QED  BY <1>3, <1>4

LEMMA DrvReplacementsExist ==
  ASSUME NEW d, NEW replacements, DOMAIN d.inputs \subseteq DOMAIN replacements
  PROVE  DrvReplacements(d, replacements) # {}
<1>1. PICK inputs : inputs \in ReplacedInputs(d, replacements)
  BY ReplacedInputsExist
<1>. QED  BY <1>1 DEF DrvReplacements, ATerms

\* A path tells the text of its derivation, and the inputs, but not more.
LEMMA DrvPathTellsText ==
  ASSUME NEW d, NEW e, DrvPath(d) = DrvPath(e)
  PROVE  ATerm(d) = ATerm(e) /\ d.inputs = e.inputs
<1>1. DrvPath(d).digest = DrvPath(e).digest
  OBVIOUS
<1>2. <<"text", DOMAIN d.inputs, ATerm(d)>> = <<"text", DOMAIN e.inputs, ATerm(e)>>
  BY <1>1 DEF DrvPath
<1>3. ATerm(d) = ATerm(e)
  BY <1>2
<1>4. d.inputs = e.inputs
  BY <1>3 DEF ATerm
<1>. QED  BY <1>3, <1>4

LEMMA TextTellsInputs == ASSUME NEW d PROVE InputsOf(ATerm(d)) = DOMAIN d.inputs
BY DEF InputsOf, ATerm

-----------------------------------------------------------------------------
(* What is computed from replacements that agree with Hash is what is      *)
(* computed from Hash.                                                     *)

\* Replacements that Hash has too.
PartOf(replacements, Hash) ==
  /\ DOMAIN replacements \subseteq DOMAIN Hash
  /\ \A p \in DOMAIN replacements : replacements[p] = Hash[p]

\* The last conjunct of IsDerivation, for a derivation without inputs.
LEMMA NoInputsReplaced ==
  ASSUME NEW d, IsDerivation(d), DOMAIN d.inputs = {}, NEW replacements
  PROVE  ReplacedInputs(d, replacements) = {d.inputs}
<1>. DEFINE keys == {replacements[p] : p \in DOMAIN d.inputs}
            last == {f \in [keys -> DOMAIN d.inputs] : \A k \in keys : replacements[f[k]] = k}
            results == {[k \in keys |-> d.inputs[f[k]]] : f \in last}
<1>1. keys = {}
  OBVIOUS
<1>2. d.inputs = [p \in DOMAIN d.inputs |-> d.inputs[p]]
  BY DEF IsDerivation
<1>3. \A f \in last : [k \in keys |-> d.inputs[f[k]]] = d.inputs
  BY <1>1, <1>2
<1>4. [k \in keys |-> k] \in last
  BY <1>1
<1>5. results = {d.inputs}
  <2>. HIDE DEF last, keys
  <2>. QED  BY <1>3, <1>4
<1>6. CASE DOMAIN replacements = {}
  BY <1>6 DEF ReplacedInputs
<1>7. CASE DOMAIN replacements # {}
  <2>1. ReplacedInputs(d, replacements) = results
    BY <1>7 DEF ReplacedInputs
  <2>. QED  BY <2>1, <1>5
<1>. QED  BY <1>6, <1>7

LEMMA ReplacedAlike ==
  ASSUME NEW d, NEW replacements, NEW Hash, IsDerivation(d),
         PartOf(replacements, Hash), DOMAIN d.inputs \subseteq DOMAIN replacements
  PROVE  ReplacedInputs(d, replacements) = ReplacedInputs(d, Hash)
<1>1. CASE DOMAIN d.inputs = {}
  BY <1>1, NoInputsReplaced
<1>2. CASE DOMAIN d.inputs # {}
  <2>1. /\ DOMAIN replacements # {} /\ DOMAIN Hash # {}
        /\ DOMAIN d.inputs \subseteq DOMAIN Hash
        /\ \A p \in DOMAIN d.inputs : replacements[p] = Hash[p]
    BY <1>2 DEF PartOf
  <2>. DEFINE keys == {replacements[p] : p \in DOMAIN d.inputs}
              keysH == {Hash[p] : p \in DOMAIN d.inputs}
              last == {f \in [keys -> DOMAIN d.inputs] : \A k \in keys : replacements[f[k]] = k}
              lastH == {f \in [keysH -> DOMAIN d.inputs] : \A k \in keysH : Hash[f[k]] = k}
  <2>2. keys = keysH
    BY <2>1
  <2>3. last = lastH
    <3>1. \A f \in [keys -> DOMAIN d.inputs] : \A k \in keys : replacements[f[k]] = Hash[f[k]]
      BY <2>1
    <3>. QED  BY <2>2, <3>1
  <2>4. {[k \in keys |-> d.inputs[f[k]]] : f \in last} = {[k \in keysH |-> d.inputs[f[k]]] : f \in lastH}
    <3>. HIDE DEF last, lastH, keys, keysH
    <3>. QED  BY <2>2, <2>3
  <2>5. ReplacedInputs(d, replacements) = {[k \in keys |-> d.inputs[f[k]]] : f \in last}
    BY <2>1 DEF ReplacedInputs
  <2>6. ReplacedInputs(d, Hash) = {[k \in keysH |-> d.inputs[f[k]]] : f \in lastH}
    BY <2>1 DEF ReplacedInputs
  <2>. QED  BY <2>4, <2>5, <2>6
<1>. QED  BY <1>1, <1>2

\* The paths and the replacement of a derivation are those that Hash gives.
LEMMA ComputedAlike ==
  ASSUME NEW d, NEW replacements, NEW Hash, IsDerivation(d),
         PartOf(replacements, Hash), DOMAIN d.inputs \subseteq DOMAIN replacements
  PROVE  /\ DrvReplacements(d, replacements) = DrvReplacements(d, Hash)
         /\ \A n \in DOMAIN d.outputs : OutputPaths(d, n, replacements) = OutputPaths(d, n, Hash)
         /\ MayMatch(d, replacements) <=> MayMatch(d, Hash)
         /\ MayDiffer(d, replacements) <=> MayDiffer(d, Hash)
<1>1. \A strip : ATerms(d, strip, replacements) = ATerms(d, strip, Hash)
  BY ReplacedAlike DEF ATerms
<1>2. DrvReplacements(d, replacements) = DrvReplacements(d, Hash)
  BY <1>1 DEF DrvReplacements
<1>3. \A n \in DOMAIN d.outputs : OutputPaths(d, n, replacements) = OutputPaths(d, n, Hash)
  BY <1>1 DEF OutputPaths
<1>. QED  BY <1>2, <1>3 DEF MayMatch, MayDiffer
-----------------------------------------------------------------------------
(* Where Hash solves the equations, what is computed is determined.        *)

\* A valid derivation of a fixed output, as DrvReplacements asks for it, and
\* one of other outputs.
LEMMA FixedOrNot ==
  ASSUME NEW d, Validate(d)
  PROVE  \/ DOMAIN d.outputs = {"out"} /\ IsFixed(d.outputs["out"])
         \/ \A n \in DOMAIN d.outputs : ~ IsFixed(d.outputs[n])
BY DEF Validate

LEMMA SolvedOnce ==
  ASSUME NEW Hash, NEW ds, Solves(Hash, ds), NEW d \in ds, DOMAIN d.inputs \subseteq DOMAIN Hash
  PROVE  DrvPath(d) \in DOMAIN Hash /\ DrvReplacements(d, Hash) = {Hash[DrvPath(d)]}
BY DEF Solves

\* The inputs of a derivation that is not fixed can be read off its
\* replacement, so there is one way to replace them.
LEMMA InputsOnce ==
  ASSUME NEW d, NEW Hash, NEW r, DrvReplacements(d, Hash) = {r},
         ~ (DOMAIN d.outputs = {"out"} /\ IsFixed(d.outputs["out"]))
  PROVE  \E inputs : ReplacedInputs(d, Hash) = {inputs}
<1>. DEFINE term(inputs) == <<d.outputs, inputs, d.env, d.rest, d.name>>
            hex(inputs) == Hex(<<"aterm", term(inputs)>>)
<1>1. DrvReplacements(d, Hash) = {hex(inputs) : inputs \in ReplacedInputs(d, Hash)}
  BY DEF DrvReplacements, ATerms
<1>2. \A i, j : hex(i) = hex(j) => i = j
  <2>. SUFFICES ASSUME NEW i, NEW j, hex(i) = hex(j) PROVE i = j
    OBVIOUS
  <2>1. hex(i).digest = hex(j).digest
    OBVIOUS
  <2>2. <<"aterm", term(i)>> = <<"aterm", term(j)>>
    BY <2>1 DEF Hex
  <2>3. term(i) = term(j)
    BY <2>2
  <2>. QED  BY <2>3
<1>. HIDE DEF hex
<1>3. PICK i \in ReplacedInputs(d, Hash) : hex(i) = r
  BY <1>1
<1>4. \A j \in ReplacedInputs(d, Hash) : hex(j) = r
  BY <1>1
<1>. QED  BY <1>2, <1>3, <1>4

\* A valid derivation has one path for each output; so if its paths may be
\* found right, they cannot be found wrong.
LEMMA OnePathEach ==
  ASSUME NEW Hash, NEW ds, Solves(Hash, ds), NEW d \in ds, Validate(d),
         DOMAIN d.inputs \subseteq DOMAIN Hash, NEW n \in DOMAIN d.outputs
  PROVE  \E path : OutputPaths(d, n, Hash) = {path}
<1>1. CASE IsFixed(d.outputs[n])
  BY <1>1 DEF OutputPaths
<1>2. CASE ~ IsFixed(d.outputs[n])
  <2>1. ~ (DOMAIN d.outputs = {"out"} /\ IsFixed(d.outputs["out"]))
    BY <1>2
  <2>2. PICK inputs : ReplacedInputs(d, Hash) = {inputs}
    BY <2>1, SolvedOnce, InputsOnce
  <2>. DEFINE term(i) == <<Strip(d.outputs), i, Blank(d), d.rest, d.name>>
  <2>3. ATerms(d, TRUE, Hash) = {term(inputs)}
    BY <2>2 DEF ATerms
  <2>. DEFINE path(a) == [name |-> OutputName(d, n), digest |-> <<"output", n, a>>]
  <2>4. OutputPaths(d, n, Hash) = {path(a) : a \in ATerms(d, TRUE, Hash)}
    BY <1>2 DEF OutputPaths
  <2>. HIDE DEF term, path
  <2>5. OutputPaths(d, n, Hash) = {path(term(inputs))}
    BY <2>3, <2>4
  <2>. QED  BY <2>5
<1>. QED  BY <1>1, <1>2

LEMMA RightNeverDiffers ==
  ASSUME NEW Hash, NEW ds, Solves(Hash, ds), NEW d \in RightBy(Hash, ds)
  PROVE  ~ MayDiffer(d, Hash)
<1>1. d \in ds /\ Validate(d) /\ DOMAIN d.inputs \subseteq DOMAIN Hash /\ MayMatch(d, Hash)
  BY DEF RightBy
<1>2. ASSUME NEW n \in DOMAIN d.outputs
      PROVE  OutputPaths(d, n, Hash) = {d.outputs[n].path}
  <2>1. d.outputs[n].path \in OutputPaths(d, n, Hash)
    BY <1>1 DEF MayMatch
  <2>2. PICK path : OutputPaths(d, n, Hash) = {path}
    BY <1>1, OnePathEach
  <2>. QED  BY <2>1, <2>2
<1>. QED  BY <1>2 DEF MayDiffer

-----------------------------------------------------------------------------
(* What is computed from some of the replacements.                         *)

Fixed(d) == DOMAIN d.outputs = {"out"} /\ IsFixed(d.outputs["out"])

\* A fixed output has its path and its replacement from its own hash alone.
LEMMA FixedAlike ==
  ASSUME NEW d, Fixed(d), NEW some, NEW others
  PROVE  /\ DrvReplacements(d, some) = DrvReplacements(d, others)
         /\ MayMatch(d, some) <=> MayMatch(d, others)
         /\ MayDiffer(d, some) <=> MayDiffer(d, others)
<1>1. DrvReplacements(d, some) = DrvReplacements(d, others)
  BY DEF Fixed, DrvReplacements
<1>2. \A n \in DOMAIN d.outputs : OutputPaths(d, n, some) = OutputPaths(d, n, others)
  BY DEF Fixed, OutputPaths
<1>. QED  BY <1>1, <1>2 DEF MayMatch, MayDiffer

\* writeDerivation fails for an input that is not among the replacements,
\* but where there are none at all.  So whatever is computed from a part of
\* the replacements is what all of them give.
LEMMA ComputedFromPart ==
  ASSUME NEW d, NEW replacements, NEW Hash, IsDerivation(d),
         PartOf(replacements, Hash),
         DOMAIN replacements = {} => DOMAIN d.inputs = {},
         DrvReplacements(d, replacements) # {}
  PROVE  /\ DrvReplacements(d, replacements) = DrvReplacements(d, Hash)
         /\ MayMatch(d, replacements) <=> MayMatch(d, Hash)
<1>1. CASE Fixed(d)
  BY <1>1, FixedAlike
<1>2. CASE ~ Fixed(d)
  <2>1. ReplacedInputs(d, replacements) # {}
    BY <1>2 DEF Fixed, DrvReplacements, ATerms
  <2>2. DOMAIN d.inputs \subseteq DOMAIN replacements
    BY <2>1 DEF ReplacedInputs
  <2>. QED  BY <2>2, ComputedAlike
<1>. QED  BY <1>1, <1>2
=============================================================================
