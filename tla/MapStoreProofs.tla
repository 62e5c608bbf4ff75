--------------------------- MODULE MapStoreProofs ---------------------------
(***************************************************************************)
(* Theorems about MapStore, for every set of derivations.                  *)
(*                                                                         *)
(* Put stores a derivation first and computes its replacement after that.  *)
(* That the computation cannot fail any more, and leave the one map        *)
(* without the other, is lemma ReplacedInputsExist.                        *)
(* Kept adds that every replacement stored is the one Hash gives, for a    *)
(* Hash that solves the equations of the replacements (Solves).            *)
(***************************************************************************)
EXTENDS MapStore, DerivationProofs, TLAPS

IInv == TypeOK /\ ReplacementsComplete
-----------------------------------------------------------------------------
LEMMA InitInv == Init => IInv
BY NoKeys DEF Init, Nobody, IInv, TypeOK, ReplacementsComplete

LEMMA AcceptedInv ==
  ASSUME IInv, NEW d \in Derivations, PutAccepted(d)
  PROVE  IInv' /\ answer'.result = "path"
<1>1. DOMAIN d.inputs \subseteq DOMAIN drvReplacements
  BY DEF IInv, ReplacementsComplete, PutAccepted, HasInputs
<1>2. DrvReplacements(d, drvReplacements) # {}
  BY <1>1, DrvReplacementsExist
<1>3. PICK r : drvReplacements' = With(drvReplacements, DrvPath(d), r)
  BY <1>2 DEF PutAccepted
<1>4. answer' = [drv |-> {d}, result |-> "path"]
  BY <1>2 DEF PutAccepted
<1>5. /\ DOMAIN drvs' = DOMAIN drvs \cup {DrvPath(d)} /\ drvs'[DrvPath(d)] = d
      /\ \A p \in DOMAIN drvs : p # DrvPath(d) => drvs'[p] = drvs[p]
      /\ DOMAIN drvReplacements' = DOMAIN drvReplacements \cup {DrvPath(d)}
  BY <1>3 DEF PutAccepted, With
<1>6. TypeOK'
  BY <1>4, <1>5 DEF IInv, TypeOK
<1>7. ReplacementsComplete'
  BY <1>1, <1>5 DEF IInv, ReplacementsComplete
<1>. QED  BY <1>4, <1>6, <1>7 DEF IInv

LEMMA RefusedInv ==
  ASSUME IInv, NEW d \in Derivations, PutRefused(d)
  PROVE  IInv'
BY DEF IInv, TypeOK, ReplacementsComplete, PutRefused

LEMMA PanicsInv ==
  ASSUME IInv, NEW d \in Derivations, PutPanics(d)
  PROVE  IInv'
BY DEF IInv, TypeOK, ReplacementsComplete, PutPanics

LEMMA StutterInv == IInv /\ UNCHANGED vars => IInv'
BY DEF IInv, TypeOK, ReplacementsComplete, vars
-----------------------------------------------------------------------------
\* The inductive invariant holds of every reachable state.
THEOREM Invariance == Spec => []IInv
<1>1. IInv /\ [Next]_vars => IInv'
  BY AcceptedInv, RefusedInv, PanicsInv, StutterInv DEF Next
<1>. QED  BY InitInv, <1>1, PTL DEF Spec

\* Only derivations are stored, each at its own path.
THEOREM TypeCorrect == Spec => []TypeOK
<1>1. IInv => TypeOK
  BY DEF IInv
<1>. QED  BY Invariance, <1>1, PTL

\* The two maps go together: the replacement of whatever is stored, and of
\* whatever it refers to, is there.
THEOREM MapsGoTogether == Spec => []ReplacementsComplete
<1>1. IInv => ReplacementsComplete
  BY DEF IInv
<1>. QED  BY Invariance, <1>1, PTL

\* A Put at a path that is taken leaves there a derivation of the same text.
LEMMA OverwritesSameText ==
  ASSUME IInv, [Next]_vars, NEW p \in DOMAIN drvs
  PROVE  /\ p \in DOMAIN drvs' /\ drvs'[p] \in Derivations
         /\ ATerm(drvs'[p]) = ATerm(drvs[p])
<1>1. drvs[p] \in Derivations /\ DrvPath(drvs[p]) = p
  BY DEF IInv, TypeOK
<1>2. CASE UNCHANGED drvs
  BY <1>1, <1>2
<1>3. ASSUME NEW d \in Derivations, PutAccepted(d)
      PROVE  /\ p \in DOMAIN drvs' /\ drvs'[p] \in Derivations
             /\ ATerm(drvs'[p]) = ATerm(drvs[p])
  <2>1. drvs' = With(drvs, DrvPath(d), d)
    BY <1>3 DEF PutAccepted
  <2>2. CASE DrvPath(d) = p
    <3>1. p \in DOMAIN drvs' /\ drvs'[p] = d
      BY <2>1, <2>2 DEF With
    <3>2. ATerm(d) = ATerm(drvs[p])
      BY <1>1, <2>2, DrvPathTellsText
    <3>. QED  BY <3>1, <3>2
  <2>3. CASE DrvPath(d) # p
    <3>1. p \in DOMAIN drvs' /\ drvs'[p] = drvs[p]
      BY <2>1, <2>3 DEF With
    <3>. QED  BY <1>1, <3>1
  <2>. QED  BY <2>2, <2>3
<1>. QED  BY <1>2, <1>3 DEF Next, PutRefused, PutPanics, vars

-----------------------------------------------------------------------------
(* The paths are right, where Hash has the replacements of whole trees.    *)
(* Put never walks a tree: it looks at what it kept of the inputs.  Kept   *)
(* says that this is what the walk would give; it is inductive only with   *)
(* IInv, by which everything below an input was Put before.                *)

Kept == PartOf(drvReplacements, Hash)

\* A derivation with all its inputs in the store is one that Hash covers, and
\* is computed as Hash has it.
LEMMA ComputedByHash ==
  ASSUME IInv, Kept, NEW d \in Derivations, HasInputs(d)
  PROVE  /\ DOMAIN d.inputs \subseteq DOMAIN Hash
         /\ DrvReplacements(d, drvReplacements) = DrvReplacements(d, Hash)
         /\ MayMatch(d, drvReplacements) <=> MayMatch(d, Hash)
         /\ MayDiffer(d, drvReplacements) <=> MayDiffer(d, Hash)
<1>1. DOMAIN d.inputs \subseteq DOMAIN drvReplacements
  BY DEF IInv, ReplacementsComplete, HasInputs
<1>2. IsDerivation(d)
  BY DerivationsAssumption
<1>. QED  BY <1>1, <1>2, ComputedAlike DEF Kept, PartOf

\* What Put keeps of d.
LEMMA AcceptedKeeps ==
  ASSUME Solves(Hash, Derivations), IInv, Kept, NEW d \in Derivations, PutAccepted(d)
  PROVE  /\ d \in AllRight
         /\ DrvPath(d) \in DOMAIN Hash
         /\ drvReplacements' = With(drvReplacements, DrvPath(d), Hash[DrvPath(d)])
<1>1. Validate(d) /\ HasInputs(d) /\ MayMatch(d, drvReplacements)
  BY DEF PutAccepted
<1>2. DOMAIN d.inputs \subseteq DOMAIN Hash /\ MayMatch(d, Hash)
      /\ DrvReplacements(d, drvReplacements) = DrvReplacements(d, Hash)
  BY <1>1, ComputedByHash
<1>3. d \in AllRight
  BY <1>1, <1>2 DEF AllRight, RightBy
<1>4. DrvPath(d) \in DOMAIN Hash /\ DrvReplacements(d, Hash) = {Hash[DrvPath(d)]}
  BY <1>2, SolvedOnce
<1>5. drvReplacements' \in {With(drvReplacements, DrvPath(d), r) : r \in {Hash[DrvPath(d)]}}
  BY <1>2, <1>4 DEF PutAccepted
<1>. QED  BY <1>3, <1>4, <1>5

LEMMA KeptInv ==
  ASSUME Solves(Hash, Derivations), IInv, Kept, [Next]_vars
  PROVE  Kept'
<1>1. CASE UNCHANGED drvReplacements
  BY <1>1 DEF Kept, PartOf
<1>2. ASSUME NEW d \in Derivations, PutAccepted(d)
      PROVE  Kept'
  <2>1. DrvPath(d) \in DOMAIN Hash
        /\ drvReplacements' = With(drvReplacements, DrvPath(d), Hash[DrvPath(d)])
    BY <1>2, AcceptedKeeps
  <2>. QED  BY <2>1 DEF Kept, PartOf, With
<1>. QED  BY <1>1, <1>2 DEF Next, PutRefused, PutPanics, vars

\* Every replacement that is kept is that of the whole tree.
THEOREM KeptInvariance ==
  ASSUME Solves(Hash, Derivations)
  PROVE  Spec => [](IInv /\ Kept)
<1>1. Init => Kept
  BY NoKeys DEF Init, Kept, PartOf
<1>2. IInv /\ Kept /\ [Next]_vars => Kept'
  BY KeptInv
<1>. QED  BY Invariance, <1>1, <1>2, PTL DEF Spec

\* The replacement of a path that is taken never changes.
LEMMA OverwritesSameReplacement ==
  ASSUME Solves(Hash, Derivations), IInv, Kept, [Next]_vars, NEW p \in DOMAIN drvs
  PROVE  drvReplacements'[p] = drvReplacements[p]
<1>1. p \in DOMAIN drvReplacements
  BY DEF IInv, ReplacementsComplete
<1>2. CASE UNCHANGED drvReplacements
  BY <1>2
<1>3. ASSUME NEW d \in Derivations, PutAccepted(d)
      PROVE  drvReplacements'[p] = drvReplacements[p]
  BY <1>1, <1>3, AcceptedKeeps DEF Kept, PartOf, With
<1>. QED  BY <1>2, <1>3 DEF Next, PutRefused, PutPanics, vars

\* "We might already have one in here, and overwrite it.  But as it's fully
\* validated, it'll be the same": the text of what is stored at a path never
\* changes, and neither does its replacement.  It may be another derivation:
\* one text may split into arguments in several ways.
THEOREM OverwritesKeepText ==
  ASSUME Solves(Hash, Derivations)
  PROVE  Spec => [][\A p \in DOMAIN drvs :
                      /\ p \in DOMAIN drvs'
                      /\ ATerm(drvs'[p]) = ATerm(drvs[p])
                      /\ drvReplacements'[p] = drvReplacements[p]]_vars
<1>1. IInv /\ Kept /\ [Next]_vars
        => [\A p \in DOMAIN drvs :
              /\ p \in DOMAIN drvs'
              /\ ATerm(drvs'[p]) = ATerm(drvs[p])
              /\ drvReplacements'[p] = drvReplacements[p]]_vars
  BY OverwritesSameText, OverwritesSameReplacement
<1>. QED  BY KeptInvariance, <1>1, PTL DEF Spec

\* No two derivations have one text.
TextsTell == \A d, e \in Derivations : ATerm(d) = ATerm(e) => d = e

\* Among derivations that their texts tell apart, as those are of which no
\* argument holds a quote, it is the same in everything: nothing that is
\* known of a path changes, neither the derivation nor its replacement.
THEOREM OverwritesKeepAll ==
  ASSUME Solves(Hash, Derivations), TextsTell
  PROVE  Spec => OverwriteIsSame
<1>1. IInv /\ Kept /\ [Next]_vars
        => [\A p \in DOMAIN drvs :
              p \in DOMAIN drvs' /\ drvs'[p] = drvs[p] /\ drvReplacements'[p] = drvReplacements[p]]_vars
  <2>. SUFFICES ASSUME IInv, Kept, [Next]_vars, NEW p \in DOMAIN drvs
                PROVE  /\ p \in DOMAIN drvs' /\ drvs'[p] = drvs[p]
                       /\ drvReplacements'[p] = drvReplacements[p]
    OBVIOUS
  <2>1. drvs[p] \in Derivations
    BY DEF IInv, TypeOK
  <2>2. /\ p \in DOMAIN drvs' /\ drvs'[p] \in Derivations
        /\ ATerm(drvs'[p]) = ATerm(drvs[p])
    BY OverwritesSameText
  <2>3. drvs'[p] = drvs[p]
    BY <2>1, <2>2 DEF TextsTell
  <2>. QED  BY <2>2, <2>3, OverwritesSameReplacement
<1>. QED  BY KeptInvariance, <1>1, PTL DEF Spec, OverwriteIsSame

\* Put takes every derivation that is right and whose inputs have been Put.
THEOREM RightIsTaken ==
  ASSUME Solves(Hash, Derivations)
  PROVE  Spec => []GoodAccepted
<1>1. Init => GoodAccepted
  BY DEF Init, Nobody, GoodAccepted
<1>2. IInv /\ Kept /\ GoodAccepted /\ [Next]_vars => GoodAccepted'
  <2>. SUFFICES ASSUME IInv, Kept, GoodAccepted, [Next]_vars PROVE GoodAccepted'
    OBVIOUS
  <2>1. CASE UNCHANGED vars
    BY <2>1 DEF vars, GoodAccepted, HasInputs
  <2>2. ASSUME NEW d \in Derivations, PutAccepted(d)
        PROVE  GoodAccepted'
    <3>1. answer'.result = "path"
      BY <2>2, AcceptedInv
    <3>. QED  BY <3>1 DEF GoodAccepted
  <2>3. ASSUME NEW d \in Derivations, PutRefused(d) \/ PutPanics(d)
        PROVE  GoodAccepted'
    <3>1. answer'.drv = {d} /\ UNCHANGED drvs
      BY <2>3 DEF PutRefused, PutPanics
    <3>2. ~ (d \in AllRight /\ HasInputs(d))
      <4>. SUFFICES ASSUME d \in AllRight, HasInputs(d) PROVE FALSE
        OBVIOUS
      <4>1. Validate(d) /\ MayMatch(d, Hash) /\ ~ MayDiffer(d, Hash)
        BY RightNeverDiffers DEF AllRight, RightBy
      <4>2. ~ Unnamed(d)
        BY <4>1 DEF MayMatch
      <4>3. ~ MayDiffer(d, drvReplacements)
        BY <4>1, ComputedByHash
      <4>. QED  BY <2>3, <4>1, <4>2, <4>3 DEF PutRefused, PutPanics
    <3>. QED  BY <3>1, <3>2 DEF GoodAccepted, HasInputs
  <2>. QED  BY <2>1, <2>2, <2>3 DEF Next
<1>. QED  BY KeptInvariance, <1>1, <1>2, PTL DEF Spec
-----------------------------------------------------------------------------
(* The store as its interface promises it.                                 *)

\* What the store of the interface computes of a derivation is computed here.
LEMMA StoreAlike ==
  ASSUME NEW d
  PROVE  Store!DrvPath(d) = DrvPath(d) /\ Store!ATerm(d) = ATerm(d)
BY DEF Store!DrvPath, DrvPath, Store!ATerm, ATerm

LEMMA StorePaths == Store!Paths = DOMAIN drvs
<1>1. \A s \in Texts : s[1] \in DOMAIN drvs
  BY DEF Texts
<1>2. ASSUME NEW p \in DOMAIN drvs
      PROVE  p \in Store!Paths
  <2>1. <<p, ATerm(drvs[p])>> \in Texts /\ <<p, ATerm(drvs[p])>>[1] = p
    BY DEF Texts
  <2>. QED  BY <2>1 DEF Store!Paths
<1>. QED  BY <1>1, <1>2 DEF Store!Paths

LEMMA StoreValidate == ASSUME NEW d, Validate(d) PROVE Store!Validate(d)
BY Zenon DEF Validate, Store!Validate, IsFixed, Store!IsFixed, IsStorePath, Store!IsStorePath,
             Invalid, Store!Invalid, NoName, Store!NoName

\* Every step inserts one derivation whose paths are those that the whole
\* tree gives, behind all its inputs, or changes nothing.
THEOREM MapIsStore ==
  ASSUME Solves(Hash, Derivations)
  PROVE  Spec => ImplementsStore
<1>1. Init => Store!Init
  BY NoKeys DEF Init, Store!Init, Texts
<1>2. IInv /\ Kept /\ [Next]_vars => [Store!Next]_Texts
  <2>. SUFFICES ASSUME IInv, Kept, [Next]_vars, drvs' # drvs PROVE Store!Next
    BY DEF Texts
  <2>1. PICK d \in Derivations : PutAccepted(d)
    BY DEF Next, PutRefused, PutPanics, vars
  <2>2. Validate(d) /\ DOMAIN d.inputs \subseteq DOMAIN drvs /\ drvs' = With(drvs, DrvPath(d), d)
    BY <2>1 DEF PutAccepted, HasInputs
  <2>3. d \in AllRight
    BY <2>1, AcceptedKeeps
  <2>4. Texts' = Texts \cup {<<DrvPath(d), ATerm(d)>>}
    <3>1. /\ DOMAIN drvs' = DOMAIN drvs \cup {DrvPath(d)} /\ drvs'[DrvPath(d)] = d
          /\ \A p \in DOMAIN drvs : p # DrvPath(d) => drvs'[p] = drvs[p]
      BY <2>2 DEF With
    <3>2. DrvPath(d) \in DOMAIN drvs => ATerm(drvs[DrvPath(d)]) = ATerm(d)
      BY DrvPathTellsText DEF IInv, TypeOK
    <3>3. \A p \in DOMAIN drvs : ATerm(drvs'[p]) = ATerm(drvs[p])
      BY <3>1, <3>2
    <3>4. Texts' = {<<p, ATerm(drvs'[p])>> : p \in DOMAIN drvs \cup {DrvPath(d)}}
      BY <3>1 DEF Texts
    <3>5. {<<p, ATerm(drvs'[p])>> : p \in DOMAIN drvs} = Texts
      BY <3>3 DEF Texts
    <3>. QED  BY <3>1, <3>4, <3>5
  <2>5. Store!Insert(d)
    BY <2>2, <2>3, <2>4, StorePaths, StoreAlike, StoreValidate DEF Store!Insert
  <2>. QED  BY <2>5 DEF Store!Next
<1>. QED  BY KeptInvariance, <1>1, <1>2, PTL DEF Spec, ImplementsStore, Store!Spec
=============================================================================
