-------------------------- MODULE BadgerStoreProofs --------------------------
(***************************************************************************)
(* Theorems about BadgerStore, for every set of derivations and any number *)
(* of workers.                                                             *)
(*                                                                         *)
(* KeysTogether is not inductive: Put writes a derivation on the word of   *)
(* lookups that it made earlier, in other transactions.  LookedUp says     *)
(* that these stay true, whoever writes in between.                        *)
(* Kept adds that every replacement stored or read is the one Hash gives.  *)
(***************************************************************************)
EXTENDS BadgerStore, DerivationProofs, TLAPS

Functions ==
  /\ pc \in [Workers -> {"idle", "has", "write"}]
  /\ putting \in [Workers -> SUBSET Derivations]
  /\ missing = [w \in Workers |-> missing[w]]
  /\ read = [w \in Workers |-> read[w]]
  /\ answer \in [Workers -> {"none", "path", "error"}]

LookedUp(w) ==
  pc[w] # "idle" =>
    \E d \in Derivations :
      /\ putting[w] = {d} /\ Validate(d)
      /\ missing[w] \subseteq DOMAIN d.inputs /\ DOMAIN read[w] \subseteq DOMAIN d.inputs
      /\ DOMAIN d.inputs \subseteq missing[w] \cup DOMAIN drv
      /\ pc[w] = "write" => missing[w] = {}

Stored ==
  /\ \A p \in DOMAIN drv : \E d \in Derivations : drv[p] = ATerm(d) /\ DrvPath(d) = p
  /\ acknowledged \subseteq Derivations

IInv ==
  /\ Functions
  /\ \A w \in Workers : LookedUp(w)
  /\ Stored
  /\ KeysTogether
  /\ AcknowledgedStays
-----------------------------------------------------------------------------
(* One step of the store. *)

LEMMA InitInv == Init => IInv
BY NoKeys DEF Init, IInv, Functions, LookedUp, Stored, KeysTogether, AcknowledgedStays

LEMMA StopFunctions ==
  ASSUME Functions, NEW w \in Workers, NEW result \in {"path", "error"}, Stop(w, result),
         UNCHANGED putting
  PROVE  /\ Functions' /\ pc'[w] = "idle"
         /\ \A v \in Workers : v # w =>
              UNCHANGED <<pc[v], putting[v], missing[v], read[v]>>
BY DEF Functions, Stop

\* A step of one worker leaves the lookups of the others true, as long as no
\* key goes away.
LEMMA OthersLookedUp ==
  ASSUME \A v \in Workers : LookedUp(v), NEW w \in Workers, LookedUp(w)',
         DOMAIN drv \subseteq DOMAIN drv',
         \A v \in Workers : v # w => UNCHANGED <<pc[v], putting[v], missing[v], read[v]>>
  PROVE  \A v \in Workers : LookedUp(v)'
<1>. SUFFICES ASSUME NEW v \in Workers, v # w PROVE LookedUp(v)'
  OBVIOUS
<1>1. UNCHANGED <<pc[v], putting[v], missing[v], read[v]>> /\ LookedUp(v)
  OBVIOUS
<1>. QED  BY <1>1 DEF LookedUp

LEMMA SameStore ==
  ASSUME Stored, KeysTogether, AcknowledgedStays, UNCHANGED <<drv, replacement, acknowledged>>
  PROVE  Stored' /\ KeysTogether' /\ AcknowledgedStays'
BY DEF Stored, KeysTogether, AcknowledgedStays

LEMMA PutInv ==
  ASSUME IInv, NEW w \in Workers, NEW d \in Derivations, Put(w, d)
  PROVE  IInv'
<1>1. CASE Validate(d)
  <2>1. /\ pc' = [pc EXCEPT ![w] = "has"] /\ putting' = [putting EXCEPT ![w] = {d}]
        /\ missing' = [missing EXCEPT ![w] = DOMAIN d.inputs]
        /\ read' = [read EXCEPT ![w] = NoReplacements] /\ answer' = [answer EXCEPT ![w] = "none"]
    BY <1>1 DEF Put
  <2>2. Functions'
    BY <2>1 DEF IInv, Functions
  <2>3. LookedUp(w)'
    <3>1. pc'[w] = "has" /\ putting'[w] = {d} /\ missing'[w] = DOMAIN d.inputs
          /\ read'[w] = NoReplacements
      BY <2>1 DEF IInv, Functions
    <3>. QED  BY <1>1, <3>1, NoKeys DEF LookedUp
  <2>4. \A v \in Workers : v # w => UNCHANGED <<pc[v], putting[v], missing[v], read[v]>>
    BY <2>1 DEF IInv, Functions
  <2>. QED  BY <2>2, <2>3, <2>4, OthersLookedUp, SameStore DEF IInv, Put, db
<1>2. CASE ~ Validate(d)
  <2>1. Stop(w, "error") /\ putting' = [putting EXCEPT ![w] = {d}]
    BY <1>2 DEF Put
  <2>2. Functions' /\ pc'[w] = "idle"
    BY <2>1 DEF IInv, Functions, Stop
  <2>3. LookedUp(w)'
    BY <2>2 DEF LookedUp
  <2>4. \A v \in Workers : v # w => UNCHANGED <<pc[v], putting[v], missing[v], read[v]>>
    BY <2>1 DEF IInv, Functions, Stop
  <2>. QED  BY <2>2, <2>3, <2>4, OthersLookedUp, SameStore DEF IInv, Put, db
<1>. QED  BY <1>1, <1>2

\* A worker that ends its Put without a write.
LEMMA StopInv ==
  ASSUME IInv, NEW w \in Workers, Stop(w, "error"), UNCHANGED <<drv, replacement, putting, acknowledged>>
  PROVE  IInv'
<1>1. Functions' /\ pc'[w] = "idle"
      /\ \A v \in Workers : v # w => UNCHANGED <<pc[v], putting[v], missing[v], read[v]>>
  BY StopFunctions DEF IInv
<1>2. LookedUp(w)'
  BY <1>1 DEF LookedUp
<1>. QED  BY <1>1, <1>2, OthersLookedUp, SameStore DEF IInv

LEMMA HasInv ==
  ASSUME IInv, NEW w \in Workers, Has(w)
  PROVE  IInv'
<1>1. UNCHANGED <<drv, replacement, putting, acknowledged>> /\ pc[w] = "has"
  BY DEF Has, db
<1>2. CASE Stop(w, "error")
  BY <1>1, <1>2, StopInv
<1>3. ASSUME NEW p \in missing[w], p \in DOMAIN drv,
             missing' = [missing EXCEPT ![w] = @ \ {p}], UNCHANGED <<pc, read, answer>>
      PROVE  IInv'
  <2>1. Functions' /\ missing'[w] = missing[w] \ {p}
        /\ \A v \in Workers : v # w => UNCHANGED <<pc[v], putting[v], missing[v], read[v]>>
    BY <1>1, <1>3 DEF IInv, Functions
  <2>2. LookedUp(w)'
    BY <1>1, <1>3, <2>1 DEF IInv, LookedUp
  <2>. QED  BY <1>1, <2>1, <2>2, OthersLookedUp, SameStore DEF IInv
<1>. QED  BY <1>2, <1>3 DEF Has

LEMMA ReadReplacementsInv ==
  ASSUME IInv, NEW w \in Workers, ReadReplacements(w)
  PROVE  IInv'
<1>1. UNCHANGED <<drv, replacement, putting, acknowledged>> /\ pc[w] = "has" /\ missing[w] = {}
  BY DEF ReadReplacements, db
<1>2. CASE Stop(w, "error")
  BY <1>1, <1>2, StopInv
<1>3. ASSUME NEW d \in putting[w], NEW r, DOMAIN r \subseteq DOMAIN d.inputs,
             pc' = [pc EXCEPT ![w] = "write"], read' = [read EXCEPT ![w] = r],
             UNCHANGED <<missing, answer>>
      PROVE  IInv'
  <2>1. Functions' /\ pc'[w] = "write" /\ read'[w] = r
        /\ \A v \in Workers : v # w => UNCHANGED <<pc[v], putting[v], missing[v], read[v]>>
    BY <1>1, <1>3 DEF IInv, Functions
  <2>2. LookedUp(w)'
    BY <1>1, <1>3, <2>1 DEF IInv, LookedUp
  <2>. QED  BY <1>1, <2>1, <2>2, OthersLookedUp, SameStore DEF IInv
<1>4. \/ Stop(w, "error")
      \/ \E d \in putting[w] : \E r :
           /\ DOMAIN r \subseteq DOMAIN d.inputs
           /\ pc' = [pc EXCEPT ![w] = "write"] /\ read' = [read EXCEPT ![w] = r]
           /\ UNCHANGED <<missing, answer>>
  BY NoKeys DEF ReadReplacements, CheckOutputPaths
<1>. QED  BY <1>2, <1>3, <1>4

LEMMA WriteInv ==
  ASSUME IInv, NEW w \in Workers, Write(w)
  PROVE  IInv'
<1>1. pc[w] = "write" /\ UNCHANGED putting
  BY DEF Write
<1>2. CASE Stop(w, "error") /\ UNCHANGED <<db, acknowledged>>
  BY <1>1, <1>2, StopInv DEF db
<1>3. ASSUME NEW d \in putting[w], NEW r, drv' = With(drv, DrvPath(d), ATerm(d)),
             replacement' = With(replacement, DrvPath(d), r), Stop(w, "path"),
             acknowledged' = acknowledged \cup {d}
      PROVE  IInv'
  <2>1. d \in Derivations /\ DOMAIN d.inputs \subseteq DOMAIN drv
    BY <1>1 DEF IInv, LookedUp
  <2>2. /\ DOMAIN drv' = DOMAIN drv \cup {DrvPath(d)} /\ drv'[DrvPath(d)] = ATerm(d)
        /\ \A p \in DOMAIN drv : p # DrvPath(d) => drv'[p] = drv[p]
        /\ DOMAIN replacement' = DOMAIN replacement \cup {DrvPath(d)}
    BY <1>3 DEF With
  <2>3. Functions' /\ pc'[w] = "idle"
        /\ \A v \in Workers : v # w => UNCHANGED <<pc[v], putting[v], missing[v], read[v]>>
    BY <1>1, <1>3, StopFunctions DEF IInv
  <2>4. LookedUp(w)'
    BY <2>3 DEF LookedUp
  <2>5. \A v \in Workers : LookedUp(v)'
    BY <2>2, <2>3, <2>4, OthersLookedUp DEF IInv
  <2>6. Stored'
    BY <1>3, <2>1, <2>2 DEF IInv, Stored
  <2>7. KeysTogether'
    <3>1. InputsOf(drv'[DrvPath(d)]) = DOMAIN d.inputs
      BY <2>2, TextTellsInputs
    <3>2. \A p \in DOMAIN drv' : InputsOf(drv'[p]) \subseteq DOMAIN drv
      BY <2>1, <2>2, <3>1 DEF IInv, KeysTogether
    <3>. QED  BY <2>2, <3>2 DEF IInv, KeysTogether
  <2>8. AcknowledgedStays'
    BY <1>3, <2>2 DEF IInv, AcknowledgedStays
  <2>. QED  BY <2>3, <2>5, <2>6, <2>7, <2>8 DEF IInv
<1>. QED  BY <1>2, <1>3 DEF Write

LEMMA CrashInv == IInv /\ Crash => IInv'
<1>. SUFFICES ASSUME IInv, Crash PROVE IInv'
  OBVIOUS
<1>1. Functions' /\ (\A w \in Workers : LookedUp(w)')
  BY DEF Crash, Functions, LookedUp
<1>. QED  BY <1>1, SameStore DEF IInv, Crash, db

LEMMA StutterInv == IInv /\ UNCHANGED vars => IInv'
<1>. SUFFICES ASSUME IInv, UNCHANGED vars PROVE IInv'
  OBVIOUS
<1>1. Functions' /\ (\A w \in Workers : LookedUp(w)')
  BY DEF IInv, Functions, LookedUp, vars
<1>. QED  BY <1>1, SameStore DEF IInv, vars
-----------------------------------------------------------------------------
\* The inductive invariant holds of every reachable state.
THEOREM Invariance == Spec => []IInv
<1>1. IInv /\ [Next]_vars => IInv'
  BY PutInv, HasInv, ReadReplacementsInv, WriteInv, CrashInv, StutterInv DEF Next
<1>. QED  BY InitInv, <1>1, PTL DEF Spec

\* Only derivations are stored, each at its own path.
THEOREM TypeCorrect == Spec => []TypeOK
<1>1. IInv => TypeOK
  BY DEF IInv, Functions, LookedUp, Stored, TypeOK
<1>. QED  BY Invariance, <1>1, PTL

\* The two keys of a derivation, and those of all its inputs, go together
\* for any number of concurrent Puts and any crashes.
THEOREM KeysGoTogether == Spec => []KeysTogether
<1>1. IInv => KeysTogether
  BY DEF IInv
<1>. QED  BY Invariance, <1>1, PTL

\* What Put has acknowledged is never lost.
THEOREM Durability == Spec => []AcknowledgedStays
<1>1. IInv => AcknowledgedStays
  BY DEF IInv
<1>. QED  BY Invariance, <1>1, PTL
-----------------------------------------------------------------------------
(* One write inserts one derivation behind its inputs.  Grown is the store *)
(* of the interface with every derivation for right, mirrors included.     *)

Grown == INSTANCE DrvStore WITH Right <- Derivations, stored <- {<<p, drv[p]>> : p \in DOMAIN drv}

\* What is stored, as Grown and the store of the interface have it.
Texts == {<<p, drv[p]>> : p \in DOMAIN drv}

LEMMA GrownPaths == Grown!Paths = DOMAIN drv
<1>1. \A s \in Texts : s[1] \in DOMAIN drv
  BY DEF Texts
<1>2. ASSUME NEW p \in DOMAIN drv
      PROVE  p \in Grown!Paths
  <2>1. <<p, drv[p]>> \in Texts /\ <<p, drv[p]>>[1] = p
    BY DEF Texts
  <2>. QED  BY <2>1 DEF Grown!Paths, Texts
<1>. QED  BY <1>1, <1>2 DEF Grown!Paths, Texts

LEMMA GrownAlike ==
  ASSUME NEW d
  PROVE  Grown!DrvPath(d) = DrvPath(d) /\ Grown!ATerm(d) = ATerm(d)
BY DEF Grown!DrvPath, DrvPath, Grown!ATerm, ATerm

LEMMA GrownValidate == ASSUME NEW d, Validate(d) PROVE Grown!Validate(d)
BY Zenon DEF Validate, Grown!Validate, IsFixed, Grown!IsFixed, IsStorePath, Grown!IsStorePath,
             Invalid, Grown!Invalid, NoName, Grown!NoName

\* The only step that changes what is stored.
LEMMA StoredOne ==
  ASSUME IInv, [Next]_vars, drv' # drv
  PROVE  \E w \in Workers : \E d \in putting[w] :
           /\ Write(w) /\ drv' = With(drv, DrvPath(d), ATerm(d))
           /\ d \in Derivations /\ Validate(d) /\ DOMAIN d.inputs \subseteq DOMAIN drv
           /\ Texts' = Texts \cup {<<DrvPath(d), ATerm(d)>>}
<1>1. PICK w \in Workers : Write(w)
  BY DEF Next, vars, Has, ReadReplacements, Put, Crash, db
<1>2. PICK d \in putting[w] : drv' = With(drv, DrvPath(d), ATerm(d))
  BY <1>1 DEF Write, db
<1>3. d \in Derivations /\ Validate(d) /\ DOMAIN d.inputs \subseteq DOMAIN drv
  BY <1>1 DEF IInv, LookedUp, Write
<1>4. Texts' = Texts \cup {<<DrvPath(d), ATerm(d)>>}
  <2>1. /\ DOMAIN drv' = DOMAIN drv \cup {DrvPath(d)} /\ drv'[DrvPath(d)] = ATerm(d)
        /\ \A p \in DOMAIN drv : p # DrvPath(d) => drv'[p] = drv[p]
    BY <1>2 DEF With
  <2>2. DrvPath(d) \in DOMAIN drv => drv[DrvPath(d)] = ATerm(d)
    BY DrvPathTellsText DEF IInv, Stored
  <2>3. \A p \in DOMAIN drv : drv'[p] = drv[p]
    BY <2>1, <2>2
  <2>4. Texts' = {<<p, drv'[p]>> : p \in DOMAIN drv \cup {DrvPath(d)}}
    BY <2>1 DEF Texts
  <2>5. {<<p, drv'[p]>> : p \in DOMAIN drv} = Texts
    BY <2>3 DEF Texts
  <2>. QED  BY <2>1, <2>4, <2>5
<1>. QED  BY <1>1, <1>2, <1>3, <1>4

\* Whatever the workers do and wherever a crash comes, the database changes
\* by nothing but the insertion of one valid derivation behind its inputs.
THEOREM GrowsOneByOne == Spec => Grown!Spec
<1>1. Init => Grown!Init
  BY NoKeys DEF Init, Grown!Init
<1>2. IInv /\ [Next]_vars => [Grown!Next]_{<<p, drv[p]>> : p \in DOMAIN drv}
  <2>. SUFFICES ASSUME IInv, [Next]_vars, drv' # drv PROVE Grown!Next
    OBVIOUS
  <2>1. PICK w \in Workers : \E d \in putting[w] :
          /\ d \in Derivations /\ Validate(d) /\ DOMAIN d.inputs \subseteq DOMAIN drv
          /\ Texts' = Texts \cup {<<DrvPath(d), ATerm(d)>>}
    BY StoredOne
  <2>2. PICK d \in putting[w] :
          /\ d \in Derivations /\ Validate(d) /\ DOMAIN d.inputs \subseteq DOMAIN drv
          /\ Texts' = Texts \cup {<<DrvPath(d), ATerm(d)>>}
    BY <2>1
  <2>3. Grown!Insert(d)
    BY <2>2, GrownPaths, GrownAlike, GrownValidate DEF Grown!Insert, Texts
  <2>. QED  BY <2>2, <2>3 DEF Grown!Next
<1>. QED  BY Invariance, <1>1, <1>2, PTL DEF Spec, Grown!Spec
-----------------------------------------------------------------------------
(* The paths are right, where Hash has the replacements of whole trees:    *)
(* what is on disk is what a walk of the tree would give, and so is what a *)
(* worker has read, in another transaction than the one that writes.       *)

KeptOnDisk == PartOf(replacement, Hash)

KeptBy(w) ==
  pc[w] = "write" =>
    \A d \in putting[w] :
      /\ PartOf(read[w], Hash) /\ MayMatch(d, read[w])
      /\ DOMAIN read[w] = {} => DOMAIN d.inputs = {}

Kept == KeptOnDisk /\ \A w \in Workers : KeptBy(w)

LEMMA InputsCovered ==
  ASSUME IInv, Kept, NEW d, DOMAIN d.inputs \subseteq DOMAIN drv
  PROVE  DOMAIN d.inputs \subseteq DOMAIN Hash
BY DEF IInv, KeysTogether, Kept, KeptOnDisk, PartOf

\* A write of d, with the replacement r.
LEMMA WrittenRight ==
  ASSUME Solves(Hash, Derivations), IInv, Kept, NEW w \in Workers, pc[w] = "write",
         NEW d \in putting[w], NEW r \in DrvReplacements(d, read[w])
  PROVE  d \in AllRight /\ DrvPath(d) \in DOMAIN Hash /\ r = Hash[DrvPath(d)]
<1>1. d \in Derivations /\ Validate(d) /\ DOMAIN d.inputs \subseteq DOMAIN drv
  BY DEF IInv, LookedUp
<1>2. DOMAIN d.inputs \subseteq DOMAIN Hash
  BY <1>1, InputsCovered
<1>3. /\ PartOf(read[w], Hash) /\ MayMatch(d, read[w])
      /\ DOMAIN read[w] = {} => DOMAIN d.inputs = {}
  BY DEF Kept, KeptBy
<1>4. /\ DrvReplacements(d, read[w]) = DrvReplacements(d, Hash)
      /\ MayMatch(d, read[w]) <=> MayMatch(d, Hash)
  BY <1>1, <1>3, ComputedFromPart, DerivationsAssumption
<1>5. DrvPath(d) \in DOMAIN Hash /\ DrvReplacements(d, Hash) = {Hash[DrvPath(d)]}
  BY <1>1, <1>2, SolvedOnce
<1>. QED  BY <1>1, <1>2, <1>3, <1>4, <1>5 DEF AllRight, RightBy

\* A step of one worker leaves what the others have read as it is.
LEMMA OthersKept ==
  ASSUME \A v \in Workers : KeptBy(v), NEW w \in Workers, KeptBy(w)',
         \A v \in Workers : v # w => UNCHANGED <<pc[v], putting[v], read[v]>>
  PROVE  \A v \in Workers : KeptBy(v)'
<1>. SUFFICES ASSUME NEW v \in Workers, v # w PROVE KeptBy(v)'
  OBVIOUS
<1>1. UNCHANGED <<pc[v], putting[v], read[v]>> /\ KeptBy(v)
  OBVIOUS
<1>. QED  BY <1>1 DEF KeptBy

LEMMA StopOthers ==
  ASSUME Functions, NEW w \in Workers, NEW result, Stop(w, result)
  PROVE  /\ pc'[w] = "idle"
         /\ \A v \in Workers : v # w => UNCHANGED <<pc[v], read[v]>>
BY DEF Functions, Stop

\* A worker that is not about to write at the end of its step.
LEMMA NoWriteKept ==
  ASSUME Kept, NEW w \in Workers, pc'[w] # "write", UNCHANGED replacement,
         \A v \in Workers : v # w => UNCHANGED <<pc[v], putting[v], read[v]>>
  PROVE  Kept'
<1>1. KeptBy(w)'
  BY DEF KeptBy
<1>. QED  BY <1>1, OthersKept DEF Kept, KeptOnDisk

LEMMA PutKept ==
  ASSUME IInv, Kept, NEW w \in Workers, NEW d \in Derivations, Put(w, d)
  PROVE  Kept'
<1>1. pc'[w] # "write"
  BY DEF Put, Stop, IInv, Functions
<1>2. \A v \in Workers : v # w => UNCHANGED <<pc[v], putting[v], read[v]>>
  BY DEF Put, Stop, IInv, Functions
<1>. QED  BY <1>1, <1>2, NoWriteKept DEF Put, db

LEMMA HasKept ==
  ASSUME IInv, Kept, NEW w \in Workers, Has(w)
  PROVE  Kept'
<1>1. pc[w] = "has" /\ UNCHANGED <<drv, replacement, putting>>
  BY DEF Has, db
<1>2. CASE UNCHANGED <<pc, read>>
  BY <1>1, <1>2, NoWriteKept
<1>3. CASE Stop(w, "error")
  BY <1>1, <1>3, StopOthers, NoWriteKept DEF IInv
<1>. QED  BY <1>2, <1>3 DEF Has

LEMMA ReadReplacementsKept ==
  ASSUME IInv, Kept, NEW w \in Workers, ReadReplacements(w)
  PROVE  Kept'
<1>1. pc[w] = "has" /\ UNCHANGED <<drv, replacement, putting>>
  BY DEF ReadReplacements, db
<1>2. CASE Stop(w, "error")
  BY <1>1, <1>2, StopOthers, NoWriteKept DEF IInv
<1>3. ASSUME NEW d \in putting[w], NEW r, PartOf(r, Hash), MayMatch(d, r),
             DOMAIN r = {} => DOMAIN d.inputs = {},
             pc' = [pc EXCEPT ![w] = "write"], read' = [read EXCEPT ![w] = r]
      PROVE  Kept'
  <2>1. /\ pc'[w] = "write" /\ read'[w] = r
        /\ \A v \in Workers : v # w => UNCHANGED <<pc[v], putting[v], read[v]>>
    BY <1>1, <1>3 DEF IInv, Functions
  <2>2. putting'[w] = {d}
    BY <1>1 DEF IInv, LookedUp
  <2>3. KeptBy(w)'
    BY <1>3, <2>1, <2>2 DEF KeptBy
  <2>. QED  BY <1>1, <2>1, <2>3, OthersKept DEF Kept, KeptOnDisk
<1>4. ASSUME NEW d \in putting[w], DOMAIN d.inputs = {}, CheckOutputPaths(w, d, NoReplacements)
      PROVE  Kept'
  <2>1. PartOf(NoReplacements, Hash)
    BY NoKeys DEF PartOf
  <2>. QED  BY <1>2, <1>3, <1>4, <2>1 DEF CheckOutputPaths
<1>5. ASSUME NEW d \in putting[w], NEW p \in DOMAIN d.inputs, p \in DOMAIN replacement,
             CheckOutputPaths(w, d, [q \in {p} |-> replacement[q]])
      PROVE  Kept'
  <2>1. PartOf([q \in {p} |-> replacement[q]], Hash) /\ DOMAIN [q \in {p} |-> replacement[q]] # {}
    BY <1>5 DEF PartOf, Kept, KeptOnDisk
  <2>. QED  BY <1>2, <1>3, <1>5, <2>1 DEF CheckOutputPaths
<1>. QED  BY <1>2, <1>4, <1>5 DEF ReadReplacements

LEMMA WriteKept ==
  ASSUME Solves(Hash, Derivations), IInv, Kept, NEW w \in Workers, Write(w)
  PROVE  Kept'
<1>1. pc[w] = "write" /\ UNCHANGED putting
  BY DEF Write
<1>2. CASE Stop(w, "error") /\ UNCHANGED <<db, acknowledged>>
  BY <1>1, <1>2, StopOthers, NoWriteKept DEF IInv, db
<1>3. ASSUME NEW d \in putting[w], NEW r \in DrvReplacements(d, read[w]),
             replacement' = With(replacement, DrvPath(d), r), Stop(w, "path")
      PROVE  Kept'
  <2>1. DrvPath(d) \in DOMAIN Hash /\ r = Hash[DrvPath(d)]
    BY <1>1, <1>3, WrittenRight
  <2>2. KeptOnDisk'
    BY <1>3, <2>1 DEF Kept, KeptOnDisk, PartOf, With
  <2>3. /\ pc'[w] = "idle"
        /\ \A v \in Workers : v # w => UNCHANGED <<pc[v], putting[v], read[v]>>
    BY <1>1, <1>3, StopOthers DEF IInv
  <2>4. KeptBy(w)'
    BY <2>3 DEF KeptBy
  <2>. QED  BY <2>2, <2>3, <2>4, OthersKept DEF Kept
<1>. QED  BY <1>2, <1>3 DEF Write

LEMMA CrashKept == ASSUME Kept, Crash PROVE Kept'
BY DEF Kept, KeptOnDisk, KeptBy, Crash, db

LEMMA StutterKept == ASSUME Kept, UNCHANGED vars PROVE Kept'
<1>1. \A w \in Workers : KeptBy(w)'
  BY DEF Kept, KeptBy, vars
<1>. QED  BY <1>1 DEF Kept, KeptOnDisk, vars

\* Every replacement on disk is that of the whole tree, and every worker
\* that is about to write has read such.
THEOREM KeptInvariance ==
  ASSUME Solves(Hash, Derivations)
  PROVE  Spec => [](IInv /\ Kept)
<1>1. Init => Kept
  BY NoKeys DEF Init, Kept, KeptOnDisk, KeptBy, PartOf
<1>2. IInv /\ Kept /\ [Next]_vars => Kept'
  BY PutKept, HasKept, ReadReplacementsKept, WriteKept, CrashKept, StutterKept DEF Next
<1>. QED  BY Invariance, <1>1, <1>2, PTL DEF Spec
-----------------------------------------------------------------------------
(* The store as its interface promises it.                                 *)

LEMMA StorePaths == Store!Paths = DOMAIN drv
BY GrownPaths DEF Store!Paths, Grown!Paths

LEMMA StoreAlike ==
  ASSUME NEW d
  PROVE  Store!DrvPath(d) = DrvPath(d) /\ Store!ATerm(d) = ATerm(d)
BY DEF Store!DrvPath, DrvPath, Store!ATerm, ATerm

LEMMA StoreValidate == ASSUME NEW d, Validate(d) PROVE Store!Validate(d)
BY Zenon DEF Validate, Store!Validate, IsFixed, Store!IsFixed, IsStorePath, Store!IsStorePath,
             Invalid, Store!Invalid, NoName, Store!NoName

\* With any number of workers in any interleaving, and crashes anywhere, one
\* step inserts one derivation whose paths are those that the whole tree
\* gives, behind all its inputs, and nothing else ever changes.
THEOREM DatabaseIsStore ==
  ASSUME Solves(Hash, Derivations)
  PROVE  Spec => ImplementsStore
<1>1. Init => Store!Init
  BY NoKeys DEF Init, Store!Init
<1>2. IInv /\ Kept /\ [Next]_vars => [Store!Next]_{<<p, drv[p]>> : p \in DOMAIN drv}
  <2>. SUFFICES ASSUME IInv, Kept, [Next]_vars, drv' # drv PROVE Store!Next
    OBVIOUS
  <2>1. PICK w \in Workers : \E d \in putting[w] :
          /\ Write(w)
          /\ d \in Derivations /\ Validate(d) /\ DOMAIN d.inputs \subseteq DOMAIN drv
          /\ Texts' = Texts \cup {<<DrvPath(d), ATerm(d)>>}
    BY StoredOne
  <2>2. PICK d \in putting[w] :
          /\ Write(w)
          /\ d \in Derivations /\ Validate(d) /\ DOMAIN d.inputs \subseteq DOMAIN drv
          /\ Texts' = Texts \cup {<<DrvPath(d), ATerm(d)>>}
    BY <2>1
  <2>3. pc[w] = "write" /\ putting[w] = {d}
    BY <2>2 DEF Write, IInv, LookedUp
  <2>4. PICK r : r \in DrvReplacements(d, read[w])
    BY <2>2, <2>3 DEF Write, db
  <2>5. d \in AllRight
    BY <2>3, <2>4, WrittenRight
  <2>6. Store!Insert(d)
    BY <2>2, <2>5, StorePaths, StoreAlike, StoreValidate DEF Store!Insert, Texts
  <2>. QED  BY <2>2, <2>6 DEF Store!Next
<1>. QED  BY KeptInvariance, <1>1, <1>2, PTL DEF Spec, ImplementsStore, Store!Spec
-----------------------------------------------------------------------------
(* How far the store takes what is right.                                  *)

\* The function that reads the replacements comes back with one of them, so
\* it is enough for a derivation that needs no more.
NeedsOne(d) == Fixed(d) \/ \A p, q \in DOMAIN d.inputs : p = q

LEMMA OneNeverDiffers ==
  ASSUME Solves(Hash, Derivations), Kept, NEW d \in AllRight, NeedsOne(d),
         NEW p \in DOMAIN d.inputs, p \in DOMAIN replacement
  PROVE  ~ MayDiffer(d, [q \in {p} |-> replacement[q]])
<1>. DEFINE one == [q \in {p} |-> replacement[q]]
<1>1. ~ MayDiffer(d, Hash) /\ IsDerivation(d)
  BY RightNeverDiffers, DerivationsAssumption DEF AllRight, RightBy
<1>2. CASE Fixed(d)
  BY <1>1, <1>2, FixedAlike
<1>3. CASE \A r, q \in DOMAIN d.inputs : r = q
  <2>1. PartOf(one, Hash) /\ DOMAIN d.inputs \subseteq DOMAIN one
    BY <1>3 DEF PartOf, Kept, KeptOnDisk
  <2>. QED  BY <1>1, <2>1, ComputedAlike
<1>. QED  BY <1>2, <1>3 DEF NeedsOne

LEMMA NoneNeverDiffers ==
  ASSUME Solves(Hash, Derivations), NEW d \in AllRight, DOMAIN d.inputs = {}
  PROVE  ~ MayDiffer(d, NoReplacements)
<1>1. ~ MayDiffer(d, Hash) /\ IsDerivation(d)
  BY RightNeverDiffers, DerivationsAssumption DEF AllRight, RightBy
<1>2. PartOf(NoReplacements, Hash)
  BY NoKeys DEF PartOf
<1>. QED  BY <1>1, <1>2, ComputedAlike

\* A right derivation of one input, or of a fixed output, is refused by no
\* check of Put while all its inputs are in the store.
THEOREM OneInputPassesChecks ==
  ASSUME Solves(Hash, Derivations)
  PROVE  Spec => [][\A w \in Workers : \A d \in putting[w] :
                      (/\ pc[w] = "has" /\ pc'[w] = "idle" /\ answer'[w] = "error"
                       /\ d \in AllRight /\ NeedsOne(d))
                        => ~ (DOMAIN d.inputs \subseteq DOMAIN drv)]_vars
<1>1. IInv /\ Kept /\ [Next]_vars =>
        [\A w \in Workers : \A d \in putting[w] :
           (/\ pc[w] = "has" /\ pc'[w] = "idle" /\ answer'[w] = "error"
            /\ d \in AllRight /\ NeedsOne(d))
             => ~ (DOMAIN d.inputs \subseteq DOMAIN drv)]_vars
  <2>. SUFFICES ASSUME IInv, Kept, Next, NEW w \in Workers, NEW d \in putting[w],
                       pc[w] = "has", pc'[w] = "idle", answer'[w] = "error",
                       d \in AllRight, NeedsOne(d), DOMAIN d.inputs \subseteq DOMAIN drv
                PROVE  FALSE
    OBVIOUS
  <2>1. putting[w] = {d} /\ missing[w] \subseteq DOMAIN d.inputs
    BY DEF IInv, LookedUp
  <2>2. DOMAIN d.inputs \subseteq DOMAIN replacement
    BY DEF IInv, KeysTogether
  <2>3. CASE Has(w)
    BY <2>1, <2>3 DEF Has
  <2>4. CASE ReadReplacements(w)
    <3>1. \A r : CheckOutputPaths(w, d, r) => MayDiffer(d, r)
      BY DEF CheckOutputPaths, IInv, Functions
    <3>2. \/ DOMAIN d.inputs = {} /\ CheckOutputPaths(w, d, NoReplacements)
          \/ \E p \in DOMAIN d.inputs : CheckOutputPaths(w, d, [q \in {p} |-> replacement[q]])
      BY <2>1, <2>2, <2>4 DEF ReadReplacements
    <3>. QED  BY <2>2, <3>1, <3>2, NoneNeverDiffers, OneNeverDiffers
  <2>5. CASE Crash
    BY <2>5 DEF Crash
  <2>6. CASE Write(w) \/ \E e \in Derivations : Put(w, e)
    BY <2>6 DEF Write, Put
  <2>7. ASSUME NEW v \in Workers, v # w,
               Has(v) \/ ReadReplacements(v) \/ Write(v) \/ \E e \in Derivations : Put(v, e)
        PROVE  FALSE
    <3>1. pc'[w] = pc[w]
      BY <2>7 DEF Has, ReadReplacements, Write, Put, CheckOutputPaths, Stop, IInv, Functions
    <3>. QED  BY <3>1
  <2>. QED  BY <2>3, <2>4, <2>5, <2>6, <2>7 DEF Next
<1>. QED  BY KeptInvariance, <1>1, PTL DEF Spec
=============================================================================
