----------------------------- MODULE BadgerStore -----------------------------
(***************************************************************************)
(* The store of derivations in a badger database (pkg/derivation/store/    *)
(* badger.go, util.go).  "The interface should be thread-safe": workers    *)
(* run Put at the same time, and each Put is several transactions, one for *)
(* every input it looks up, one that reads replacements and one that       *)
(* writes.  A crash ends every Put; what was committed is on disk.         *)
(***************************************************************************)
EXTENDS Derivation

CONSTANTS
  Derivations,  \* the derivations that may be Put
  Workers,      \* the goroutines that call Put
  Hash          \* the replacements that whole trees give, for the properties

ASSUME DerivationsAssumption == \A d \in Derivations : IsDerivation(d)

VARIABLES
  drv,           \* the keys "drv:", with the text of a derivation
  replacement,   \* the keys "replacement:"
  pc,            \* where each worker is in Put
  putting,       \* the derivation of its last Put: {} before the first one
  missing,       \* the inputs it has not looked up yet
  read,          \* drvReplacements
  answer,        \* what its last Put returned
  acknowledged   \* history: the derivations for which a Put returned their path

db == <<drv, replacement>>
vars == <<drv, replacement, pc, putting, missing, read, answer, acknowledged>>

TypeOK ==
  /\ \A p \in DOMAIN drv : \E d \in Derivations : drv[p] = ATerm(d) /\ DrvPath(d) = p
  /\ pc \in [Workers -> {"idle", "has", "write"}]
  /\ putting \in [Workers -> SUBSET Derivations]
  /\ \A w \in Workers : pc[w] # "idle" =>
       \E d \in Derivations : /\ putting[w] = {d} /\ missing[w] \subseteq DOMAIN d.inputs
                              /\ DOMAIN read[w] \subseteq DOMAIN d.inputs
  /\ answer \in [Workers -> {"none", "path", "error"}]
  /\ acknowledged \subseteq Derivations

Init ==
  /\ drv = NoReplacements /\ replacement = NoReplacements
  /\ pc = [w \in Workers |-> "idle"]
  /\ putting = [w \in Workers |-> {}]
  /\ missing = [w \in Workers |-> {}]
  /\ read = [w \in Workers |-> NoReplacements]
  /\ answer = [w \in Workers |-> "none"]
  /\ acknowledged = {}

With(map, k, v) == [p \in DOMAIN map \cup {k} |-> IF p = k THEN v ELSE map[p]]

Stop(w, result) ==
  /\ pc' = [pc EXCEPT ![w] = "idle"]
  /\ missing' = [missing EXCEPT ![w] = {}]
  /\ read' = [read EXCEPT ![w] = NoReplacements]
  /\ answer' = [answer EXCEPT ![w] = result]

\* Put is called: drv.Validate.
Put(w, d) ==
  /\ pc[w] = "idle"
  /\ putting' = [putting EXCEPT ![w] = {d}]
  /\ IF Validate(d)
     THEN /\ pc' = [pc EXCEPT ![w] = "has"]
          /\ missing' = [missing EXCEPT ![w] = DOMAIN d.inputs]
          /\ answer' = [answer EXCEPT ![w] = "none"]
          /\ read' = [read EXCEPT ![w] = NoReplacements]
     ELSE Stop(w, "error")
  /\ UNCHANGED <<db, acknowledged>>

\* Variant: Has finds every key.
HasAnything(w) ==
  /\ pc[w] = "has"
  /\ \E p \in missing[w] : missing' = [missing EXCEPT ![w] = @ \ {p}]
  /\ UNCHANGED <<db, pc, putting, read, answer, acknowledged>>

\* Has, for one more of the inputs, in any order.
Has(w) ==
  /\ pc[w] = "has"
  /\ \E p \in missing[w] :
       \/ /\ p \in DOMAIN drv
          /\ missing' = [missing EXCEPT ![w] = @ \ {p}]
          /\ UNCHANGED <<pc, read, answer>>
       \/ /\ p \notin DOMAIN drv
          /\ Stop(w, "error")
  /\ UNCHANGED <<db, putting, acknowledged>>

\* The transaction that reads the replacements: the function in it returns
\* from within its loop, with the first input it meets, in any order.  Then
\* checkOutputPaths.
CheckOutputPaths(w, d, replacements) ==
  \/ /\ MayMatch(d, replacements)
     /\ pc' = [pc EXCEPT ![w] = "write"]
     /\ read' = [read EXCEPT ![w] = replacements]
     /\ UNCHANGED <<missing, answer>>
  \/ MayDiffer(d, replacements) /\ Stop(w, "error")

ReadReplacements(w) ==
  /\ pc[w] = "has" /\ missing[w] = {}
  /\ \E d \in putting[w] :
       \/ /\ DOMAIN d.inputs = {}
          /\ CheckOutputPaths(w, d, NoReplacements)
       \/ \E p \in DOMAIN d.inputs :
            IF p \in DOMAIN replacement
            THEN CheckOutputPaths(w, d, [q \in {p} |-> replacement[q]])
            ELSE Stop(w, "error")
  /\ UNCHANGED <<db, putting, acknowledged>>

\* Variant: the derivation is stored at the path of its output.
WriteAtOutput(w) ==
  /\ pc[w] = "write"
  /\ \E d \in putting[w] :
       /\ drv' = With(drv, d.outputs["out"].path, ATerm(d))
       /\ \E r \in DrvReplacements(d, read[w]) : replacement' = With(replacement, DrvPath(d), r)
       /\ acknowledged' = acknowledged \cup {d}
  /\ Stop(w, "path")
  /\ UNCHANGED putting

\* Variant: a transaction for each key, with a crash between them.
WriteInTwo(w) ==
  /\ pc[w] = "write"
  /\ \E d \in putting[w] :
       /\ drv' = With(drv, DrvPath(d), ATerm(d))
       /\ \/ /\ \E r \in DrvReplacements(d, read[w]) : replacement' = With(replacement, DrvPath(d), r)
             /\ Stop(w, "path") /\ acknowledged' = acknowledged \cup {d}
          \/ Stop(w, "error") /\ UNCHANGED <<replacement, acknowledged>>
  /\ UNCHANGED putting

\* Variant: the result of the commit is not looked at.
WriteUnchecked(w) ==
  /\ pc[w] = "write"
  /\ \E d \in putting[w] :
       /\ acknowledged' = acknowledged \cup {d}
       /\ \/ /\ drv' = With(drv, DrvPath(d), ATerm(d))
             /\ \E r \in DrvReplacements(d, read[w]) : replacement' = With(replacement, DrvPath(d), r)
          \/ UNCHANGED db
  /\ Stop(w, "path")
  /\ UNCHANGED putting

\* The transaction that writes both keys; an error in it, of the database or
\* in computing the replacement, writes none.
Write(w) ==
  /\ pc[w] = "write"
  /\ \E d \in putting[w] :
       \/ \E r \in DrvReplacements(d, read[w]) :
            /\ drv' = With(drv, DrvPath(d), ATerm(d))
            /\ replacement' = With(replacement, DrvPath(d), r)
            /\ Stop(w, "path")
            /\ acknowledged' = acknowledged \cup {d}
       \/ Stop(w, "error") /\ UNCHANGED <<db, acknowledged>>
  /\ UNCHANGED putting

\* The process ends, from outside or in a Put that panics, and another one
\* opens the database.
Crash ==
  /\ \E w \in Workers : pc[w] # "idle"
  /\ pc' = [w \in Workers |-> "idle"]
  /\ putting' = [w \in Workers |-> {}]
  /\ missing' = [w \in Workers |-> {}]
  /\ read' = [w \in Workers |-> NoReplacements]
  /\ answer' = [w \in Workers |-> "none"]
  /\ UNCHANGED <<db, acknowledged>>

Next ==
  \/ \E w \in Workers : Has(w) \/ ReadReplacements(w) \/ Write(w)
                          \/ \E d \in Derivations : Put(w, d)
  \/ Crash

Spec == Init /\ [][Next]_vars
-----------------------------------------------------------------------------
(* Properties. *)

\* The two keys of a derivation go together, and so do those of everything
\* it refers to, whoever else writes and wherever a crash comes.
KeysTogether ==
  /\ DOMAIN replacement = DOMAIN drv
  /\ \A p \in DOMAIN drv : InputsOf(drv[p]) \subseteq DOMAIN drv

\* What Put has returned the path of can be had for ever.
AcknowledgedStays == \A d \in acknowledged : DrvPath(d) \in DOMAIN drv

AllRight == RightBy(Hash, Derivations)

Store == INSTANCE DrvStore WITH Right <- AllRight, stored <- {<<p, drv[p]>> : p \in DOMAIN drv}

\* With any interleaving of Puts and crashes the database is a store as the
\* interface promises it: one step inserts one right derivation, behind all
\* its inputs, and nothing else ever changes.
ImplementsStore == Store!Spec
=============================================================================
