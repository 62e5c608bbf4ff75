------------------------------ MODULE NarInfo ------------------------------
(***************************************************************************)
(* .narinfo files (pkg/narinfo).                                           *)
(*                                                                         *)
(* A file is a sequence of lines, a line a key and a value of the kind the *)
(* key asks for: a hash as NixHash has it, a signature as Signature has    *)
(* it, a sequence of references, a number (-1 for a text that is none), or *)
(* any string.  A line that splitOnce refuses has no key.  FileHash and    *)
(* NarHash are sets of one hash, or of none for nil.                       *)
(***************************************************************************)
EXTENDS Integers, Sequences

LOCAL INSTANCE NixHash
LOCAL INSTANCE Signature

CONSTANTS
  AbsolutePaths,  \* the strings that storepath.FromAbsolutePath accepts
  BasePaths       \* the strings that storepath.FromString accepts

NewNarInfo ==
  [StorePath |-> "", URL |-> "", Compression |-> "", FileHash |-> {}, FileSize |-> 0,
   NarHash |-> {}, NarSize |-> 0, References |-> <<>>, Deriver |-> "", System |-> "",
   Signatures |-> <<>>, CA |-> ""]

\* One line of Parse.
ParseLine(n, l) ==
  CASE l.key = "blank" -> {n}
    [] l.key \in {"StorePath", "URL", "Compression", "System", "CA"} ->
         {[n EXCEPT ![l.key] = l.value]}
    [] l.key \in {"FileHash", "NarHash"} ->
         {[n EXCEPT ![l.key] = {h}] : h \in ParseAny(l.value, {})}
    [] l.key \in {"FileSize", "NarSize"} ->
         IF l.value >= 0 THEN {[n EXCEPT ![l.key] = l.value]} ELSE {}
    [] l.key = "References" -> {[n EXCEPT !.References = @ \o l.value]}
    [] l.key = "Deriver" ->
         {IF l.value = "unknown-deriver" THEN n ELSE [n EXCEPT !.Deriver = l.value]}
    [] l.key = "Sig" ->
         {[n EXCEPT !.Signatures = Append(@, s)] : s \in ParseSignature(l.value)}
    [] OTHER -> {}

\* Parse.
Parse(lines) ==
  LET upTo[i \in 0 .. Len(lines)] ==
        IF i = 0 THEN {NewNarInfo}
        ELSE UNION {ParseLine(n, lines[i]) : n \in upTo[i - 1]}
  IN  {IF n.Compression = "" THEN [n EXCEPT !.Compression = "bzip2"] ELSE n :
         n \in upTo[Len(lines)]}

Line(key, value) == [key |-> key, value |-> value]

LineOf(n, key) == Line(key, n[key])

\* A line for a string that is not empty.
Given(n, key) == IF n[key] = "" THEN <<>> ELSE <<LineOf(n, key)>>

\* What String writes, with a text for each hash.
TextWith(n, written) ==
  LET hash(key) == Line(key, written[CHOOSE h \in n[key] : TRUE])
  IN  <<LineOf(n, "StorePath"), LineOf(n, "URL"), LineOf(n, "Compression")>>
        \o (IF n.FileHash # {} /\ n.FileSize # 0
            THEN <<hash("FileHash"), LineOf(n, "FileSize")>> ELSE <<>>)
        \o <<hash("NarHash"), LineOf(n, "NarSize"), LineOf(n, "References")>>
        \o Given(n, "Deriver") \o Given(n, "System")
        \o [i \in DOMAIN n.Signatures |-> Line("Sig", SignatureText(n.Signatures[i]))]
        \o Given(n, "CA")

\* Variant: every hash is written in base 32.
TextBase32(n) ==
  TextWith(n, [h \in n.FileHash \cup n.NarHash |-> Format(h, "base32", TRUE)])

\* NarInfo.String; it panics without a NarHash.
Text(n) == TextWith(n, [h \in n.FileHash \cup n.NarHash |-> HashText(h)])

\* Fingerprint; it panics without a NarHash.
Fingerprint(n) ==
  <<n.StorePath, {Format(h, "base32", TRUE) : h \in n.NarHash}, n.NarSize, n.References>>

\* Check.
Check(n) ==
  /\ n.StorePath \in AbsolutePaths
  /\ \A i \in DOMAIN n.References : n.References[i] \in BasePaths
  /\ n.Deriver # "" => n.Deriver \in BasePaths
  /\ n.Compression = "none" =>
       /\ n.FileSize > 0 => n.FileSize = n.NarSize
       /\ \A f \in n.FileHash, h \in n.NarHash : f.algo = h.algo /\ f.digest = h.digest
=============================================================================
