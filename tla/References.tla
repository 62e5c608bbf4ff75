----------------------------- MODULE References -----------------------------
(***************************************************************************)
(* The reference scanner (pkg/storepath/references/refs.go): an io.Writer  *)
(* that looks for the hashes of store paths in the data written to it, in  *)
(* chunks of any size.  One step of Scan is one round of the loop over the *)
(* bytes of a chunk.                                                       *)
(***************************************************************************)
EXTENDS Integers, Sequences

CONSTANTS
  Chars,       \* the bytes there are
  Alphabet,    \* those that nixbase32.Is
  refLength,   \* length of the hash in a store path
  Candidates,  \* storePathCandidates: [hash, name], in their order
  Chunks,      \* what may be passed to a call of Write
  MaxBytes     \* bound: how many bytes are written in all

ASSUME ReferencesAssumption ==
  /\ Alphabet \subseteq Chars
  /\ refLength \in Nat \ {0}
  /\ \A i \in DOMAIN Candidates : Candidates[i].hash \in [1 .. refLength -> Chars]
  /\ Chunks \subseteq Seq(Chars)
  /\ MaxBytes \in Nat

VARIABLES
  hits,  \* r.hits
  buf,   \* r.buf[:r.n]
  rest,  \* what the current call of Write has not looked at yet
  data   \* history: the bytes looked at

vars == <<hits, buf, rest, data>>

\* r.hashes: of two candidates with one hash the later one stays.
hashes ==
  [h \in {Candidates[i].hash : i \in DOMAIN Candidates} |->
     LET last == CHOOSE i \in DOMAIN Candidates :
                   /\ Candidates[i].hash = h
                   /\ \A j \in DOMAIN Candidates : Candidates[j].hash = h => j <= i
     IN  Candidates[last]]

TypeOK ==
  /\ hits \subseteq DOMAIN hashes
  /\ buf \in Seq(Alphabet) /\ Len(buf) < refLength
  /\ rest \in Seq(Chars)
  /\ data \in Seq(Chars)

\* NewReferenceScanner.
Init == hits = {} /\ buf = <<>> /\ rest = <<>> /\ data = <<>>

\* Variant: every chunk is scanned afresh.
WriteAfresh(s) ==
  /\ rest = <<>> /\ Len(data) + Len(s) <= MaxBytes
  /\ rest' = s /\ buf' = <<>>
  /\ UNCHANGED <<hits, data>>

\* Write is called.
Write(s) ==
  /\ rest = <<>> /\ Len(data) + Len(s) <= MaxBytes
  /\ rest' = s
  /\ UNCHANGED <<hits, buf, data>>

\* Variant: a byte that no hash contains is skipped.
SkipByte(c) == UNCHANGED <<buf, hits>>

\* A byte that no hash contains.
OtherByte(c) == buf' = <<>> /\ UNCHANGED hits

\* Variant: r.n is only reset when the hash is known.
HashByteKeeps(c) ==
  LET b == Append(buf, c)
  IN  IF b \in DOMAIN hashes THEN buf' = <<>> /\ hits' = hits \cup {b}
                             ELSE buf' = b /\ UNCHANGED hits

\* A byte that a hash may contain; behind refLength of them, r.hashes decides.
HashByte(c) ==
  LET b == Append(buf, c)
  IN  IF Len(b) = refLength
      THEN buf' = <<>> /\ hits' = hits \cup ({b} \cap DOMAIN hashes)
      ELSE buf' = b /\ UNCHANGED hits

Scan ==
  /\ rest # <<>>
  /\ LET c == Head(rest) IN IF c \in Alphabet THEN HashByte(c) ELSE OtherByte(c)
  /\ rest' = Tail(rest) /\ data' = Append(data, Head(rest))

Next == Scan \/ \E s \in Chunks : Write(s)

Spec == Init /\ [][Next]_vars
-----------------------------------------------------------------------------
(* Properties. *)

\* h stands in the data from byte i on.
StandsAt(h, i) ==
  i + refLength - 1 <= Len(data) /\ \A k \in 1 .. refLength : data[i + k - 1] = h[k]

\* What References returns is there, in one piece: bytes of two places, with
\* others in between, never make a hash.
HitsOccur == \A h \in hits : \E i \in 1 .. Len(data) : StandsAt(h, i)

\* Wherever the data is cut into chunks, and whatever it holds before, a hash
\* directly behind a byte that no hash contains (in a store path, a slash) or
\* at the very beginning is found as soon as its last byte was looked at.
DelimitedFound ==
  \A h \in DOMAIN hashes : \A i \in 1 .. Len(data) :
    (/\ \A k \in 1 .. refLength : h[k] \in Alphabet
     /\ StandsAt(h, i)
     /\ i = 1 \/ data[i - 1] \notin Alphabet) => h \in hits
=============================================================================
