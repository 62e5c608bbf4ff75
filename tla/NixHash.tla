------------------------------ MODULE NixHash ------------------------------
(***************************************************************************)
(* Hashes and their texts (pkg/nixhash).                                   *)
(*                                                                         *)
(* A digest has a size and otherwise only an identity.  A text is what     *)
(* ParseAny can tell of it: the algorithm and the separator in front, the  *)
(* length of the rest, and the one encoding enc in which the rest decodes, *)
(* to digest; enc is none if it decodes in none.  What may fail is the     *)
(* set of its results.                                                     *)
(***************************************************************************)
EXTENDS Integers

\* crypto.Hash.Size of Algorithm.Func, by the names of ParseAlgorithm.
Size == [md5 |-> 16, sha1 |-> 20, sha256 |-> 32, sha512 |-> 64]

\* How many characters n bytes take.
EncodedLen(e, n) ==
  CASE e = "base16" -> 2 * n
    [] e = "base32" -> (n * 8 + 4) \div 5
    [] e \in {"base64", "sri"} -> 4 * ((n + 2) \div 3)

NewHash(algo, digest) ==
  IF digest.size = Size[algo] THEN {[algo |-> algo, digest |-> digest]} ELSE {}

\* Format.
Format(h, e, includeAlgo) ==
  [algo |-> IF e = "sri" \/ includeAlgo THEN h.algo ELSE "",
   sep |-> IF e = "sri" THEN "-" ELSE IF includeAlgo THEN ":" ELSE "",
   len |-> EncodedLen(e, h.digest.size),
   enc |-> IF e = "sri" THEN "base64" ELSE e,
   digest |-> h.digest]

\* The encoding that has the length of t, for a digest of algo.
EncodingOf(t, algo) == {e \in {"base16", "base32", "base64"} : EncodedLen(e, Size[algo]) = t.len}

\* ParseAny; optAlgo is a set of at most one algorithm.  The length tells
\* the encoding, and base 64 of one length may hold digests of several sizes,
\* which nothing compares with the size of the algorithm.
ParseAny(t, optAlgo) ==
  LET algos == IF t.algo # "" THEN IF optAlgo \subseteq {t.algo} THEN {t.algo} ELSE {}
                              ELSE optAlgo
  IN  {[algo |-> a, digest |-> t.digest, includeAlgo |-> t.algo # "",
        encoding |-> IF t.sep = "-" THEN "sri" ELSE t.enc] :
         a \in {a \in algos \cap DOMAIN Size :
                  t.enc \in EncodingOf(t, a) /\ (t.sep = "-" => t.enc = "base64")}}

\* HashWithEncoding.String.
HashText(h) == Format(h, h.encoding, h.includeAlgo)

ParseNixBase32(t) ==
  {[algo |-> h.algo, digest |-> h.digest] : h \in {h \in ParseAny(t, {}) : h.encoding = "base32"}}
=============================================================================
