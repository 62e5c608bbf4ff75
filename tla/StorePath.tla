----------------------------- MODULE StorePath -----------------------------
(***************************************************************************)
(* Store paths (pkg/storepath/storepath.go) and the base 32 their hashes   *)
(* are written in (pkg/nixbase32).                                         *)
(*                                                                         *)
(* A text is a sequence of characters, a digest a sequence of bytes.  What *)
(* may fail is the set of its results, empty for an error.                 *)
(***************************************************************************)
EXTENDS Integers, Sequences

LOCAL INSTANCE SequencesExt
LOCAL INSTANCE FiniteSetsExt

Alphabet ==
  <<"0", "1", "2", "3", "4", "5", "6", "7", "8", "9", "a", "b", "c", "d", "f", "g",
    "h", "i", "j", "k", "l", "m", "n", "p", "q", "r", "s", "v", "w", "x", "y", "z">>

EncodedLen(n) == (n * 8 + 4) \div 5
DecodedLen(n) == (n * 5) \div 8

\* Is, a test of its own of the characters.
Is(c) ==
  c \in {"0", "1", "2", "3", "4", "5", "6", "7", "8", "9", "a", "b", "c", "d", "f", "g", "h",
         "i", "j", "k", "l", "m", "n", "p", "q", "r", "s", "v", "w", "x", "y", "z"}

\* Five bits a digit, the last one first: where digit n has its lowest bit.
Byte(n) == (n * 5) \div 8
Bit(n) == (n * 5) % 8

\* The n-th digit from the end, and what of it goes to its byte and the next.
DigitOf(src, n) == CHOOSE v \in 0 .. 31 : Alphabet[v + 1] = src[Len(src) - n]
Low(src, n) == (DigitOf(src, n) * 2 ^ Bit(n)) % 256
Carry(src, n) == DigitOf(src, n) \div 2 ^ (8 - Bit(n))

InAlphabet(src) == ToSet(src) \subseteq ToSet(Alphabet)

\* DecodeString: the bits of different digits never overlap, so that a sum
\* does what the code does with |=.
DecodeString(src) ==
  LET digits == 0 .. Len(src) - 1
      size == DecodedLen(Len(src))
  IN  IF /\ InAlphabet(src)
         /\ \A n \in digits : Byte(n) < size /\ (Byte(n) + 1 >= size => Carry(src, n) = 0)
      THEN {[i \in 1 .. size |->
               MapThenSumSet(LAMBDA n : Low(src, n), {n \in digits : Byte(n) = i - 1})
                 + MapThenSumSet(LAMBDA n : Carry(src, n), {n \in digits : Byte(n) = i - 2})]}
      ELSE {}

\* ValidateString: of a digit that is too many only the carry is looked at.
ValidateString(src) ==
  /\ InAlphabet(src)
  /\ \A n \in 0 .. Len(src) - 1 :
       Byte(n) + 1 >= DecodedLen(Len(src)) => Carry(src, n) = 0

\* Variant: the bits that a digit has in the next byte are left out.
EncodeCut(src) ==
  LET size == EncodedLen(Len(src))
      digit(n) == (src[Byte(n) + 1] \div 2 ^ Bit(n)) % 32
  IN  [k \in 1 .. size |-> Alphabet[digit(size - k) + 1]]

\* EncodeToString; here too a sum stands for |.
EncodeToString(src) ==
  LET size == EncodedLen(Len(src))
      digit(n) ==
        LET i == Byte(n) + 1
            high == IF i < Len(src) THEN (src[i + 1] * 2 ^ (8 - Bit(n))) % 256 ELSE 0
        IN  (src[i] \div 2 ^ Bit(n) + high) % 32
  IN  [k \in 1 .. size |-> Alphabet[digit(size - k) + 1]]
-----------------------------------------------------------------------------
(* Store paths. *)

StoreDir == <<"/", "n", "i", "x", "/", "s", "t", "o", "r", "e">>
PathHashSize == 20

EncodedPathHashSize == EncodedLen(PathHashSize)
HashOffset == Len(StoreDir) + 1          \* in an absolute path
NameOffset == EncodedPathHashSize + 1    \* in a path without the directory

Letters ==
  ToSet(Alphabet) \cup {"e", "o", "t", "u"}
    \cup {"A", "B", "C", "D", "E", "F", "G", "H", "I", "J", "K", "L", "M",
          "N", "O", "P", "Q", "R", "S", "T", "U", "V", "W", "X", "Y", "Z"}

NameChars == Letters \cup {"-", "_", ".", "+", "?", "="}

\* Go's s[from:to].
Slice(s, from, to) == SubSeq(s, from + 1, to)

\* The parts of a text between slashes.
Parts(s) ==
  LET step(ps, c) == IF c = "/" THEN Append(ps, <<>>)
                                ELSE [ps EXCEPT ![Len(ps)] = Append(@, c)]
  IN  FoldLeft(step, <<<<>>>>, s)

\* path.Join(StoreDir, s): no empty part, none that is ".", and ".." takes
\* away the part before it.
JoinStoreDir(s) ==
  LET step(ps, p) ==
        CASE p \in {<<>>, <<".">>} -> ps
          [] p = <<".", ".">> -> IF ps = <<>> THEN ps ELSE Front(ps)
          [] OTHER -> Append(ps, p)
      clean == FoldLeft(step, <<>>, Parts(StoreDir \o <<"/">> \o s))
  IN  IF clean = <<>> THEN <<"/">>
      ELSE FlattenSeq([k \in DOMAIN clean |-> <<"/">> \o clean[k]])

\* Validate.  Its last loop begins at the offset of a name in a path without
\* the directory, so within the hash; the character behind the directory is
\* never looked at.
Validate(s) ==
  /\ Len(s) >= HashOffset + EncodedPathHashSize + 1
  /\ Slice(s, 0, Len(StoreDir)) = StoreDir
  /\ ValidateString(Slice(s, HashOffset, HashOffset + EncodedPathHashSize))
  /\ ToSet(Slice(s, NameOffset, Len(s))) \subseteq NameChars

\* Variant: the hash with the character behind it.
FromStringLong(s) ==
  IF Validate(JoinStoreDir(s))
  THEN {[name |-> Slice(s, NameOffset, Len(s)), digest |-> d] :
          d \in DecodeString(Slice(s, 0, NameOffset))}
  ELSE {}

FromString(s) ==
  IF Validate(JoinStoreDir(s))
  THEN {[name |-> Slice(s, NameOffset, Len(s)), digest |-> d] :
          d \in DecodeString(Slice(s, 0, NameOffset - 1))}
  ELSE {}

\* The first characters of s are dropped, whatever they are.
FromAbsolutePath(s) ==
  IF Len(s) < HashOffset + NameOffset + 1 THEN {} ELSE FromString(Slice(s, HashOffset, Len(s)))

\* StorePath.String and StorePath.Absolute.
PathText(p) == EncodeToString(p.digest) \o <<"-">> \o p.name
Absolute(p) == JoinStoreDir(PathText(p))

\* NameRe and PathRe, exported but used by nothing else in the repository.
NameRe(s) ==
  s # <<>> /\ ToSet(s) \subseteq NameChars /\ s[1] # "."

PathRe(s) ==
  /\ Len(s) >= HashOffset + NameOffset
  /\ Slice(s, 0, HashOffset) = StoreDir \o <<"/">>
  /\ InAlphabet(Slice(s, HashOffset, HashOffset + EncodedPathHashSize))
  /\ s[HashOffset + NameOffset] = "-"
  /\ NameRe(Slice(s, HashOffset + NameOffset, Len(s)))
=============================================================================
