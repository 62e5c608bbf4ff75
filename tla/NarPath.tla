------------------------------ MODULE NarPath ------------------------------
(***************************************************************************)
(* The headers of a NAR archive and their paths: pkg/nar/types.go,         *)
(* header.go and util.go, and the two path functions of the Go library     *)
(* their callers use.                                                      *)
(*                                                                         *)
(* A node path is the sequence of the names from the root to the node, the *)
(* root "/" being <<>>.  The order the archive must keep is an order on    *)
(* the BYTES of the path, so Bytes gives every name its bytes and          *)
(* PathString spells a path the way the code compares it.                  *)
(***************************************************************************)
EXTENDS Integers, Sequences

CONSTANTS
  Strings,  \* the strings a packet of the archive may carry, names among them
  Bytes     \* Bytes[s]: the bytes of string s, as a sequence of numbers

ASSUME NarPathAssumption ==
  /\ Bytes \in [Strings -> Seq(0 .. 255)]

\* NodeType and Header.
Types == {"regular", "symlink", "directory"}
Header == [path : Seq(Strings), type : Types, size : Nat, exec : BOOLEAN]

Slash == 47
Dot == 46

Smaller(a, b) == IF a < b THEN a ELSE b

\* The first index at which two byte strings differ, 0 if there is none.
FirstDiff(s, t) ==
  LET diffs == {i \in 1 .. Smaller(Len(s), Len(t)) : s[i] # t[i]}
  IN  IF diffs = {} THEN 0
      ELSE CHOOSE i \in diffs : \A j \in diffs : i <= j

\* Go's  s <= t  on strings.
StringLeq(s, t) ==
  LET i == FirstDiff(s, t)
  IN  IF i = 0 THEN Len(s) <= Len(t) ELSE s[i] < t[i]

\* Variant: the plain string order, without the rule that a slash sorts first.
PlainOrder(path1, path2) == StringLeq(path1, path2)

\* PathIsLexicographicallyOrdered(path1, path2), byte by byte.
PathIsLexicographicallyOrdered(path1, path2) ==
  LET i == FirstDiff(path1, path2)
  IN  \/ StringLeq(path1, path2)
      \/ /\ i # 0
         /\ \/ path1[i] = Slash /\ path2[i] # Slash
            \/ path1[i] < path2[i]
      \/ /\ i = 0
         /\ Len(path2) >= Len(path1)

\* IsValidNodeName: no slash and no null byte.
IsValidNodeName(n) ==
  \A i \in 1 .. Len(Bytes[n]) : Bytes[n][i] \notin {Slash, 0}

\* path.Join(p, n) for a clean absolute p: empty and "." elements vanish,
\* ".." removes the last one.
Join(p, n) ==
  CASE Bytes[n] \in {<<>>, <<Dot>>} -> p
    [] Bytes[n] = <<Dot, Dot>> -> IF p = <<>> THEN p ELSE SubSeq(p, 1, Len(p) - 1)
    [] OTHER -> Append(p, n)

\* The string of a path: "/" for the root, "/" before every name otherwise.
PathString(p) ==
  LET f[i \in 0 .. Len(p)] ==
        IF i = 0 THEN <<>> ELSE f[i - 1] \o <<Slash>> \o Bytes[p[i]]
  IN  IF p = <<>> THEN <<Slash>> ELSE f[Len(p)]
=============================================================================
