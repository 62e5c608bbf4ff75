--------------------------- MODULE NarPathProofs ---------------------------
(***************************************************************************)
(* Theorems about NarPath, for all names and paths: the strings the code   *)
(* compares, the comparison, and the order of the tree it stands for.      *)
(*                                                                         *)
(* The library's induction theorems take an operator for a parameter; here *)
(* induction is over a SET of natural numbers (NatInduct), which the       *)
(* provers can instantiate.                                                *)
(***************************************************************************)
EXTENDS NarGrammar, WellFoundedInduction, TLAPS

\* Every set of natural numbers has a least element.
LEMMA NatMin ==
  ASSUME NEW T \in SUBSET Nat, T # {}
  PROVE  \E x \in T : \A y \in T : x <= y
<1>. DEFINE R == OpToRel(<, Nat)
<1>1. IsWellFoundedOn(R, Nat)
  BY NatLessThanWellFounded
<1>2. PICK x \in T : \A y \in T : <<y, x>> \notin R
  <2>. HIDE DEF R
  <2>. QED  BY <1>1, WFMin
<1>3. ASSUME NEW y \in T PROVE x <= y
  <2>1. ~ (y < x)
    BY <1>2 DEF OpToRel
  <2>. QED  BY <2>1
<1>. QED  BY <1>2, <1>3

\* A set that holds 0 and, with a number, the next one, holds all of them.
LEMMA NatInduct ==
  ASSUME NEW T, 0 \in T, \A n \in Nat : n \in T => n + 1 \in T
  PROVE  Nat \subseteq T
<1>. SUFFICES ASSUME NEW k \in Nat, k \notin T PROVE FALSE
  OBVIOUS
<1>1. PICK x \in Nat \ T : \A y \in Nat \ T : x <= y
  <2>1. Nat \ T \in SUBSET Nat /\ Nat \ T # {}
    OBVIOUS
  <2>. QED  BY <2>1, NatMin
<1>2. x # 0 /\ x - 1 \in Nat /\ x - 1 \in T
  BY <1>1
<1>. QED  BY <1>1, <1>2
-----------------------------------------------------------------------------
(* Strings. *)

Text == Seq(0 .. 255)

LEMMA TextOf == \A n \in Strings : Bytes[n] \in Text
BY NarPathAssumption DEF Text

LEMMA ElementOf == ASSUME NEW S, NEW s \in Seq(S), NEW i \in 1 .. Len(s) PROVE s[i] \in S
OBVIOUS

LEMMA ByteIsNumber == 0 .. 255 \subseteq Int
OBVIOUS

LEMMA ByteOf == \A s \in Text : \A i \in Nat : i < Len(s) => s[i + 1] \in Int
<1>. SUFFICES ASSUME NEW s \in Text, NEW i \in Nat, i < Len(s) PROVE s[i + 1] \in Int
  OBVIOUS
<1>1. Len(s) \in Nat /\ i + 1 \in 1 .. Len(s)
  BY DEF Text
<1>2. s[i + 1] \in 0 .. 255
  BY <1>1, ElementOf DEF Text
<1>. QED  BY <1>2, ByteIsNumber, Zenon

\* FirstDiff is where two strings part, or 0 if one continues the other.
LEMMA FirstDiffIs ==
  ASSUME NEW s \in Text, NEW t \in Text
  PROVE  /\ FirstDiff(s, t) \in 0 .. Len(s) /\ FirstDiff(s, t) \in 0 .. Len(t)
         /\ FirstDiff(s, t) = 0 =>
              \A i \in Nat \ {0} : i <= Len(s) /\ i <= Len(t) => s[i] = t[i]
         /\ FirstDiff(s, t) # 0 =>
              /\ s[FirstDiff(s, t)] # t[FirstDiff(s, t)]
              /\ \A i \in Nat \ {0} : i < FirstDiff(s, t) => s[i] = t[i]
<1>. DEFINE diffs == {i \in 1 .. Smaller(Len(s), Len(t)) : s[i] # t[i]}
            d == FirstDiff(s, t)
<1>1. /\ Smaller(Len(s), Len(t)) \in Nat
      /\ \A i \in Nat : i <= Smaller(Len(s), Len(t)) <=> i <= Len(s) /\ i <= Len(t)
  BY DEF Smaller, Text
<1>2. CASE diffs = {}
  BY <1>1, <1>2 DEF FirstDiff, Text
<1>3. CASE diffs # {}
  <2>1. diffs \in SUBSET Nat
    BY <1>1
  <2>2. \E i \in diffs : \A j \in diffs : i <= j
    <3>. HIDE DEF diffs
    <3>. QED  BY <1>3, <2>1, NatMin
  <2>3. d = CHOOSE i \in diffs : \A j \in diffs : i <= j
    BY <1>3 DEF FirstDiff
  <2>4. d \in diffs /\ \A j \in diffs : d <= j
    <3>. HIDE DEF diffs, d
    <3>. QED  BY <2>2, <2>3
  <2>5. /\ d \in Nat \ {0} /\ d <= Len(s) /\ d <= Len(t) /\ s[d] # t[d]
        /\ \A i \in Nat \ {0} : i <= Len(s) /\ i <= Len(t) /\ s[i] # t[i] => d <= i
    <3>. HIDE DEF d
    <3>. QED  BY <1>1, <2>4
  <2>. HIDE DEF d, diffs
  <2>6. ASSUME NEW i \in Nat \ {0}, i < d PROVE s[i] = t[i]
    <3>1. Len(s) \in Nat /\ Len(t) \in Nat
      BY DEF Text
    <3>. QED  BY <2>5, <2>6, <3>1
  <2>7. Len(s) \in Nat /\ Len(t) \in Nat
    BY DEF Text
  <2>8. d \in 0 .. Len(s) /\ d \in 0 .. Len(t) /\ d # 0
    BY <2>5, <2>7
  <2>. QED  BY <2>5, <2>6, <2>8 DEF d
<1>. QED  BY <1>2, <1>3

\* What "s <= t" says without FirstDiff: they agree up to k, and there s
\* ends or goes on with a smaller byte.
LEMMA StringLeqIs ==
  ASSUME NEW s \in Text, NEW t \in Text
  PROVE  StringLeq(s, t) <=>
           \E k \in Nat : /\ k <= Len(s) /\ k <= Len(t)
                          /\ \A i \in 1 .. k : s[i] = t[i]
                          /\ k < Len(s) => k < Len(t) /\ s[k + 1] < t[k + 1]
<1>. DEFINE d == FirstDiff(s, t)
            Agree(k) == /\ k <= Len(s) /\ k <= Len(t)
                        /\ \A i \in 1 .. k : s[i] = t[i]
                        /\ k < Len(s) => k < Len(t) /\ s[k + 1] < t[k + 1]
<1>1. Len(s) \in Nat /\ Len(t) \in Nat
  BY DEF Text
<1>2. \A i \in Nat : i < Len(s) => s[i + 1] \in Int
  BY ByteOf
<1>3. \A i \in Nat : i < Len(t) => t[i + 1] \in Int
  BY ByteOf
<1>4. /\ d \in Nat /\ d <= Len(s) /\ d <= Len(t)
      /\ d = 0 => \A i \in Nat \ {0} : i <= Len(s) /\ i <= Len(t) => s[i] = t[i]
      /\ d # 0 => s[d] # t[d] /\ \A i \in Nat \ {0} : i < d => s[i] = t[i]
  BY <1>1, FirstDiffIs
<1>5. StringLeq(s, t) <=> IF d = 0 THEN Len(s) <= Len(t) ELSE s[d] < t[d]
  BY DEF StringLeq
<1>. HIDE DEF d
<1>6. ASSUME StringLeq(s, t) PROVE \E k \in Nat : Agree(k)
  <2>1. CASE d = 0
    <3>1. Agree(Len(s))
      BY <1>1, <1>4, <1>5, <1>6, <2>1
    <3>. QED  BY <1>1, <3>1
  <2>2. CASE d # 0
    <3>1. Agree(d - 1)
      BY <1>1, <1>4, <1>5, <1>6, <2>2
    <3>. QED  BY <1>4, <2>2, <3>1
  <2>. QED  BY <2>1, <2>2
<1>7. ASSUME NEW k \in Nat, Agree(k) PROVE StringLeq(s, t)
  <2>1. CASE d = 0
    <3>1. k = Len(s)
      BY <1>1, <1>2, <1>3, <1>4, <1>7, <2>1
    <3>. QED  BY <1>1, <1>5, <1>7, <2>1, <3>1
  <2>2. CASE d # 0
    <3>1. d > k
      BY <1>4, <1>7, <2>2
    <3>2. k < Len(s)
      BY <1>1, <1>4, <3>1
    <3>3. d = k + 1
      BY <1>1, <1>2, <1>3, <1>4, <1>7, <3>1, <3>2
    <3>. QED  BY <1>5, <1>7, <2>2, <3>2, <3>3
  <2>. QED  BY <2>1, <2>2
<1>. QED  BY <1>6, <1>7

LEMMA LeqReflexive == ASSUME NEW s \in Text PROVE StringLeq(s, s)
<1>1. Len(s) \in Nat
  BY DEF Text
<1>. QED  BY <1>1, StringLeqIs

LEMMA LeqAntisymmetric ==
  ASSUME NEW s \in Text, NEW t \in Text, StringLeq(s, t), StringLeq(t, s)
  PROVE  s = t
<1>. DEFINE d == FirstDiff(s, t)
            e == FirstDiff(t, s)
<1>1. PICK k \in Nat : /\ k <= Len(s) /\ k <= Len(t)
                       /\ \A i \in 1 .. k : s[i] = t[i]
                       /\ k < Len(s) => k < Len(t) /\ s[k + 1] < t[k + 1]
  BY StringLeqIs
<1>2. PICK j \in Nat : /\ j <= Len(t) /\ j <= Len(s)
                       /\ \A i \in 1 .. j : t[i] = s[i]
                       /\ j < Len(t) => j < Len(s) /\ t[j + 1] < s[j + 1]
  BY StringLeqIs
<1>3. /\ Len(s) \in Nat /\ Len(t) \in Nat
      /\ \A i \in Nat : i < Len(s) => s[i + 1] \in Int
      /\ \A i \in Nat : i < Len(t) => t[i + 1] \in Int
  BY ByteOf DEF Text
<1>4. k = Len(s) /\ j = Len(t)
  <2>1. CASE k < j
    <3>1. k < Len(s) => s[k + 1] = t[k + 1]
      BY <1>2, <1>3, <2>1
    <3>. QED  BY <1>1, <1>2, <1>3, <2>1, <3>1
  <2>2. CASE j < k
    <3>1. j < Len(t) => s[j + 1] = t[j + 1]
      BY <1>1, <1>3, <2>2
    <3>. QED  BY <1>1, <1>2, <1>3, <2>2, <3>1
  <2>3. CASE j = k
    BY <1>1, <1>2, <1>3, <2>3
  <2>. QED  BY <2>1, <2>2, <2>3
<1>5. Len(s) = Len(t) /\ \A i \in 1 .. Len(s) : s[i] = t[i]
  BY <1>1, <1>2, <1>3, <1>4
<1>. QED  BY <1>5 DEF Text

LEMMA LeqTransitive ==
  ASSUME NEW s \in Text, NEW t \in Text, NEW u \in Text, StringLeq(s, t), StringLeq(t, u)
  PROVE  StringLeq(s, u)
<1>1. PICK k \in Nat : /\ k <= Len(s) /\ k <= Len(t)
                       /\ \A i \in 1 .. k : s[i] = t[i]
                       /\ k < Len(s) => k < Len(t) /\ s[k + 1] < t[k + 1]
  BY StringLeqIs
<1>2. PICK j \in Nat : /\ j <= Len(t) /\ j <= Len(u)
                       /\ \A i \in 1 .. j : t[i] = u[i]
                       /\ j < Len(t) => j < Len(u) /\ t[j + 1] < u[j + 1]
  BY StringLeqIs
<1>3. /\ Len(s) \in Nat /\ Len(t) \in Nat /\ Len(u) \in Nat
      /\ \A i \in Nat : i < Len(s) => s[i + 1] \in Int
      /\ \A i \in Nat : i < Len(t) => t[i + 1] \in Int
      /\ \A i \in Nat : i < Len(u) => u[i + 1] \in Int
  BY ByteOf DEF Text
<1>. DEFINE Agree(m) == /\ m <= Len(s) /\ m <= Len(u)
                        /\ \A i \in 1 .. m : s[i] = u[i]
                        /\ m < Len(s) => m < Len(u) /\ s[m + 1] < u[m + 1]
<1>4. CASE k < j
  <2>1. Agree(k)
    BY <1>1, <1>2, <1>3, <1>4
  <2>. QED  BY <2>1, StringLeqIs
<1>5. CASE j < k
  <2>1. Agree(j)
    BY <1>1, <1>2, <1>3, <1>5
  <2>. QED  BY <2>1, StringLeqIs
<1>6. CASE j = k
  <2>1. Agree(k)
    BY <1>1, <1>2, <1>3, <1>6
  <2>. QED  BY <2>1, StringLeqIs
<1>. QED  BY <1>4, <1>5, <1>6
-----------------------------------------------------------------------------
(* The order of the tree.                                                  *)

LEMMA NameText ==
  ASSUME NEW p \in Seq(Strings), NEW i \in Nat, i < Len(p)
  PROVE  Bytes[p[i + 1]] \in Text
<1>1. p[i + 1] \in Strings
  OBVIOUS
<1>. QED  BY <1>1, TextOf

LEMMA TreeReflexive == ASSUME NEW p \in Seq(Strings) PROVE TreeLeq(p, p)
<1>1. Parts(p, p, Len(p))
  BY DEF Parts, SameNames
<1>. QED  BY <1>1 DEF TreeLeq

LEMMA TreeTransitive ==
  ASSUME NEW p \in Seq(Strings), NEW q \in Seq(Strings), NEW r \in Seq(Strings),
         TreeLeq(p, q), TreeLeq(q, r)
  PROVE  TreeLeq(p, r)
<1>1. PICK k \in Nat : Parts(p, q, k)
  BY DEF TreeLeq
<1>2. PICK j \in Nat : Parts(q, r, j)
  BY DEF TreeLeq
<1>3. Len(p) \in Nat /\ Len(q) \in Nat /\ Len(r) \in Nat
  OBVIOUS
<1>4. CASE k < j
  <2>1. Parts(p, r, k)
    BY <1>1, <1>2, <1>3, <1>4 DEF Parts, SameNames
  <2>. QED  BY <2>1 DEF TreeLeq
<1>5. CASE j < k
  <2>1. Parts(p, r, j)
    BY <1>1, <1>2, <1>3, <1>5 DEF Parts, SameNames
  <2>. QED  BY <2>1 DEF TreeLeq
<1>6. CASE j = k
  <2>1. CASE k < Len(p)
    <3>1. k < Len(q) /\ k < Len(r)
      BY <1>1, <1>2, <1>6, <2>1 DEF Parts
    <3>2. /\ Bytes[p[k + 1]] \in Text /\ Bytes[q[k + 1]] \in Text /\ Bytes[r[k + 1]] \in Text
      BY <2>1, <3>1, NameText
    <3>3. /\ StringLeq(Bytes[p[k + 1]], Bytes[r[k + 1]])
          /\ Bytes[p[k + 1]] # Bytes[r[k + 1]]
      BY <1>1, <1>2, <1>6, <2>1, <3>1, <3>2, LeqTransitive, LeqAntisymmetric DEF Parts
    <3>4. Parts(p, r, k)
      BY <1>1, <1>2, <1>6, <3>1, <3>3 DEF Parts, SameNames
    <3>. QED  BY <3>4 DEF TreeLeq
  <2>2. CASE ~ (k < Len(p))
    <3>1. Parts(p, r, k)
      BY <1>1, <1>2, <1>6, <2>2 DEF Parts, SameNames
    <3>. QED  BY <3>1 DEF TreeLeq
  <2>. QED  BY <2>1, <2>2
<1>. QED  BY <1>3, <1>4, <1>5, <1>6

-----------------------------------------------------------------------------
(* The string of a path. *)

Spell(p, f) ==
  /\ f \in [0 .. Len(p) -> Text]
  /\ f[0] = <<>>
  /\ \A i \in 1 .. Len(p) : f[i] = f[i - 1] \o <<Slash>> \o Bytes[p[i]]

\* PathString(p) spells p name by name.
LEMMA Spelling ==
  ASSUME NEW p \in Seq(Strings)
  PROVE  \E f : /\ Spell(p, f)
                /\ PathString(p) = IF p = <<>> THEN <<Slash>> ELSE f[Len(p)]
<1>. DEFINE step(g, i) == IF i = 0 THEN <<>> ELSE g[i - 1] \o <<Slash>> \o Bytes[p[i]]
            f == CHOOSE g : g = [i \in 0 .. Len(p) |-> step(g, i)]
            T == {n \in Nat : \E g : g = [i \in 0 .. n |-> step(g, i)]}
<1>1. PathString(p) = IF p = <<>> THEN <<Slash>> ELSE f[Len(p)]
  BY Zenon DEF PathString
<1>2. 0 \in T
  <2>. DEFINE g == [i \in 0 .. 0 |-> <<>>]
  <2>1. g = [i \in 0 .. 0 |-> step(g, i)]
    OBVIOUS
  <2>. QED  BY <2>1
<1>3. ASSUME NEW n \in Nat, n \in T PROVE n + 1 \in T
  <2>1. PICK h : h = [i \in 0 .. n |-> step(h, i)]
    BY <1>3
  <2>. DEFINE g == [i \in 0 .. n + 1 |-> step(h, i)]
  <2>2. ASSUME NEW i \in 0 .. n + 1 PROVE step(h, i) = step(g, i)
    <3>1. CASE i = 0
      BY <3>1
    <3>2. CASE i # 0
      <4>1. i - 1 \in 0 .. n
        BY <3>2
      <4>2. g[i - 1] = step(h, i - 1)
        BY <4>1
      <4>3. h[i - 1] = step(h, i - 1)
        BY <2>1, <4>1, Zenon
      <4>. HIDE DEF g
      <4>. QED  BY <3>2, <4>2, <4>3
    <3>. QED  BY <3>1, <3>2
  <2>3. g = [i \in 0 .. n + 1 |-> step(g, i)]
    <3>1. [i \in 0 .. n + 1 |-> step(h, i)] = [i \in 0 .. n + 1 |-> step(g, i)]
      <4>. HIDE DEF g, step
      <4>. QED  BY <2>2
    <3>. QED  BY <3>1, Zenon
  <2>4. \E z : z = [i \in 0 .. n + 1 |-> step(z, i)]
    <3>. HIDE DEF g, step
    <3>. QED  BY <2>3
  <2>. QED  BY <2>4
<1>4. Len(p) \in T
  <2>. HIDE DEF T
  <2>. QED  BY <1>2, <1>3, NatInduct
<1>5. f = [i \in 0 .. Len(p) |-> step(f, i)]
  <2>1. \E g : g = [i \in 0 .. Len(p) |-> step(g, i)]
    BY <1>4
  <2>. HIDE DEF step
  <2>. QED  BY <2>1, Zenon
<1>6. \A i \in 0 .. Len(p) : f[i] = step(f, i)
  <2>. HIDE DEF step, f
  <2>. QED  BY <1>5
<1>. HIDE DEF f
<1>7. f[0] = <<>> /\ \A i \in 1 .. Len(p) : f[i] = f[i - 1] \o <<Slash>> \o Bytes[p[i]]
  <2>1. Len(p) \in Nat
    OBVIOUS
  <2>2. f[0] = step(f, 0)
    BY <1>6, <2>1
  <2>3. ASSUME NEW i \in 1 .. Len(p) PROVE f[i] = step(f, i) /\ i # 0
    BY <1>6, <2>1
  <2>. QED  BY <2>2, <2>3, Zenon
<1>8. \A i \in 0 .. Len(p) : f[i] \in Text
  <2>. DEFINE U == {n \in Nat : n <= Len(p) => f[n] \in Text}
  <2>1. 0 \in U
    <3>1. <<>> \in Text
      BY DEF Text
    <3>. QED  BY <1>7, <3>1
  <2>2. ASSUME NEW n \in Nat, n \in U PROVE n + 1 \in U
    <3>. SUFFICES ASSUME n + 1 <= Len(p) PROVE f[n + 1] \in Text
      OBVIOUS
    <3>1. f[n] \in Text /\ Bytes[p[n + 1]] \in Text
      BY <2>2, NameText
    <3>2. f[n + 1] = f[n] \o <<Slash>> \o Bytes[p[n + 1]]
      <4>1. n + 1 \in 1 .. Len(p) /\ (n + 1) - 1 = n
        OBVIOUS
      <4>. QED  BY <1>7, <4>1
    <3>. QED  BY <3>1, <3>2 DEF Text, Slash
  <2>. HIDE DEF U
  <2>3. Nat \subseteq U
    BY <2>1, <2>2, NatInduct
  <2>. QED  BY <2>3 DEF U
<1>9. Spell(p, f)
  <2>1. f \in [0 .. Len(p) -> Text]
    <3>. HIDE DEF step
    <3>. QED  BY <1>5, <1>8
  <2>. QED  BY <1>7, <2>1 DEF Spell
<1>. QED  BY <1>1, <1>9

StartsWith(s, t) == Len(t) <= Len(s) /\ \A i \in 1 .. Len(t) : s[i] = t[i]

LEMMA SlashBehind ==
  ASSUME NEW a \in Text
  PROVE  /\ a \o <<Slash>> \in Text /\ Len(a) \in Nat
         /\ Len(a \o <<Slash>>) = Len(a) + 1
         /\ \A i \in 1 .. Len(a) : (a \o <<Slash>>)[i] = a[i]
         /\ (a \o <<Slash>>)[Len(a) + 1] = Slash
<1>1. <<Slash>> \in Text /\ Len(<<Slash>>) = 1 /\ <<Slash>>[1] = Slash
  BY DEF Text, Slash
<1>. QED  BY <1>1 DEF Text

\* A name behind a path and a slash.
LEMMA Glue ==
  ASSUME NEW a \in Text, NEW m \in Text
  PROVE  /\ a \o <<Slash>> \o m \in Text
         /\ Len(a \o <<Slash>> \o m) = Len(a) + 1 + Len(m)
         /\ \A i \in 1 .. Len(a) : (a \o <<Slash>> \o m)[i] = a[i]
         /\ (a \o <<Slash>> \o m)[Len(a) + 1] = Slash
         /\ \A i \in 1 .. Len(m) : (a \o <<Slash>> \o m)[Len(a) + 1 + i] = m[i]
<1>. DEFINE b == a \o <<Slash>>
<1>2. /\ b \in Text /\ Len(b) = Len(a) + 1
      /\ \A i \in 1 .. Len(a) : b[i] = a[i]
      /\ b[Len(a) + 1] = Slash
  BY SlashBehind
<1>. HIDE DEF b
<1>3. /\ b \o m \in Text /\ Len(b \o m) = Len(b) + Len(m)
      /\ \A i \in 1 .. Len(b) : (b \o m)[i] = b[i]
      /\ \A i \in 1 .. Len(m) : (b \o m)[Len(b) + i] = m[i]
  BY <1>2 DEF Text
<1>4. Len(a) \in Nat
  BY DEF Text
<1>5. a \o <<Slash>> \o m = b \o m
  BY DEF b
<1>6. \A i \in 1 .. Len(a) : (b \o m)[i] = a[i]
  BY <1>2, <1>3, <1>4
<1>7. (b \o m)[Len(a) + 1] = Slash
  BY <1>2, <1>3, <1>4
<1>. QED  BY <1>2, <1>3, <1>5, <1>6, <1>7

LEMMA SpellStep ==
  ASSUME NEW p \in Seq(Strings), NEW f, Spell(p, f), NEW k \in Nat, k < Len(p)
  PROVE  /\ f[k] \in Text /\ f[k + 1] \in Text /\ Bytes[p[k + 1]] \in Text
         /\ f[k + 1] = f[k] \o <<Slash>> \o Bytes[p[k + 1]]
<1>1. k \in 0 .. Len(p) /\ k + 1 \in 1 .. Len(p) /\ k + 1 \in 0 .. Len(p) /\ (k + 1) - 1 = k
  OBVIOUS
<1>2. Bytes[p[k + 1]] \in Text
  BY NameText
<1>. QED  BY <1>1, <1>2 DEF Spell

\* A longer path starts with the string of a shorter one.
LEMMA SpellGrows ==
  ASSUME NEW p \in Seq(Strings), NEW f, Spell(p, f),
         NEW k \in 0 .. Len(p), NEW m \in k .. Len(p)
  PROVE  StartsWith(f[m], f[k])
<1>. DEFINE T == {n \in Nat : k + n <= Len(p) => StartsWith(f[k + n], f[k])}
<1>1. 0 \in T
  BY DEF StartsWith, Spell, Text
<1>2. ASSUME NEW n \in Nat, n \in T PROVE n + 1 \in T
  <2>. SUFFICES ASSUME k + n < Len(p) PROVE StartsWith(f[(k + n) + 1], f[k])
    OBVIOUS
  <2>1. StartsWith(f[k + n], f[k])
    BY <1>2
  <2>2. f[k] \in Text
    BY DEF Spell
  <2>. DEFINE j == k + n
  <2>3. j \in Nat /\ j < Len(p)
    OBVIOUS
  <2>. HIDE DEF j
  <2>4. /\ f[j] \in Text /\ Bytes[p[j + 1]] \in Text
        /\ f[j + 1] = f[j] \o <<Slash>> \o Bytes[p[j + 1]]
    BY <2>3, SpellStep
  <2>5. StartsWith(f[j + 1], f[j])
    <3>1. Len(f[j]) \in Nat /\ Len(Bytes[p[j + 1]]) \in Nat
      BY <2>4 DEF Text
    <3>2. /\ Len(f[j + 1]) = Len(f[j]) + 1 + Len(Bytes[p[j + 1]])
          /\ \A i \in 1 .. Len(f[j]) : f[j + 1][i] = f[j][i]
      <4>. DEFINE b == Bytes[p[j + 1]]
      <4>1. /\ Len(f[j] \o <<Slash>> \o b) = Len(f[j]) + 1 + Len(b)
            /\ \A i \in 1 .. Len(f[j]) : (f[j] \o <<Slash>> \o b)[i] = f[j][i]
        <5>. HIDE DEF b
        <5>1. f[j] \in Text /\ b \in Text
          BY <2>4 DEF b
        <5>. QED  BY <5>1, Glue
      <4>. QED  BY <2>4, <4>1, Zenon
    <3>3. Len(f[j]) <= Len(f[j + 1])
      <4>1. \A x, y \in Nat : x <= x + 1 + y
        OBVIOUS
      <4>. QED  BY <3>1, <3>2, <4>1, Zenon
    <3>. QED  BY <3>2, <3>3, Zenon DEF StartsWith
  <2>6. Len(f[k]) \in Nat /\ Len(f[j]) \in Nat /\ Len(f[j + 1]) \in Nat
    <3>1. f[j + 1] \in Text
      BY <2>4, Glue, Zenon
    <3>2. \A x \in Text : Len(x) \in Nat
      BY DEF Text
    <3>. QED  BY <2>2, <2>4, <3>1, <3>2, Zenon
  <2>7. StartsWith(f[j], f[k])
    BY <2>1 DEF j
  <2>8. StartsWith(f[j + 1], f[k])
    BY <2>5, <2>6, <2>7 DEF StartsWith
  <2>. QED  BY <2>8 DEF j
<1>. HIDE DEF T
<1>3. m - k \in T
  BY <1>1, <1>2, NatInduct
<1>. QED  BY <1>3 DEF T

\* Paths with the same names have the same string.
LEMMA SpellSame ==
  ASSUME NEW p \in Seq(Strings), NEW f, Spell(p, f),
         NEW q \in Seq(Strings), NEW g, Spell(q, g),
         NEW k \in Nat, k <= Len(p), k <= Len(q), SameNames(p, q, k)
  PROVE  f[k] = g[k]
<1>. DEFINE T == {n \in Nat : n <= k => f[n] = g[n]}
<1>1. 0 \in T
  BY DEF Spell
<1>2. ASSUME NEW n \in Nat, n \in T PROVE n + 1 \in T
  <2>. SUFFICES ASSUME n < k PROVE f[n + 1] = g[n + 1]
    OBVIOUS
  <2>0. n < Len(p) /\ n < Len(q)
    OBVIOUS
  <2>1. /\ f[n + 1] = f[n] \o <<Slash>> \o Bytes[p[n + 1]]
        /\ g[n + 1] = g[n] \o <<Slash>> \o Bytes[q[n + 1]]
    BY <2>0, SpellStep
  <2>2. f[n] = g[n] /\ Bytes[p[n + 1]] = Bytes[q[n + 1]]
    BY <1>2 DEF SameNames
  <2>. QED  BY <2>1, <2>2
<1>. HIDE DEF T
<1>3. k \in T
  BY <1>1, <1>2, NatInduct
<1>. QED  BY <1>3 DEF T
-----------------------------------------------------------------------------
(* The comparison. *)

\* A string that goes on behind another one does not come before it.
LEMMA LongerRefused ==
  ASSUME NEW s \in Text, NEW t \in Text, StartsWith(s, t), Len(s) > Len(t)
  PROVE  ~ PathIsLexicographicallyOrdered(s, t)
<1>. DEFINE d == FirstDiff(s, t)
<1>1. Len(s) \in Nat /\ Len(t) \in Nat
  BY DEF Text
<1>2. d = 0
  BY <1>1, FirstDiffIs DEF StartsWith
<1>. QED  BY <1>1, <1>2 DEF PathIsLexicographicallyOrdered, StringLeq

\* What the comparison decides at the first difference.
LEMMA OrderIs ==
  ASSUME NEW s \in Text, NEW t \in Text
  PROVE  PathIsLexicographicallyOrdered(s, t) <=>
           IF FirstDiff(s, t) = 0 THEN Len(s) <= Len(t)
           ELSE \/ s[FirstDiff(s, t)] < t[FirstDiff(s, t)]
                \/ s[FirstDiff(s, t)] = Slash /\ t[FirstDiff(s, t)] # Slash
<1>1. Len(s) \in Nat /\ Len(t) \in Nat
  BY DEF Text
<1>. QED  BY <1>1 DEF PathIsLexicographicallyOrdered, StringLeq

\* Behind the same directory, the comparison orders two names m and n as
\* they are, whatever follows m.
LEMMA SegmentOrder ==
  ASSUME NEW s \in Text, NEW t \in Text, NEW a \in Text, NEW m \in Text, NEW n \in Text,
         StartsWith(s, a \o <<Slash>> \o m), t = a \o <<Slash>> \o n, SlashFree(m),
         PathIsLexicographicallyOrdered(s, t)
  PROVE  StringLeq(m, n)
<1>. DEFINE d == FirstDiff(s, t)
            l == Len(a) + 1
<1>1. l \in Nat /\ Len(m) \in Nat /\ Len(n) \in Nat /\ Len(s) \in Nat
  BY DEF Text
<1>. DEFINE x == a \o <<Slash>> \o m
            y == a \o <<Slash>> \o n
<1>2. /\ Len(x) = l + Len(m) /\ Len(y) = l + Len(n)
      /\ \A i \in 1 .. Len(m) : x[l + i] = m[i]
      /\ \A i \in 1 .. Len(n) : y[l + i] = n[i]
      /\ \A i \in Nat \ {0} : i <= l => x[i] = y[i]
  <2>1. Len(a) \in Nat
    BY DEF Text
  <2>2. ASSUME NEW i \in Nat \ {0}, i <= l PROVE x[i] = y[i]
    <3>1. CASE i \in 1 .. Len(a)
      <4>1. \A j \in 1 .. Len(a) : x[j] = a[j]
        BY Glue
      <4>2. \A j \in 1 .. Len(a) : y[j] = a[j]
        BY Glue
      <4>. HIDE DEF x, y
      <4>. QED  BY <3>1, <4>1, <4>2
    <3>2. CASE i = Len(a) + 1
      <4>1. x[Len(a) + 1] = Slash /\ y[Len(a) + 1] = Slash
        BY Glue
      <4>. QED  BY <3>2, <4>1
    <3>. QED  BY <2>1, <2>2, <3>1, <3>2
  <2>3. /\ Len(x) = l + Len(m) /\ Len(y) = l + Len(n)
        /\ \A i \in 1 .. Len(m) : x[l + i] = m[i]
        /\ \A i \in 1 .. Len(n) : y[l + i] = n[i]
    BY Glue
  <2>. QED  BY <2>2, <2>3
<1>. HIDE DEF x, y
<1>3. /\ Len(s) >= l + Len(m)
      /\ \A i \in 1 .. Len(m) : s[l + i] = m[i]
      /\ Len(t) = l + Len(n)
      /\ \A i \in 1 .. Len(n) : t[l + i] = n[i]
      /\ \A i \in Nat \ {0} : i <= l => s[i] = t[i]
  <2>1. t = y /\ Len(x) <= Len(s) /\ \A i \in 1 .. Len(x) : s[i] = x[i]
    BY DEF x, y, StartsWith
  <2>2. ASSUME NEW i \in 1 .. Len(m) PROVE s[l + i] = m[i]
    <3>1. l + i \in 1 .. Len(x)
      BY <1>1, <1>2
    <3>. QED  BY <1>2, <2>1, <3>1
  <2>3. ASSUME NEW i \in Nat \ {0}, i <= l PROVE s[i] = t[i]
    <3>1. i \in 1 .. Len(x)
      BY <1>1, <1>2, <2>3
    <3>. QED  BY <1>2, <2>1, <2>3, <3>1
  <2>. QED  BY <1>2, <2>1, <2>2, <2>3
<1>4. /\ d \in Nat /\ d <= Len(s) /\ d <= Len(t)
      /\ d = 0 => \A i \in Nat \ {0} : i <= Len(s) /\ i <= Len(t) => s[i] = t[i]
      /\ d # 0 => s[d] # t[d] /\ \A i \in Nat \ {0} : i < d => s[i] = t[i]
  <2>1. Len(s) \in Nat /\ Len(t) \in Nat
    BY DEF Text
  <2>2. /\ d \in 0 .. Len(s) /\ d \in 0 .. Len(t)
        /\ d = 0 => \A i \in Nat \ {0} : i <= Len(s) /\ i <= Len(t) => s[i] = t[i]
        /\ d # 0 => s[d] # t[d] /\ \A i \in Nat \ {0} : i < d => s[i] = t[i]
    BY FirstDiffIs, Zenon
  <2>. HIDE DEF d
  <2>. QED  BY <2>1, <2>2
<1>5. IF d = 0 THEN Len(s) <= Len(t)
      ELSE s[d] < t[d] \/ (s[d] = Slash /\ t[d] # Slash)
  BY OrderIs
<1>. HIDE DEF d, l
<1>. DEFINE Agree(k) == /\ k <= Len(m) /\ k <= Len(n)
                        /\ \A i \in 1 .. k : m[i] = n[i]
                        /\ k < Len(m) => k < Len(n) /\ m[k + 1] < n[k + 1]
<1>6. CASE d = 0
  <2>1. Len(m) <= Len(n)
    BY <1>1, <1>3, <1>5, <1>6
  <2>2. ASSUME NEW i \in 1 .. Len(m) PROVE m[i] = n[i]
    <3>1. l + i \in Nat \ {0} /\ l + i <= Len(s) /\ l + i <= Len(t)
      BY <1>1, <1>3, <2>1
    <3>2. s[l + i] = m[i] /\ t[l + i] = n[i]
      BY <1>1, <1>3, <2>1
    <3>3. s[l + i] = t[l + i]
      BY <1>4, <1>6, <3>1
    <3>. QED  BY <3>2, <3>3
  <2>3. Agree(Len(m))
    BY <1>1, <2>1, <2>2
  <2>. QED  BY <1>1, <2>3, StringLeqIs
<1>7. CASE d # 0
  <2>1. PICK j \in Nat \ {0} : d = l + j /\ j <= Len(n)
    <3>1. d > l
      BY <1>1, <1>3, <1>4, <1>7
    <3>2. d - l \in Nat \ {0} /\ d = l + (d - l) /\ d - l <= Len(n)
      BY <1>1, <1>3, <1>4, <3>1
    <3>. QED  BY <3>2
  <2>2. t[d] = n[j]
    BY <1>1, <1>3, <2>1
  <2>3. ASSUME NEW i \in 1 .. Len(m), i < j PROVE i <= Len(n) /\ m[i] = n[i]
    <3>1. l + i \in Nat \ {0} /\ l + i < d /\ i \in 1 .. Len(n)
      BY <1>1, <2>1, <2>3
    <3>2. s[l + i] = m[i] /\ t[l + i] = n[i]
      BY <1>3, <3>1
    <3>3. s[l + i] = t[l + i]
      BY <1>4, <1>7, <3>1
    <3>. QED  BY <1>1, <3>1, <3>2, <3>3
  <2>4. CASE j <= Len(m)
    <3>1. s[d] = m[j] /\ m[j] # Slash
      BY <1>3, <2>1, <2>4 DEF SlashFree
    <3>2. m[j] < n[j]
      BY <1>5, <1>7, <2>2, <3>1
    <3>3. Agree(j - 1)
      BY <1>1, <2>1, <2>3, <2>4, <3>2
    <3>4. j - 1 \in Nat
      BY <2>1
    <3>. QED  BY <3>3, <3>4, StringLeqIs
  <2>5. CASE j > Len(m)
    <3>1. Agree(Len(m))
      BY <1>1, <2>1, <2>3, <2>5
    <3>. QED  BY <1>1, <3>1, StringLeqIs
  <2>. QED  BY <1>1, <2>4, <2>5
<1>. QED  BY <1>6, <1>7

\* The string of a path starts with the one of a directory above it, and is
\* longer.
LEMMA BelowIsLonger ==
  ASSUME NEW p \in Seq(Strings), NEW q \in Seq(Strings), Proper(p),
         Len(q) < Len(p), SameNames(p, q, Len(q))
  PROVE  /\ PathString(p) \in Text /\ PathString(q) \in Text
         /\ StartsWith(PathString(p), PathString(q))
         /\ Len(PathString(p)) > Len(PathString(q))
<1>. DEFINE k == Len(q)
            m == Bytes[p[k + 1]]
<1>1. k \in Nat /\ k < Len(p) /\ p # <<>> /\ Len(p) \in Nat
  OBVIOUS
<1>2. PICK f : Spell(p, f) /\ PathString(p) = f[Len(p)]
  BY <1>1, Spelling
<1>3. PICK g : Spell(q, g) /\ PathString(q) = IF q = <<>> THEN <<Slash>> ELSE g[Len(q)]
  BY Spelling
<1>4. f[k] = g[k]
  BY <1>1, <1>2, <1>3, SpellSame
<1>5. /\ f[k] \in Text /\ f[k + 1] \in Text /\ m \in Text
      /\ f[k + 1] = f[k] \o <<Slash>> \o m
  BY <1>1, <1>2, SpellStep
<1>6. StartsWith(f[Len(p)], f[k + 1])
  BY <1>1, <1>2, SpellGrows
<1>7. m # <<>>
  BY <1>1 DEF Proper
<1>8. f[Len(p)] \in Text
  BY <1>1, <1>2 DEF Spell
<1>. HIDE DEF m
<1>9. /\ Len(f[k + 1]) = Len(f[k]) + 1 + Len(m)
      /\ \A i \in 1 .. Len(f[k]) : f[k + 1][i] = f[k][i]
      /\ f[k + 1][Len(f[k]) + 1] = Slash
  <2>. DEFINE a == f[k]
              x == a \o <<Slash>> \o m
  <2>1. a \in Text /\ x = f[k + 1]
    BY <1>5
  <2>. HIDE DEF a
  <2>2. /\ Len(x) = Len(a) + 1 + Len(m)
        /\ \A i \in 1 .. Len(a) : x[i] = a[i]
        /\ x[Len(a) + 1] = Slash
    BY <1>5, <2>1, Glue
  <2>. HIDE DEF x
  <2>. QED  BY <2>1, <2>2 DEF a
<1>10. Len(f[k]) \in Nat /\ Len(m) \in Nat \ {0} /\ Len(f[Len(p)]) \in Nat
  BY <1>5, <1>7, <1>8 DEF Text
<1>11. CASE q # <<>>
  <2>1. PathString(q) = f[k]
    BY <1>3, <1>4, <1>11
  <2>2. StartsWith(f[Len(p)], f[k]) /\ Len(f[Len(p)]) > Len(f[k])
    BY <1>6, <1>9, <1>10 DEF StartsWith
  <2>. QED  BY <1>2, <1>5, <1>8, <2>1, <2>2
<1>12. CASE q = <<>>
  <2>1. k = 0 /\ Len(f[k]) = 0
    BY <1>2, <1>12 DEF Spell
  <2>2. PathString(q) = <<Slash>>
    BY <1>3, <1>12
  <2>3. f[Len(p)][1] = Slash /\ Len(f[Len(p)]) > 1
    BY <1>6, <1>9, <1>10, <2>1 DEF StartsWith
  <2>4. <<Slash>> \in Text /\ Len(<<Slash>>) = 1 /\ <<Slash>>[1] = Slash
    BY DEF Text, Slash
  <2>. QED  BY <1>2, <1>8, <2>2, <2>3, <2>4 DEF StartsWith
<1>. QED  BY <1>11, <1>12

\* A directory is never in order behind what is below it: no header leads
\* back to a directory that has entries already.
LEMMA NoWayBack ==
  ASSUME NEW p \in Seq(Strings), NEW q \in Seq(Strings), Proper(p),
         Len(q) < Len(p), SameNames(p, q, Len(q))
  PROVE  ~ PathIsLexicographicallyOrdered(PathString(p), PathString(q))
BY BelowIsLonger, LongerRefused

LEMMA ProperName ==
  ASSUME NEW p \in Seq(Strings), Proper(p), NEW i \in Nat, i < Len(p)
  PROVE  /\ Bytes[p[i + 1]] \in Text
         /\ Bytes[p[i + 1]] # <<>> /\ SlashFree(Bytes[p[i + 1]])
<1>1. i + 1 \in 1 .. Len(p)
  OBVIOUS
<1>. QED  BY <1>1, NameText DEF Proper

\* A header whose directory is the one of p, or one above it, is in order
\* behind p only if it is in the order of the tree.
THEOREM EntryOrder ==
  ASSUME NEW p \in Seq(Strings), NEW q \in Seq(Strings), Proper(p), Proper(q),
         NEW k \in Nat, Len(q) = k + 1, k <= Len(p), SameNames(p, q, k),
         PathIsLexicographicallyOrdered(PathString(p), PathString(q))
  PROVE  TreeLeq(p, q)
<1>1. CASE k = Len(p)
  <2>1. Parts(p, q, k)
    BY <1>1 DEF Parts
  <2>. QED  BY <2>1 DEF TreeLeq
<1>2. CASE k < Len(p)
  <2>. DEFINE m == Bytes[p[k + 1]]
              n == Bytes[q[k + 1]]
  <2>1. p # <<>> /\ q # <<>> /\ k < Len(q)
    BY <1>2
  <2>2. PICK f : Spell(p, f) /\ PathString(p) = f[Len(p)]
    BY <2>1, Spelling
  <2>3. PICK g : Spell(q, g) /\ PathString(q) = g[k + 1]
    BY <2>1, Spelling
  <2>4. f[k] = g[k]
    BY <1>2, <2>1, <2>2, <2>3, SpellSame
  <2>5. /\ f[k] \in Text /\ f[k + 1] = f[k] \o <<Slash>> \o m
        /\ g[k + 1] = f[k] \o <<Slash>> \o n /\ g[k + 1] \in Text
    BY <1>2, <2>1, <2>2, <2>3, <2>4, SpellStep
  <2>6. StartsWith(f[Len(p)], f[k + 1])
    BY <1>2, <2>2, SpellGrows
  <2>7. f[Len(p)] \in Text
    BY <1>2, <2>2 DEF Spell
  <2>8. m \in Text /\ n \in Text /\ SlashFree(m)
    BY <1>2, <2>1, ProperName
  <2>9. StringLeq(m, n)
    <3>. DEFINE a == f[k]
                s == f[Len(p)]
                t == g[k + 1]
    <3>1. /\ s \in Text /\ t \in Text /\ a \in Text
          /\ StartsWith(s, a \o <<Slash>> \o m) /\ t = a \o <<Slash>> \o n
          /\ PathIsLexicographicallyOrdered(s, t)
      BY <2>2, <2>3, <2>5, <2>6, <2>7
    <3>. HIDE DEF a, s, t, m, n
    <3>. QED  BY <2>8, <3>1, SegmentOrder
  <2>10. CASE m # n
    <3>1. Parts(p, q, k)
      BY <1>2, <2>1, <2>9, <2>10 DEF Parts
    <3>. QED  BY <3>1 DEF TreeLeq
  <2>11. CASE m = n
    <3>1. SameNames(p, q, k + 1)
      BY <2>11 DEF SameNames
    <3>2. Len(p) = k + 1
      BY <1>2, <3>1, NoWayBack
    <3>3. Parts(p, q, k + 1)
      BY <3>1, <3>2 DEF Parts
    <3>. QED  BY <3>3 DEF TreeLeq
  <2>. QED  BY <2>10, <2>11
<1>. QED  BY <1>1, <1>2

\* Where two strings first differ decides, and where one ends so does its
\* length.
LEMMA OrderedAt ==
  ASSUME NEW s \in Text, NEW t \in Text, NEW k \in Nat, k <= Len(s), k <= Len(t),
         \A i \in 1 .. k : s[i] = t[i],
         \/ k = Len(s)
         \/ /\ k < Len(s) /\ k < Len(t)
            /\ \/ s[k + 1] < t[k + 1]
               \/ s[k + 1] = Slash /\ t[k + 1] # Slash
  PROVE  PathIsLexicographicallyOrdered(s, t)
<1>. DEFINE d == FirstDiff(s, t)
<1>1. /\ d \in 0 .. Len(s) /\ d \in 0 .. Len(t)
      /\ d = 0 => \A i \in Nat \ {0} : i <= Len(s) /\ i <= Len(t) => s[i] = t[i]
      /\ d # 0 => s[d] # t[d] /\ \A i \in Nat \ {0} : i < d => s[i] = t[i]
  BY FirstDiffIs, Zenon
<1>2. /\ Len(s) \in Nat /\ Len(t) \in Nat
      /\ \A i \in Nat : i < Len(s) => s[i + 1] \in Int
      /\ \A i \in Nat : i < Len(t) => t[i + 1] \in Int
  BY ByteOf DEF Text
<1>3. PathIsLexicographicallyOrdered(s, t) <=>
        IF d = 0 THEN Len(s) <= Len(t)
        ELSE s[d] < t[d] \/ (s[d] = Slash /\ t[d] # Slash)
  BY OrderIs
<1>. HIDE DEF d
<1>4. d # 0 => d > k
  BY <1>1, <1>2
<1>5. CASE k = Len(s)
  BY <1>1, <1>2, <1>3, <1>4, <1>5
<1>6. CASE k < Len(s)
  <2>1. s[k + 1] # t[k + 1]
    BY <1>2, <1>6
  <2>2. d = k + 1
    BY <1>1, <1>2, <1>4, <1>6, <2>1
  <2>. QED  BY <1>3, <1>6, <2>2
<1>. QED  BY <1>2, <1>5, <1>6

\* Two different names in order, each with something behind it: the string
\* with the smaller name comes first, also where it is the shorter one and a
\* slash follows it.
LEMMA SegmentAccepted ==
  ASSUME NEW s \in Text, NEW t \in Text, NEW a \in Text, NEW m \in Text, NEW n \in Text,
         StartsWith(s, a \o <<Slash>> \o m), StartsWith(t, a \o <<Slash>> \o n),
         \/ s = a \o <<Slash>> \o m
         \/ StartsWith(s, a \o <<Slash>> \o m \o <<Slash>>),
         SlashFree(n), StringLeq(m, n), m # n
  PROVE  PathIsLexicographicallyOrdered(s, t)
<1>. DEFINE x == a \o <<Slash>> \o m
            y == a \o <<Slash>> \o n
            l == Len(a) + 1
<1>1. /\ l \in Nat /\ Len(m) \in Nat /\ Len(n) \in Nat /\ Len(s) \in Nat /\ Len(t) \in Nat
      /\ Len(a) \in Nat
  BY DEF Text
<1>2. /\ x \in Text /\ Len(x) = l + Len(m) /\ Len(y) = l + Len(n)
      /\ \A i \in 1 .. Len(m) : x[l + i] = m[i]
      /\ \A i \in 1 .. Len(n) : y[l + i] = n[i]
      /\ \A i \in 1 .. l : x[i] = y[i]
  <2>1. /\ x \in Text /\ Len(x) = l + Len(m) /\ Len(y) = l + Len(n)
        /\ \A i \in 1 .. Len(m) : x[l + i] = m[i]
        /\ \A i \in 1 .. Len(n) : y[l + i] = n[i]
    BY Glue
  <2>2. \A i \in 1 .. Len(a) : x[i] = a[i]
    BY Glue
  <2>3. \A i \in 1 .. Len(a) : y[i] = a[i]
    BY Glue
  <2>4. x[Len(a) + 1] = Slash /\ y[Len(a) + 1] = Slash
    BY Glue
  <2>. HIDE DEF x, y
  <2>5. ASSUME NEW i \in 1 .. l PROVE x[i] = y[i]
    <3>1. i \in 1 .. Len(a) \/ i = Len(a) + 1
      BY <1>1
    <3>. QED  BY <2>2, <2>3, <2>4, <3>1
  <2>. QED  BY <2>1, <2>5
<1>3. s # x => Len(s) > Len(x) /\ s[Len(x) + 1] = Slash
  <2>. SUFFICES ASSUME StartsWith(s, x \o <<Slash>>)
                PROVE  Len(s) > Len(x) /\ s[Len(x) + 1] = Slash
    OBVIOUS
  <2>1. /\ Len(x) \in Nat /\ Len(x \o <<Slash>>) = Len(x) + 1
        /\ (x \o <<Slash>>)[Len(x) + 1] = Slash
    <3>. HIDE DEF x
    <3>. QED  BY <1>2, SlashBehind
  <2>. HIDE DEF x
  <2>. QED  BY <1>1, <2>1 DEF StartsWith
<1>. HIDE DEF x, y, l
<1>4. /\ Len(x) <= Len(s) /\ \A i \in 1 .. Len(x) : s[i] = x[i]
      /\ Len(y) <= Len(t) /\ \A i \in 1 .. Len(y) : t[i] = y[i]
  BY DEF x, y, StartsWith
<1>5. PICK j \in Nat : /\ j <= Len(m) /\ j <= Len(n)
                       /\ \A i \in 1 .. j : m[i] = n[i]
                       /\ j < Len(m) => j < Len(n) /\ m[j + 1] < n[j + 1]
  BY StringLeqIs
<1>6. j < Len(n)
  <2>. SUFFICES ASSUME j = Len(n) PROVE FALSE
    BY <1>1, <1>5
  <2>1. Len(m) = Len(n) /\ \A i \in 1 .. Len(m) : m[i] = n[i]
    BY <1>1, <1>5
  <2>. QED  BY <2>1 DEF Text
<1>. DEFINE k == l + j
<1>7. k \in Nat /\ k <= Len(s) /\ k < Len(t) /\ k + 1 = l + (j + 1)
  BY <1>1, <1>2, <1>4, <1>5, <1>6
<1>8. ASSUME NEW i \in 1 .. k PROVE s[i] = t[i]
  <2>1. i \in 1 .. Len(x) /\ i \in 1 .. Len(y)
    BY <1>1, <1>2, <1>5
  <2>2. x[i] = y[i]
    <3>1. CASE i \in 1 .. l
      BY <1>2, <3>1
    <3>2. CASE i \notin 1 .. l
      <4>. DEFINE c == i - l
      <4>1. c \in 1 .. j /\ i = l + c /\ c \in 1 .. Len(m) /\ c \in 1 .. Len(n)
        BY <1>1, <1>5, <3>2
      <4>. HIDE DEF c
      <4>2. x[i] = m[c] /\ y[i] = n[c]
        BY <1>2, <4>1
      <4>. QED  BY <1>5, <4>1, <4>2
    <3>. QED  BY <3>1, <3>2
  <2>. QED  BY <1>4, <2>1, <2>2
<1>9. t[k + 1] = n[j + 1] /\ n[j + 1] # Slash
  <2>1. j + 1 \in 1 .. Len(n) /\ k + 1 \in 1 .. Len(y)
    BY <1>1, <1>2, <1>5, <1>6
  <2>. QED  BY <1>2, <1>4, <1>7, <2>1 DEF SlashFree
<1>10. CASE j < Len(m)
  <2>1. j + 1 \in 1 .. Len(m) /\ k + 1 \in 1 .. Len(x) /\ k < Len(s)
    BY <1>1, <1>2, <1>4, <1>5, <1>10
  <2>2. s[k + 1] = m[j + 1]
    BY <1>2, <1>4, <1>7, <2>1
  <2>3. s[k + 1] < t[k + 1]
    BY <1>5, <1>9, <1>10, <2>2
  <2>. HIDE DEF k
  <2>. QED  BY <1>7, <1>8, <2>1, <2>3, OrderedAt
<1>11. CASE j = Len(m)
  <2>1. k = Len(x)
    BY <1>2, <1>11
  <2>2. CASE s = x
    <3>. HIDE DEF k
    <3>1. k <= Len(t) /\ k = Len(s)
      BY <1>1, <1>7, <2>1, <2>2
    <3>. QED  BY <1>7, <1>8, <3>1, OrderedAt
  <2>3. CASE s # x
    <3>. HIDE DEF k
    <3>1. k <= Len(t) /\ k < Len(s) /\ s[k + 1] = Slash /\ t[k + 1] # Slash
      BY <1>1, <1>3, <1>7, <1>9, <2>1, <2>3
    <3>. QED  BY <1>7, <1>8, <3>1, OrderedAt
  <2>. QED  BY <2>2, <2>3
<1>. QED  BY <1>1, <1>5, <1>10, <1>11

\* Paths in the order of the tree are in order for the code: no archive is
\* refused for an order that its own tree gives it.
THEOREM TreeOrderAccepted ==
  ASSUME NEW p \in Seq(Strings), NEW q \in Seq(Strings), Proper(p), Proper(q),
         TreeLeq(p, q)
  PROVE  PathIsLexicographicallyOrdered(PathString(p), PathString(q))
<1>1. PICK k \in Nat : Parts(p, q, k)
  BY DEF TreeLeq
<1>2. k <= Len(p) /\ k <= Len(q) /\ SameNames(p, q, k)
  BY <1>1 DEF Parts
<1>3. CASE k = Len(p) /\ k < Len(q)
  <2>1. SameNames(q, p, Len(p))
    BY <1>2, <1>3 DEF SameNames
  <2>2. /\ PathString(q) \in Text /\ PathString(p) \in Text
        /\ StartsWith(PathString(q), PathString(p))
        /\ Len(PathString(q)) > Len(PathString(p))
    BY <1>3, <2>1, BelowIsLonger
  <2>. DEFINE s == PathString(p)
              t == PathString(q)
  <2>3. Len(s) \in Nat /\ Len(s) <= Len(t) /\ \A i \in 1 .. Len(s) : s[i] = t[i]
    BY <2>2 DEF StartsWith, Text
  <2>. HIDE DEF s, t
  <2>4. s \in Text /\ t \in Text
    BY <2>2 DEF s, t
  <2>5. PathIsLexicographicallyOrdered(s, t)
    BY <2>3, <2>4, OrderedAt
  <2>. QED  BY <2>5 DEF s, t
<1>4. CASE k = Len(p) /\ k = Len(q)
  <2>1. PICK f : /\ Spell(p, f)
                 /\ PathString(p) = IF p = <<>> THEN <<Slash>> ELSE f[Len(p)]
    BY Spelling
  <2>2. PICK g : /\ Spell(q, g)
                 /\ PathString(q) = IF q = <<>> THEN <<Slash>> ELSE g[Len(q)]
    BY Spelling
  <2>3. f[k] = g[k]
    BY <1>2, <2>1, <2>2, SpellSame
  <2>4. PathString(p) = PathString(q)
    <3>1. p = <<>> <=> q = <<>>
      <4>1. \A x \in Seq(Strings) : Len(x) = 0 <=> x = <<>>
        OBVIOUS
      <4>. QED  BY <1>4, <4>1
    <3>. QED  BY <1>4, <2>1, <2>2, <2>3, <3>1
  <2>. DEFINE s == PathString(p)
  <2>5. s \in Text
    <3>1. f[Len(p)] \in Text /\ <<Slash>> \in Text
      BY <2>1 DEF Spell, Text, Slash
    <3>. QED  BY <2>1, <3>1
  <2>. HIDE DEF s
  <2>6. PathIsLexicographicallyOrdered(s, s)
    <3>1. Len(s) \in Nat
      BY <2>5 DEF Text
    <3>. QED  BY <2>5, <3>1, OrderedAt
  <2>. QED  BY <2>4, <2>6 DEF s
<1>5. CASE k < Len(p)
  <2>. DEFINE m == Bytes[p[k + 1]]
              n == Bytes[q[k + 1]]
  <2>1. k < Len(q) /\ StringLeq(m, n) /\ m # n /\ p # <<>> /\ q # <<>>
    BY <1>1, <1>5 DEF Parts
  <2>2. PICK f : Spell(p, f) /\ PathString(p) = f[Len(p)]
    BY <2>1, Spelling
  <2>3. PICK g : Spell(q, g) /\ PathString(q) = g[Len(q)]
    BY <2>1, Spelling
  <2>4. f[k] = g[k]
    BY <1>2, <2>2, <2>3, SpellSame
  <2>5. /\ f[k] \in Text /\ f[k + 1] = f[k] \o <<Slash>> \o m
        /\ g[k + 1] = f[k] \o <<Slash>> \o n
    BY <1>5, <2>1, <2>2, <2>3, <2>4, SpellStep
  <2>6. StartsWith(f[Len(p)], f[k + 1]) /\ StartsWith(g[Len(q)], g[k + 1])
    BY <1>5, <2>1, <2>2, <2>3, SpellGrows
  <2>7. f[Len(p)] \in Text /\ g[Len(q)] \in Text
    <3>1. Len(p) \in 0 .. Len(p) /\ Len(q) \in 0 .. Len(q)
      OBVIOUS
    <3>. QED  BY <2>2, <2>3, <3>1 DEF Spell
  <2>8. m \in Text /\ n \in Text /\ SlashFree(n)
    BY <1>5, <2>1, ProperName
  <2>9. f[Len(p)] = f[k + 1] \/ StartsWith(f[Len(p)], f[k + 1] \o <<Slash>>)
    <3>1. CASE Len(p) = k + 1
      BY <3>1
    <3>2. CASE Len(p) # k + 1
      <4>. DEFINE j == k + 1
                  c == f[j]
                  b == Bytes[p[j + 1]]
      <4>1. j \in Nat /\ j < Len(p) /\ j + 1 \in 0 .. Len(p) /\ Len(p) \in (j + 1) .. Len(p)
        BY <1>5, <3>2
      <4>. HIDE DEF j
      <4>2. c \in Text /\ b \in Text /\ f[j + 1] = c \o <<Slash>> \o b
        BY <2>2, <4>1, SpellStep
      <4>3. StartsWith(f[Len(p)], f[j + 1])
        BY <2>2, <4>1, SpellGrows
      <4>. HIDE DEF b, c
      <4>4. StartsWith(f[j + 1], c \o <<Slash>>)
        <5>. DEFINE x == c \o <<Slash>> \o b
        <5>1. Len(c) \in Nat /\ Len(b) \in Nat
          BY <4>2 DEF Text
        <5>2. /\ Len(c \o <<Slash>>) = Len(c) + 1
              /\ \A i \in 1 .. Len(c) : (c \o <<Slash>>)[i] = c[i]
              /\ (c \o <<Slash>>)[Len(c) + 1] = Slash
          BY <4>2, SlashBehind
        <5>3. /\ Len(x) = Len(c) + 1 + Len(b)
              /\ \A i \in 1 .. Len(c) : x[i] = c[i]
              /\ x[Len(c) + 1] = Slash
          BY <4>2, Glue
        <5>. DEFINE y == c \o <<Slash>>
        <5>. HIDE DEF x, y
        <5>4. Len(y) <= Len(x) /\ \A i \in 1 .. Len(y) : x[i] = y[i]
          BY <5>1, <5>2, <5>3 DEF y
        <5>. QED  BY <4>2, <5>4 DEF StartsWith, x, y
      <4>5. StartsWith(f[Len(p)], c \o <<Slash>>)
        <5>. DEFINE y == c \o <<Slash>>
        <5>1. Len(y) \in Nat /\ Len(f[j + 1]) \in Nat
          <6>1. y \in Text /\ f[j + 1] \in Text
            BY <2>2, <4>1, <4>2 DEF Text, Slash, Spell
          <6>. QED  BY <6>1 DEF Text
        <5>. HIDE DEF y
        <5>2. StartsWith(f[j + 1], y)
          BY <4>4 DEF y
        <5>3. StartsWith(f[Len(p)], y)
          BY <4>3, <5>1, <5>2, <2>7 DEF StartsWith, Text
        <5>. QED  BY <5>3 DEF y
      <4>. QED  BY <4>5 DEF c, j
    <3>. QED  BY <3>1, <3>2
  <2>. DEFINE a == f[k]
              s == f[Len(p)]
              t == g[Len(q)]
  <2>10. /\ s \in Text /\ t \in Text /\ a \in Text
         /\ StartsWith(s, a \o <<Slash>> \o m) /\ StartsWith(t, a \o <<Slash>> \o n)
         /\ \/ s = a \o <<Slash>> \o m
            \/ StartsWith(s, a \o <<Slash>> \o m \o <<Slash>>)
    BY <2>5, <2>6, <2>7, <2>9
  <2>11. PathIsLexicographicallyOrdered(s, t)
    <3>. HIDE DEF a, s, t, m, n
    <3>. QED  BY <2>1, <2>8, <2>10, SegmentAccepted
  <2>. QED  BY <2>2, <2>3, <2>11
<1>. QED  BY <1>2, <1>3, <1>4, <1>5
=============================================================================
