-------------------------- MODULE ReferencesProofs --------------------------
(***************************************************************************)
(* Theorems about References, for every length of a hash, every alphabet,  *)
(* any candidates and data cut into chunks in any way.                     *)
(*                                                                         *)
(* That a delimited hash is found rests on RunInBuf: in the first          *)
(* refLength bytes of a run the buffer holds the run, and all of it.       *)
(***************************************************************************)
EXTENDS References, SequenceTheorems, TLAPS

BufIsTail ==
  /\ Len(buf) <= Len(data)
  /\ \A k \in 1 .. Len(buf) : buf[k] = data[Len(data) - Len(buf) + k]

\* A run of bytes of the alphabet begins at byte i and lasts to the end.
RunFrom(i) ==
  /\ i = 1 \/ data[i - 1] \notin Alphabet
  /\ \A j \in i .. Len(data) : data[j] \in Alphabet

RunInBuf ==
  \A i \in 1 .. Len(data) + 1 :
    RunFrom(i) /\ Len(data) - i + 1 < refLength => Len(buf) = Len(data) - i + 1

IInv == TypeOK /\ BufIsTail /\ RunInBuf /\ HitsOccur /\ DelimitedFound
-----------------------------------------------------------------------------
LEMMA LengthPositive == refLength \in Nat \ {0}
BY ReferencesAssumption

LEMMA HashType == \A h \in DOMAIN hashes : h \in [1 .. refLength -> Chars]
BY ReferencesAssumption DEF hashes

LEMMA InitInv == Init => IInv
<1>. SUFFICES ASSUME Init PROVE IInv
  OBVIOUS
<1>1. TypeOK
  BY ReferencesAssumption DEF Init, TypeOK
<1>2. BufIsTail /\ RunInBuf
  BY ReferencesAssumption DEF Init, BufIsTail, RunInBuf
<1>3. HitsOccur /\ DelimitedFound
  BY DEF Init, HitsOccur, DelimitedFound
<1>. QED  BY <1>1, <1>2, <1>3 DEF IInv

LEMMA SameScan ==
  ASSUME IInv, UNCHANGED <<hits, buf, data>>, rest' \in Seq(Chars)
  PROVE  IInv'
<1>1. TypeOK'
  BY DEF IInv, TypeOK, hashes
<1>2. BufIsTail' /\ RunInBuf'
  BY DEF IInv, BufIsTail, RunInBuf, RunFrom
<1>3. HitsOccur' /\ DelimitedFound'
  BY DEF IInv, HitsOccur, DelimitedFound, StandsAt, hashes
<1>. QED  BY <1>1, <1>2, <1>3 DEF IInv

LEMMA WriteInv ==
  ASSUME IInv, NEW s \in Chunks, Write(s)
  PROVE  IInv'
<1>1. s \in Seq(Chars)
  BY ReferencesAssumption
<1>. QED  BY <1>1, SameScan DEF Write

\* What stood in the data stands there when a byte is appended.
LEMMA StillStands ==
  ASSUME data \in Seq(Chars), NEW c \in Chars, data' = Append(data, c),
         NEW h, NEW i \in Nat \ {0}, i + refLength - 1 <= Len(data)
  PROVE  StandsAt(h, i)' <=> StandsAt(h, i)
<1>1. Len(data') = Len(data) + 1 /\ \A k \in 1 .. Len(data) : data'[k] = data[k]
  OBVIOUS
<1>2. \A k \in 1 .. refLength : i + k - 1 \in 1 .. Len(data)
  BY LengthPositive
<1>3. \A k \in 1 .. refLength : data'[i + k - 1] = data[i + k - 1]
  BY <1>1, <1>2
<1>4. i + refLength - 1 <= Len(data')
  BY <1>1, LengthPositive
<1>. QED  BY <1>3, <1>4 DEF StandsAt
-----------------------------------------------------------------------------
(* One round of the loop. *)

LEMMA OtherByteInv ==
  ASSUME IInv, rest # <<>>, NEW c \in Chars, c \notin Alphabet, OtherByte(c),
         rest' \in Seq(Chars), data' = Append(data, c)
  PROVE  IInv'
<1>1. /\ data \in Seq(Chars) /\ data' \in Seq(Chars) /\ Len(data') = Len(data) + 1
      /\ data'[Len(data) + 1] = c /\ \A k \in 1 .. Len(data) : data'[k] = data[k]
  BY DEF IInv, TypeOK
<1>2. buf' = <<>> /\ hits' = hits /\ Len(buf') = 0
  BY DEF OtherByte
<1>3. TypeOK'
  BY <1>1, <1>2, ReferencesAssumption DEF IInv, TypeOK, hashes
<1>4. BufIsTail'
  BY <1>1, <1>2 DEF BufIsTail
<1>5. RunInBuf'
  <2>. SUFFICES ASSUME NEW i \in 1 .. Len(data') + 1, RunFrom(i)'
                PROVE  Len(data') - i + 1 = 0
    BY <1>2 DEF RunInBuf
  <2>1. i \in 1 .. Len(data) + 1 => data'[Len(data) + 1] \in Alphabet
    BY <1>1 DEF RunFrom
  <2>. QED  BY <1>1, <2>1
<1>6. HitsOccur'
  <2>. SUFFICES ASSUME NEW h \in hits PROVE \E i \in 1 .. Len(data') : StandsAt(h, i)'
    BY <1>2 DEF HitsOccur
  <2>1. PICK i \in 1 .. Len(data) : StandsAt(h, i)
    BY DEF IInv, HitsOccur
  <2>2. i + refLength - 1 <= Len(data)
    BY <2>1 DEF StandsAt
  <2>3. StandsAt(h, i)'
    BY <1>1, <2>1, <2>2, StillStands
  <2>. QED  BY <1>1, <2>3
<1>7. DelimitedFound'
  <2>. SUFFICES ASSUME NEW h \in DOMAIN hashes, NEW i \in 1 .. Len(data'),
                       \A k \in 1 .. refLength : h[k] \in Alphabet,
                       StandsAt(h, i)', i = 1 \/ data'[i - 1] \notin Alphabet
                PROVE  h \in hits
    BY <1>2 DEF DelimitedFound, hashes
  <2>1. i + refLength - 1 <= Len(data)
    <3>1. i + refLength - 1 <= Len(data) + 1
      BY <1>1 DEF StandsAt
    <3>2. ASSUME i + refLength - 1 = Len(data) + 1 PROVE FALSE
      <4>1. refLength \in 1 .. refLength
        BY ReferencesAssumption
      <4>2. data'[i + refLength - 1] = h[refLength]
        BY <4>1 DEF StandsAt
      <4>. QED  BY <1>1, <3>2, <4>1, <4>2
    <3>. QED  BY <1>1, <3>1, <3>2, ReferencesAssumption
  <2>2. StandsAt(h, i)
    BY <1>1, <2>1, StillStands
  <2>3. i \in 1 .. Len(data) /\ (i = 1 \/ data[i - 1] \notin Alphabet)
    BY <1>1, <2>1, ReferencesAssumption
  <2>. QED  BY <2>2, <2>3 DEF IInv, DelimitedFound
<1>. QED  BY <1>3, <1>4, <1>5, <1>6, <1>7 DEF IInv

LEMMA HashByteInv ==
  ASSUME IInv, rest # <<>>, NEW c \in Alphabet, HashByte(c),
         rest' \in Seq(Chars), data' = Append(data, c)
  PROVE  IInv'
<1>. DEFINE b == Append(buf, c)
<1>1. /\ Len(data) \in Nat /\ data \in Seq(Chars) /\ data' \in Seq(Chars) /\ Len(data') = Len(data) + 1
      /\ data'[Len(data) + 1] = c /\ \A k \in 1 .. Len(data) : data'[k] = data[k]
  BY ReferencesAssumption DEF IInv, TypeOK
<1>2. /\ Len(buf) \in Nat /\ buf \in Seq(Alphabet) /\ b \in Seq(Alphabet) /\ Len(b) = Len(buf) + 1
      /\ b[Len(buf) + 1] = c /\ (\A k \in 1 .. Len(buf) : b[k] = buf[k])
      /\ Len(buf) < refLength
  BY DEF IInv, TypeOK
<1>3. \/ Len(b) = refLength /\ buf' = <<>> /\ hits' = hits \cup ({b} \cap DOMAIN hashes)
      \/ Len(b) < refLength /\ buf' = b /\ hits' = hits
  BY <1>2, LengthPositive DEF HashByte
<1>. HIDE DEF b
<1>4. \A k \in 1 .. Len(b) : b[k] = data'[Len(data') - Len(b) + k]
  <2>. SUFFICES ASSUME NEW k \in 1 .. Len(b) PROVE b[k] = data'[Len(data') - Len(b) + k]
    OBVIOUS
  <2>1. Len(data') - Len(b) + k = Len(data) - Len(buf) + k
    BY <1>1, <1>2
  <2>2. CASE k = Len(buf) + 1
    <3>1. Len(data) - Len(buf) + k = Len(data) + 1
      BY <1>1, <1>2, <2>2
    <3>. QED  BY <1>1, <1>2, <2>1, <2>2, <3>1
  <2>3. CASE k # Len(buf) + 1
    <3>1. k \in 1 .. Len(buf) /\ Len(data) - Len(buf) + k \in 1 .. Len(data)
      BY <1>1, <1>2, <2>3 DEF IInv, BufIsTail
    <3>2. buf[k] = data[Len(data) - Len(buf) + k]
      BY <3>1 DEF IInv, BufIsTail
    <3>. QED  BY <1>1, <1>2, <2>1, <3>1, <3>2
  <2>. QED  BY <2>2, <2>3
<1>5. Len(b) <= Len(data')
  BY <1>1, <1>2 DEF IInv, BufIsTail
<1>6. TypeOK'
  <2>1. hits' \subseteq DOMAIN hashes
    BY <1>3 DEF IInv, TypeOK
  <2>2. buf' \in Seq(Alphabet) /\ Len(buf') < refLength
    <3>1. <<>> \in Seq(Alphabet) /\ Len(<<>>) = 0
      OBVIOUS
    <3>2. CASE buf' = <<>>
      BY <3>1, <3>2, LengthPositive
    <3>3. CASE buf' = b /\ Len(b) < refLength
      BY <1>2, <3>3
    <3>. QED  BY <1>3, <3>2, <3>3
  <2>. QED  BY <1>1, <2>1, <2>2 DEF TypeOK, hashes
<1>7. BufIsTail'
  <2>1. CASE buf' = <<>>
    BY <1>1, <2>1 DEF BufIsTail
  <2>2. CASE buf' = b
    BY <1>4, <1>5, <2>2 DEF BufIsTail
  <2>. QED  BY <1>3, <2>1, <2>2
<1>8. ASSUME NEW i \in 1 .. Len(data) + 1, RunFrom(i)' PROVE RunFrom(i)
  BY <1>1, <1>8 DEF RunFrom
<1>9. RunInBuf'
  <2>. SUFFICES ASSUME NEW i \in 1 .. Len(data') + 1, RunFrom(i)', Len(data') - i + 1 < refLength
                PROVE  Len(buf') = Len(data') - i + 1
    BY DEF RunInBuf
  <2>1. i # Len(data) + 2
    BY <1>1, LengthPositive DEF RunFrom
  <2>2. i \in 1 .. Len(data) + 1
    BY <1>1, <2>1
  <2>3. Len(buf) = Len(data) - i + 1
    <3>1. RunFrom(i) /\ Len(data) - i + 1 < refLength
      BY <1>1, <1>8, <2>2, LengthPositive
    <3>. QED  BY <2>2, <3>1 DEF IInv, RunInBuf
  <2>4. Len(b) < refLength /\ Len(b) = Len(data') - i + 1
    BY <1>1, <1>2, <2>2, <2>3, LengthPositive
  <2>. QED  BY <1>3, <2>4, LengthPositive
<1>10. HitsOccur'
  <2>. SUFFICES ASSUME NEW h \in hits' PROVE \E i \in 1 .. Len(data') : StandsAt(h, i)'
    BY DEF HitsOccur
  <2>1. CASE h \in hits
    <3>1. PICK i \in 1 .. Len(data) : StandsAt(h, i)
      BY <2>1 DEF IInv, HitsOccur
    <3>2. i + refLength - 1 <= Len(data)
      BY <3>1 DEF StandsAt
    <3>3. StandsAt(h, i)'
      BY <1>1, <3>1, <3>2, LengthPositive, StillStands
    <3>. QED  BY <1>1, <3>3
  <2>2. CASE h \notin hits
    <3>1. h = b /\ Len(b) = refLength
      BY <1>3, <2>2
    <3>2. PICK i \in 1 .. Len(data') : i + refLength - 1 = Len(data')
      <4>1. Len(data') - refLength + 1 \in 1 .. Len(data')
        BY <1>1, <1>5, <3>1, LengthPositive
      <4>2. (Len(data') - refLength + 1) + refLength - 1 = Len(data')
        BY <1>1, LengthPositive
      <4>. QED  BY <4>1, <4>2
    <3>3. StandsAt(h, i)'
      <4>1. \A k \in 1 .. refLength : i + k - 1 = Len(data') - Len(b) + k
        BY <1>1, <3>1, <3>2, LengthPositive
      <4>2. \A k \in 1 .. refLength : data'[i + k - 1] = h[k]
        BY <1>4, <3>1, <4>1
      <4>3. i + refLength - 1 <= Len(data')
        BY <1>1, <3>2
      <4>. QED  BY <4>2, <4>3 DEF StandsAt
    <3>. QED  BY <3>2, <3>3
  <2>. QED  BY <2>1, <2>2
<1>11. DelimitedFound'
  <2>. SUFFICES ASSUME NEW h \in DOMAIN hashes, NEW i \in 1 .. Len(data'),
                       \A k \in 1 .. refLength : h[k] \in Alphabet,
                       StandsAt(h, i)', i = 1 \/ data'[i - 1] \notin Alphabet
                PROVE  h \in hits'
    BY DEF DelimitedFound, hashes
  <2>1. i + refLength - 1 <= Len(data) + 1
    BY <1>1 DEF StandsAt
  <2>2. CASE i + refLength - 1 <= Len(data)
    <3>1. StandsAt(h, i)
      BY <1>1, <2>2, LengthPositive, StillStands
    <3>2. i \in 1 .. Len(data) /\ (i = 1 \/ data[i - 1] \notin Alphabet)
      BY <1>1, <2>2, LengthPositive
    <3>3. h \in hits
      BY <3>1, <3>2 DEF IInv, DelimitedFound
    <3>. QED  BY <1>3, <3>3
  <2>3. CASE i + refLength - 1 = Len(data) + 1
    <3>1. \A k \in 1 .. refLength : data'[i + k - 1] = h[k]
      BY DEF StandsAt
    <3>2. \A j \in i .. Len(data) : data[j] \in Alphabet
      <4>. SUFFICES ASSUME NEW j \in i .. Len(data) PROVE data[j] \in Alphabet
        OBVIOUS
      <4>1. j - i + 1 \in 1 .. refLength
        BY <1>1, <2>3, LengthPositive
      <4>2. data'[i + (j - i + 1) - 1] = h[j - i + 1]
        BY <3>1, <4>1
      <4>3. i + (j - i + 1) - 1 = j /\ data'[j] = data[j]
        BY <1>1
      <4>. QED  BY <4>1, <4>2, <4>3
    <3>3. i \in 1 .. Len(data) + 1 /\ RunFrom(i)
      BY <1>1, <3>2 DEF RunFrom
    <3>4. Len(b) = refLength
      BY <1>1, <1>2, <2>3, <3>3, LengthPositive DEF IInv, RunInBuf
    <3>5. h \in [1 .. refLength -> Chars]
      BY HashType
    <3>6. \A k \in 1 .. refLength : b[k] = h[k]
      <4>1. i \in Nat /\ Len(data') = i + refLength - 1
        BY <1>1, <2>3
      <4>2. \A k \in 1 .. refLength : Len(data') - Len(b) + k = i + k - 1
        BY <3>4, <4>1, LengthPositive
      <4>. QED  BY <1>4, <3>1, <3>4, <4>2
    <3>7. b = h
      <4>1. b = [k \in 1 .. refLength |-> b[k]]
        BY <1>2, <3>4
      <4>2. h = [k \in 1 .. refLength |-> h[k]]
        BY <3>5
      <4>. QED  BY <3>6, <4>1, <4>2
    <3>. QED  BY <1>3, <3>4, <3>7
  <2>. QED  BY <1>1, <2>1, <2>2, <2>3, LengthPositive
<1>. QED  BY <1>6, <1>7, <1>9, <1>10, <1>11 DEF IInv

LEMMA ScanInv == IInv /\ Scan => IInv'
<1>. SUFFICES ASSUME IInv, Scan PROVE IInv'
  OBVIOUS
<1>1. rest \in Seq(Chars) /\ rest # <<>>
  BY DEF IInv, TypeOK, Scan
<1>2. Head(rest) \in Chars /\ Tail(rest) \in Seq(Chars)
  BY <1>1
<1>3. rest' \in Seq(Chars) /\ data' = Append(data, Head(rest))
  BY <1>2 DEF Scan
<1>. QED  BY <1>1, <1>2, <1>3, OtherByteInv, HashByteInv DEF Scan
-----------------------------------------------------------------------------
\* The inductive invariant holds of every reachable state.
THEOREM Invariance == Spec => []IInv
<1>1. IInv /\ [Next]_vars => IInv'
  <2>1. IInv /\ UNCHANGED vars => IInv'
    BY SameScan DEF IInv, TypeOK, vars
  <2>. QED  BY <2>1, WriteInv, ScanInv DEF Next
<1>. QED  BY InitInv, <1>1, PTL DEF Spec

\* The buffer never holds a whole hash between two bytes, and only hashes of
\* candidates are hits.
THEOREM TypeCorrect == Spec => []TypeOK
<1>1. IInv => TypeOK
  BY DEF IInv
<1>. QED  BY Invariance, <1>1, PTL

\* No reference is reported that does not stand in the data.
THEOREM Soundness == Spec => []HitsOccur
<1>1. IInv => HitsOccur
  BY DEF IInv
<1>. QED  BY Invariance, <1>1, PTL

\* No hash of a store path is missed, wherever the data is cut.
THEOREM Completeness == Spec => []DelimitedFound
<1>1. IInv => DelimitedFound
  BY DEF IInv
<1>. QED  BY Invariance, <1>1, PTL
=============================================================================
