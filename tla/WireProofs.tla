----------------------------- MODULE WireProofs -----------------------------
(***************************************************************************)
(* Proofs about Wire, for every width of the numbers, every block and      *)
(* every sequence of calls.                                                *)
(***************************************************************************)
EXTENDS Wire, TLAPS, SequenceTheorems

LEMMA ModSmall ==
  ASSUME NEW a \in Nat, NEW b \in Nat, a < b
  PROVE  a % b = a
BY SMT

LEMMA ModType ==
  ASSUME NEW a \in Nat
  PROVE  a % (2 * Half) \in 0 .. 2 * Half - 1
BY SMT, WireAssumption

LEMMA PadLenType ==
  ASSUME NEW n \in Nat
  PROVE  PadLen(n) \in Nat
BY SMT, WireAssumption DEF PadLen

LEMMA ZerosType ==
  ASSUME NEW n \in Nat
  PROVE  /\ Zeros(n) \in Seq(Nat) /\ Len(Zeros(n)) = n
         /\ \A i \in 1 .. n : Zeros(n)[i] = 0
BY DEF Zeros

\* What an io.Writer has once it took k of the bytes of p.
LEMMA TakenPart ==
  ASSUME NEW s \in Seq(Nat), NEW p \in Seq(Nat), NEW k \in 0 .. Len(p)
  PROVE  /\ s \o SubSeq(p, 1, k) \in Seq(Nat)
         /\ Len(s \o SubSeq(p, 1, k)) = Len(s) + k
         /\ \A i \in 1 .. Len(s) : (s \o SubSeq(p, 1, k))[i] = s[i]
         /\ \A i \in 1 .. k : (s \o SubSeq(p, 1, k))[Len(s) + i] = p[i]
<1>1. /\ SubSeq(p, 1, k) \in Seq(Nat) /\ Len(SubSeq(p, 1, k)) = k
      /\ \A i \in 1 .. k : SubSeq(p, 1, k)[i] = p[i]
  OBVIOUS
<1>. DEFINE q == SubSeq(p, 1, k)
<1>. HIDE DEF q
<1>. QED  BY <1>1 DEF q

LEMMA Joined ==
  ASSUME NEW s \in Seq(Nat), NEW t \in Seq(Nat)
  PROVE  /\ s \o t \in Seq(Nat) /\ Len(s \o t) = Len(s) + Len(t)
         /\ \A i \in 1 .. Len(s) : (s \o t)[i] = s[i]
         /\ \A i \in 1 .. Len(t) : (s \o t)[Len(s) + i] = t[i]
OBVIOUS

\* What a stream begins with, a longer one begins with.
LEMMA StillPrefix ==
  ASSUME NEW c \in Seq(Nat), NEW a \in Seq(Nat), NEW b \in Seq(Nat),
         Len(c) <= Len(a), \A i \in 1 .. Len(c) : a[i] = c[i],
         Len(a) <= Len(b), \A i \in 1 .. Len(a) : b[i] = a[i]
  PROVE  Len(c) <= Len(b) /\ \A i \in 1 .. Len(c) : b[i] = c[i]
<1>1. Len(c) \in Nat /\ Len(a) \in Nat /\ Len(b) \in Nat
  OBVIOUS
<1>2. Len(c) <= Len(b)
  BY <1>1
<1>3. ASSUME NEW i \in 1 .. Len(c) PROVE b[i] = c[i]
  <2>1. i \in 1 .. Len(a)
    BY <1>1
  <2>. QED  BY <2>1
<1>. QED  BY <1>2, <1>3

LEMMA PartOf ==
  ASSUME NEW s \in Seq(Nat), NEW t \in Seq(Nat), Len(s) <= Len(t),
         \A i \in 1 .. Len(s) : s[i] = t[i]
  PROVE  s = SubSeq(t, 1, Len(s))
<1>1. /\ SubSeq(t, 1, Len(s)) \in Seq(Nat) /\ Len(SubSeq(t, 1, Len(s))) = Len(s)
      /\ \A i \in 1 .. Len(s) : SubSeq(t, 1, Len(s))[i] = t[i]
  OBVIOUS
<1>. QED  BY <1>1, SeqEqual
-----------------------------------------------------------------------------
(* The writer. *)

\* Every byte that was let through is counted, and the stream is what was
\* let through and at most the padding.
WriterInv ==
  /\ writer = "none" =>
       /\ head = {} /\ out = <<>> /\ content = <<>>
       /\ ~ padded /\ ~ faulted /\ written = 0 /\ length = 0
  /\ writer = "open" => head = {length}
  /\ padded => head = {length}
  /\ length < Half =>
       /\ writer = "open" => written = Len(content)
       /\ Len(content) <= length
       /\ padded \/ faulted => Len(content) = length
       /\ ~ padded /\ ~ faulted => out = content
       /\ padded /\ ~ faulted => out = content \o Zeros(PadLen(length))
       /\ Len(content) <= Len(out) /\ \A i \in 1 .. Len(content) : out[i] = content[i]

\* The types of the variables of the writer.
WriterType ==
  /\ writer \in {"none", "open", "gone"}
  /\ length \in 0 .. 2 * Half - 1 /\ written \in 0 .. 2 * Half - 1
  /\ padded \in BOOLEAN /\ faulted \in BOOLEAN /\ calls \in 0 .. MaxCalls
  /\ head \subseteq {length}
  /\ out \in Seq(Nat) /\ content \in Seq(Nat)

LEMMA NewBytesWriterKeeps ==
  ASSUME WriterType, WriterInv, NewBytesWriter
  PROVE  WriterType' /\ WriterInv'
<1>1. /\ out = <<>> /\ content = <<>> /\ ~ padded /\ ~ faulted /\ written = 0 /\ writer = "none"
      /\ out' = out /\ content' = content /\ padded' = padded /\ faulted' = faulted
      /\ written' = written /\ calls' = calls
  BY DEF WriterInv, NewBytesWriter
<1>2. CASE \E n \in Lengths : writer' = "open" /\ length' = n /\ head' = {n}
  BY <1>1, <1>2, WireAssumption DEF WriterType, WriterInv
<1>3. CASE writer' = "gone" /\ UNCHANGED <<length, head>>
  BY <1>1, <1>3 DEF WriterType, WriterInv
<1>. QED  BY <1>2, <1>3 DEF NewBytesWriter

LEMMA WriteBytesKeeps ==
  ASSUME WriterType, WriterInv, NEW p \in Chunks, WriteBytes(p)
  PROVE  WriterType' /\ WriterInv'
<1>1. /\ out = <<>> /\ content = <<>> /\ ~ padded /\ ~ faulted /\ head = {}
      /\ writer' = "gone" /\ length' = Len(p) /\ written' = written /\ calls' = calls
  BY DEF WriterInv, WriteBytes
<1>2. p \in Seq(Nat) /\ Len(p) \in Nat /\ Len(p) \in 0 .. 2 * Half - 1
  BY WireAssumption
<1>3. CASE /\ head' = {Len(p)}
           /\ \E k \in 0 .. Len(p) : out' = SubSeq(p, 1, k) /\ content' = out'
           /\ UNCHANGED <<padded, faulted>>
  <2>1. PICK k \in 0 .. Len(p) : out' = SubSeq(p, 1, k) /\ content' = out'
    BY <1>3
  <2>2. out' \in Seq(Nat) /\ Len(out') = k
    BY <2>1, <1>2
  <2>. QED  BY <1>1, <1>2, <1>3, <2>1, <2>2 DEF WriterType, WriterInv
<1>4. CASE /\ head' = {Len(p)} /\ content' = p
           /\ \E k \in 0 .. PadLen(Len(p)), failed \in BOOLEAN :
                /\ k < PadLen(Len(p)) => failed
                /\ failed => PadLen(Len(p)) > 0
                /\ out' = p \o Zeros(k)
                /\ padded' = ~ failed /\ faulted' = failed
  <2>1. PICK k \in 0 .. PadLen(Len(p)), failed \in BOOLEAN :
          /\ k < PadLen(Len(p)) => failed
          /\ out' = p \o Zeros(k)
          /\ padded' = ~ failed /\ faulted' = failed
    BY <1>4
  <2>2. k \in Nat /\ PadLen(Len(p)) \in Nat
    BY <1>2, PadLenType
  <2>3. Zeros(k) \in Seq(Nat) /\ Len(Zeros(k)) = k
    BY <2>2, ZerosType
  <2>4. /\ out' \in Seq(Nat) /\ Len(out') = Len(p) + k
        /\ \A i \in 1 .. Len(p) : out'[i] = p[i]
    BY <2>1, <2>3, <1>2, Joined
  <2>5. ~ failed => out' = p \o Zeros(PadLen(Len(p)))
    BY <2>1, <2>2
  <2>6. WriterType'
    BY <1>1, <1>2, <1>4, <2>1, <2>4 DEF WriterType
  <2>7. /\ ~ padded' /\ ~ faulted' => FALSE
        /\ padded' /\ ~ faulted' => out' = content' \o Zeros(PadLen(length'))
    BY <1>1, <1>4, <2>1, <2>5
  <2>8. /\ Len(content') = length' /\ Len(content') <= Len(out')
        /\ \A i \in 1 .. Len(content') : out'[i] = content'[i]
    BY <1>1, <1>2, <1>4, <2>2, <2>4
  <2>. QED  BY <1>1, <1>2, <1>4, <2>6, <2>7, <2>8 DEF WriterInv
<1>5. CASE UNCHANGED <<head, out, content, padded, faulted>>
  BY <1>1, <1>2, <1>5 DEF WriterType, WriterInv
<1>. QED  BY <1>3, <1>4, <1>5 DEF WriteBytes

LEMMA WriteKeeps ==
  ASSUME WriterType, WriterInv, NEW p \in Chunks, Write(p)
  PROVE  WriterType' /\ WriterInv'
<1>1. /\ writer = "open" /\ writer' = writer /\ length' = length /\ padded' = padded
      /\ head' = head /\ faulted' = faulted /\ calls' \in 0 .. MaxCalls
  BY WireAssumption DEF WriterType, Write
<1>2. p \in Seq(Nat) /\ Len(p) \in Nat /\ Len(p) < Half /\ Half \in Nat
  BY WireAssumption
<1>3. CASE UNCHANGED <<out, content, written>>
  BY <1>1, <1>3 DEF WriterType, WriterInv
<1>4. CASE /\ ~ Exceeds(Len(p))
           /\ \E k \in 0 .. Len(p) : /\ out' = out \o SubSeq(p, 1, k)
                                     /\ content' = content \o SubSeq(p, 1, k)
                                     /\ written' = (written + k) % (2 * Half)
  <2>1. PICK k \in 0 .. Len(p) : /\ out' = out \o SubSeq(p, 1, k)
                                 /\ content' = content \o SubSeq(p, 1, k)
                                 /\ written' = (written + k) % (2 * Half)
    BY <1>4
  <2>2. out \in Seq(Nat) /\ content \in Seq(Nat) /\ written \in 0 .. 2 * Half - 1 /\ length \in Nat
    BY <1>2 DEF WriterType
  <2>3. /\ out' \in Seq(Nat) /\ Len(out') = Len(out) + k
        /\ \A i \in 1 .. Len(out) : out'[i] = out[i]
    BY <2>1, <2>2, <1>2, TakenPart
  <2>4. /\ content' \in Seq(Nat) /\ Len(content') = Len(content) + k
        /\ \A i \in 1 .. Len(content) : content'[i] = content[i]
        /\ \A i \in 1 .. k : content'[Len(content) + i] = p[i]
    BY <2>1, <2>2, <1>2, TakenPart
  <2>5. written' \in 0 .. 2 * Half - 1
    <3>1. written + k \in Nat
      BY <2>2, <1>2
    <3>. QED  BY <3>1, <2>1, ModType
  <2>6. WriterType'
    BY <1>1, <2>3, <2>4, <2>5 DEF WriterType
  <2>7. ASSUME length < Half
        PROVE  /\ written' = Len(content') /\ Len(content') <= length
               /\ padded \/ faulted => k = 0 /\ Len(content') = length
    <3>1. written = Len(content) /\ Len(content) <= length
      BY <2>7, <1>1 DEF WriterInv
    <3>2. /\ (written + Len(p)) % (2 * Half) = written + Len(p)
          /\ (written + k) % (2 * Half) = written + k
      <4>1. /\ written + Len(p) \in Nat /\ written + k \in Nat /\ 2 * Half \in Nat
            /\ written + Len(p) < 2 * Half /\ written + k < 2 * Half
        BY <3>1, <2>2, <2>7, <1>2
      <4>. QED  BY <4>1, ModSmall
    <3>3. written + Len(p) <= length
      BY <1>4, <3>2, <2>2, <1>2 DEF Exceeds
    <3>4. padded \/ faulted => Len(content) = length
      BY <2>7 DEF WriterInv
    <3>5. /\ Len(content') = Len(content) + k /\ written' = written + k
          /\ written \in Nat /\ Len(content) \in Nat /\ length \in Nat /\ k \in 0 .. Len(p)
      BY <3>2, <2>1, <2>2, <2>4
    <3>6. written' = Len(content') /\ Len(content') <= length
      BY <3>1, <3>3, <3>5, <1>2
    <3>7. padded \/ faulted => k = 0
      BY <3>1, <3>3, <3>4, <3>5, <1>2
    <3>8. k = 0 => Len(content') = Len(content)
      BY <3>5
    <3>. QED  BY <3>4, <3>6, <3>7, <3>8
  <2>8. ASSUME k = 0 PROVE out' = out /\ content' = content
    <3>1. Len(content) \in Nat /\ Len(out) \in Nat
      BY <2>2
    <3>2. Len(out') = Len(out) /\ Len(content') = Len(content)
      BY <2>8, <3>1, <2>3, <2>4
    <3>3. out' = out
      BY <3>2, <2>2, <2>3, SeqEqual
    <3>4. content' = content
      BY <3>2, <2>2, <2>4, SeqEqual
    <3>. QED  BY <3>3, <3>4
  <2>9. ASSUME length < Half
        PROVE  /\ Len(content') <= Len(out')
               /\ \A i \in 1 .. Len(content') : out'[i] = content'[i]
    <3>0. /\ Len(content) <= Len(out) /\ \A i \in 1 .. Len(content) : out[i] = content[i]
          /\ ~ padded /\ ~ faulted => out = content
      BY <2>9 DEF WriterInv
    <3>1. CASE padded \/ faulted
      <4>1. out' = out /\ content' = content
        BY <3>1, <2>7, <2>9, <2>8
      <4>. QED  BY <4>1, <3>0
    <3>2. CASE ~ padded /\ ~ faulted
      <4>1. out' = content'
        BY <3>0, <3>2, <2>1
      <4>. QED  BY <4>1, <2>3
    <3>. QED  BY <3>1, <3>2
  <2>10. ASSUME length < Half
        PROVE  /\ ~ padded /\ ~ faulted => out' = content'
               /\ padded /\ ~ faulted => out' = out /\ content' = content
    <3>1. CASE padded \/ faulted
      <4>1. out' = out /\ content' = content
        BY <3>1, <2>7, <2>10, <2>8
      <4>. QED  BY <3>1, <4>1
    <3>2. CASE ~ padded /\ ~ faulted
      BY <3>2, <2>1, <2>10 DEF WriterInv
    <3>. QED  BY <3>1, <3>2
  <2>11. ASSUME length < Half
         PROVE  padded /\ ~ faulted => out' = content' \o Zeros(PadLen(length))
    BY <2>10, <2>11 DEF WriterInv
  <2>12. /\ head = {length}
         /\ length' < Half => length < Half
    BY <1>1 DEF WriterInv
  <2>13. WriterInv'
    <3>1. length' < Half =>
            /\ written' = Len(content') /\ Len(content') <= length'
            /\ padded' \/ faulted' => Len(content') = length'
            /\ ~ padded' /\ ~ faulted' => out' = content'
            /\ padded' /\ ~ faulted' => out' = content' \o Zeros(PadLen(length'))
            /\ Len(content') <= Len(out')
            /\ \A i \in 1 .. Len(content') : out'[i] = content'[i]
      BY <1>1, <2>7, <2>9, <2>10, <2>11, <2>12
    <3>. QED  BY <3>1, <1>1, <2>12 DEF WriterInv
  <2>. QED  BY <2>6, <2>13
<1>. QED  BY <1>3, <1>4 DEF Write

LEMMA CloseWriterKeeps ==
  ASSUME WriterType, WriterInv, CloseWriter
  PROVE  WriterType' /\ WriterInv'
<1>1. /\ writer = "open" /\ writer' = writer /\ length' = length /\ written' = written
      /\ head' = head /\ content' = content /\ calls' \in 0 .. MaxCalls
      /\ head = {length}
  BY WireAssumption DEF WriterType, WriterInv, CloseWriter
<1>2. CASE UNCHANGED <<out, padded, faulted>>
  BY <1>1, <1>2 DEF WriterType, WriterInv
<1>3. CASE /\ ~ padded /\ written = length
           /\ \E k \in 0 .. PadLen(length), failed \in BOOLEAN :
                /\ k < PadLen(length) => failed
                /\ failed => PadLen(length) > 0
                /\ out' = out \o Zeros(k)
                /\ padded' = ~ failed /\ faulted' = (faulted \/ failed)
  <2>1. PICK k \in 0 .. PadLen(length), failed \in BOOLEAN :
          /\ k < PadLen(length) => failed
          /\ out' = out \o Zeros(k)
          /\ padded' = ~ failed /\ faulted' = (faulted \/ failed)
    BY <1>3
  <2>2. out \in Seq(Nat) /\ content \in Seq(Nat) /\ length \in Nat
    BY WireAssumption DEF WriterType
  <2>3. k \in Nat /\ PadLen(length) \in Nat
    BY <2>2, PadLenType
  <2>4. Zeros(k) \in Seq(Nat) /\ Len(Zeros(k)) = k
    BY <2>3, ZerosType
  <2>5. /\ out' \in Seq(Nat) /\ Len(out') = Len(out) + k
        /\ \A i \in 1 .. Len(out) : out'[i] = out[i]
    BY <2>1, <2>2, <2>4, Joined
  <2>6. WriterType'
    BY <1>1, <2>1, <2>5 DEF WriterType
  <2>7. ASSUME length < Half
        PROVE  /\ Len(content) = length
               /\ ~ padded' /\ ~ faulted' => FALSE
               /\ padded' /\ ~ faulted' => out' = content \o Zeros(PadLen(length))
               /\ Len(content) <= Len(out')
               /\ \A i \in 1 .. Len(content) : out'[i] = content[i]
    <3>1. /\ written = Len(content) /\ Len(content) <= Len(out)
          /\ \A i \in 1 .. Len(content) : out[i] = content[i]
          /\ ~ faulted => out = content
      BY <1>1, <1>3, <2>7 DEF WriterInv
    <3>2. ~ failed => k = PadLen(length)
      BY <2>1, <2>3
    <3>3. padded' /\ ~ faulted' => out' = content \o Zeros(PadLen(length))
      BY <2>1, <3>1, <3>2
    <3>4. Len(out) <= Len(out')
      <4>1. Len(out) \in Nat
        BY <2>2
      <4>. QED  BY <4>1, <2>3, <2>5
    <3>5. /\ Len(content) <= Len(out')
          /\ \A i \in 1 .. Len(content) : out'[i] = content[i]
      BY <3>1, <3>4, <2>2, <2>5, StillPrefix
    <3>. QED  BY <1>3, <2>1, <3>1, <3>3, <3>5
  <2>8. WriterInv'
    <3>1. length' < Half =>
            /\ written' = Len(content') /\ Len(content') <= length'
            /\ padded' \/ faulted' => Len(content') = length'
            /\ ~ padded' /\ ~ faulted' => out' = content'
            /\ padded' /\ ~ faulted' => out' = content' \o Zeros(PadLen(length'))
            /\ Len(content') <= Len(out')
            /\ \A i \in 1 .. Len(content') : out'[i] = content'[i]
      <4>. SUFFICES ASSUME length' < Half
                    PROVE  /\ written = length /\ Len(content) = length
                           /\ Len(content) <= length
                           /\ ~ padded' /\ ~ faulted' => FALSE
                           /\ padded' /\ ~ faulted' => out' = content \o Zeros(PadLen(length))
                           /\ Len(content) <= Len(out')
                           /\ \A i \in 1 .. Len(content) : out'[i] = content[i]
        BY <1>1
      <4>1. length < Half
        BY <1>1
      <4>2. Len(content) = length /\ Len(content) <= length
        BY <4>1, <2>2, <2>7
      <4>. QED  BY <4>1, <4>2, <1>3, <2>7, Zenon
    <3>. QED  BY <3>1, <1>1 DEF WriterInv
  <2>. QED  BY <2>6, <2>8
<1>. QED  BY <1>2, <1>3 DEF CloseWriter

LEMMA LeaveKeeps ==
  ASSUME WriterType, WriterInv, Leave
  PROVE  WriterType' /\ WriterInv'
BY DEF WriterType, WriterInv, Leave

LEMMA ReadingKeepsWriter ==
  ASSUME WriterType, WriterInv, UNCHANGED wvars
  PROVE  WriterType' /\ WriterInv'
BY DEF WriterType, WriterInv, wvars
-----------------------------------------------------------------------------
(* The reader. *)

ReaderType ==
  /\ reader \in {"none", "open", "closed", "full", "over", "failed"}
  /\ got \in Seq(Nat) /\ limit \in Int /\ pos \in 0 .. Len(out)

\* What an open reader has read is where it stands, and the limit what is
\* left of the content; of a whole field nothing fails.
ReaderInv ==
  /\ writer # "gone" => reader = "none"
  /\ reader = "none" => pos = 0 /\ got = <<>>
  /\ reader = "open" => head = {length}
  /\ length < Half =>
       /\ Len(got) <= Len(content) /\ \A i \in 1 .. Len(got) : got[i] = content[i]
       /\ reader = "open" => limit = length - pos /\ Len(got) = pos /\ pos <= length
       /\ padded /\ ~ faulted =>
            /\ reader # "failed"
            /\ reader \in {"closed", "full"} => pos = Len(out)
            /\ reader = "full" => Len(got) = length
       /\ reader = "closed" => Len(content) = length \/ PadLen(length) = 0
  /\ length >= Half => got = <<>> /\ (reader = "open" => limit <= 0)

LEMMA WritingKeepsReader ==
  ASSUME WriterType', ReaderType, ReaderInv, writer # "gone", UNCHANGED rvars
  PROVE  ReaderType' /\ ReaderInv'
<1>1. /\ reader = "none" /\ pos = 0 /\ got = <<>>
      /\ reader' = "none" /\ pos' = 0 /\ got' = <<>> /\ limit' = limit
  BY DEF ReaderInv, rvars
<1>2. content' \in Seq(Nat) /\ out' \in Seq(Nat)
  BY DEF WriterType
<1>. QED  BY <1>1, <1>2 DEF ReaderType, ReaderInv

LEMMA ReadBytesKeeps ==
  ASSUME WriterType, WriterInv, ReaderType, ReaderInv, ReadBytes
  PROVE  ReaderType' /\ ReaderInv'
<1>1. /\ writer = "gone" /\ reader = "none" /\ pos = 0 /\ got = <<>>
      /\ UNCHANGED <<wvars, pos, got>>
  BY DEF ReadBytes, Fails, ReaderInv
<1>2. CASE Fails
  BY <1>1, <1>2 DEF Fails, WriterType, WriterInv, ReaderType, ReaderInv, wvars
<1>3. CASE \E n \in head : reader' = "open" /\ limit' = Signed(n) /\ UNCHANGED <<pos, got>>
  <2>1. head = {length} /\ reader' = "open" /\ limit' = Signed(length)
    BY <1>3 DEF WriterType
  <2>2. /\ limit' \in Int /\ (length < Half => limit' = length - pos /\ pos <= length)
        /\ length >= Half => limit' <= 0
    BY <2>1, <1>1, WireAssumption DEF WriterType, Signed
  <2>. QED  BY <1>1, <2>1, <2>2 DEF WriterType, WriterInv, ReaderType, ReaderInv, wvars
<1>. QED  BY <1>2, <1>3 DEF ReadBytes

LEMMA ReadKeeps ==
  ASSUME WriterType, WriterInv, ReaderType, ReaderInv, NEW size \in Sizes, Read(size)
  PROVE  ReaderType' /\ ReaderInv'
<1>1. PICK k \in 1 .. Least(size, Least(limit, Len(out) - pos)) :
        /\ got' = got \o SubSeq(out, pos + 1, pos + k)
        /\ pos' = pos + k /\ limit' = limit - k
  BY DEF Read
<1>2. /\ out \in Seq(Nat) /\ content \in Seq(Nat) /\ got \in Seq(Nat) /\ length \in Nat
      /\ limit \in Int /\ pos \in Nat /\ size \in Nat
      /\ Len(out) \in Nat /\ Len(content) \in Nat /\ Len(got) \in Nat
  BY WireAssumption DEF WriterType, ReaderType
<1>3. k \in Nat /\ k <= limit /\ pos + k <= Len(out)
  BY <1>2 DEF Least
<1>4. /\ SubSeq(out, pos + 1, pos + k) \in Seq(Nat)
      /\ Len(SubSeq(out, pos + 1, pos + k)) = k
      /\ \A i \in 1 .. k : SubSeq(out, pos + 1, pos + k)[i] = out[pos + i]
  BY <1>2, <1>3
<1>5. /\ got' \in Seq(Nat) /\ Len(got') = Len(got) + k
      /\ \A i \in 1 .. Len(got) : got'[i] = got[i]
      /\ \A i \in 1 .. k : got'[Len(got) + i] = SubSeq(out, pos + 1, pos + k)[i]
  BY <1>1, <1>2, <1>4, Joined
<1>6. ReaderType'
  BY <1>1, <1>2, <1>3, <1>5 DEF ReaderType, Read, wvars
<1>7. ASSUME length < Half
      PROVE  /\ Len(got') <= Len(content) /\ \A i \in 1 .. Len(got') : got'[i] = content[i]
             /\ limit' = length - pos' /\ Len(got') = pos' /\ pos' <= length
  <2>1. /\ limit = length - pos /\ Len(got) = pos /\ pos <= length
        /\ \A i \in 1 .. Len(got) : got[i] = content[i]
    BY <1>7 DEF ReaderInv, Read
  <2>2. pos + k <= Len(content)
    <3>1. Len(content) = length \/ out = content
      BY <1>7 DEF WriterInv
    <3>. QED  BY <3>1, <2>1, <1>2, <1>3
  <2>3. \A i \in 1 .. Len(content) : out[i] = content[i]
    BY <1>7 DEF WriterInv
  <2>4. ASSUME NEW i \in 1 .. Len(got')
        PROVE  got'[i] = content[i]
    <3>1. CASE i <= Len(got)
      BY <3>1, <1>2, <1>5, <2>1
    <3>2. CASE i > Len(got)
      <4>1. PICK j \in 1 .. k : i = Len(got) + j
        <5>1. i - Len(got) \in 1 .. k /\ i = Len(got) + (i - Len(got))
          BY <3>2, <1>2, <1>3, <1>5
        <5>. QED  BY <5>1
      <4>2. got'[i] = out[pos + j]
        BY <4>1, <1>4, <1>5
      <4>3. pos + j \in 1 .. Len(content)
        BY <1>2, <1>3, <2>2
      <4>. QED  BY <4>1, <4>2, <4>3, <2>1, <2>3
    <3>. QED  BY <3>1, <3>2, <1>2, <1>3, <1>5
  <2>5. Len(got') <= Len(content) /\ Len(got') = pos'
    BY <1>1, <1>2, <1>3, <1>5, <2>1, <2>2
  <2>6. limit' = length - pos' /\ pos' <= length
    BY <1>1, <1>2, <1>3, <2>1
  <2>. QED  BY <2>4, <2>5, <2>6
<1>0. length < Half
  <2>1. length >= Half => limit <= 0
    BY DEF ReaderInv, Read
  <2>. QED  BY <2>1, <1>1, <1>2, <1>3, WireAssumption
<1>8. /\ reader = "open" /\ reader' = reader /\ writer' = writer /\ head' = head
      /\ length' = length /\ content' = content /\ padded' = padded /\ faulted' = faulted
      /\ out' = out
  BY DEF Read, wvars
<1>9. ReaderInv'
  BY <1>0, <1>2, <1>7, <1>8, WireAssumption DEF ReaderInv
<1>. QED  BY <1>6, <1>9

\* Where the padding of a whole field is, and that it is found.
LEMMA WholePadding ==
  ASSUME WriterType, WriterInv, length < Half, padded, ~ faulted
  PROVE  /\ Len(content) = length /\ Len(out) = length + PadLen(length)
         /\ PadEnd(length, length) = Len(out) /\ PadFound(length, length)
<1>1. out \in Seq(Nat) /\ content \in Seq(Nat) /\ length \in Nat
  BY WireAssumption DEF WriterType
<1>2. Len(content) = length /\ out = content \o Zeros(PadLen(length))
  BY DEF WriterInv
<1>3. PadLen(length) \in Nat
  BY <1>1, PadLenType
<1>4. /\ Zeros(PadLen(length)) \in Seq(Nat) /\ Len(Zeros(PadLen(length))) = PadLen(length)
      /\ \A i \in 1 .. PadLen(length) : Zeros(PadLen(length))[i] = 0
  BY <1>3, ZerosType
<1>5. /\ Len(out) = length + PadLen(length)
      /\ \A i \in 1 .. PadLen(length) : out[length + i] = 0
  <2>. DEFINE z == Zeros(PadLen(length))
  <2>1. /\ z \in Seq(Nat) /\ Len(z) = PadLen(length) /\ \A i \in 1 .. PadLen(length) : z[i] = 0
        /\ out = content \o z
    BY <1>2, <1>4
  <2>. HIDE DEF z
  <2>2. /\ Len(content \o z) = Len(content) + Len(z)
        /\ \A i \in 1 .. Len(z) : (content \o z)[Len(content) + i] = z[i]
    BY <1>1, <2>1, Joined
  <2>. QED  BY <1>2, <2>1, <2>2
<1>6. ASSUME NEW i \in length + 1 .. length + PadLen(length)
      PROVE  out[i] = 0
  <2>1. i - length \in 1 .. PadLen(length) /\ i = length + (i - length)
    BY <1>1, <1>3
  <2>. QED  BY <2>1, <1>5
<1>7. PadEnd(length, length) = Len(out)
  BY <1>1, <1>3, <1>5 DEF PadEnd, Least
<1>8. PadFound(length, length)
  BY <1>1, <1>3, <1>5, <1>6 DEF PadFound
<1>. QED  BY <1>2, <1>5, <1>7, <1>8

LEMMA CloseReaderKeeps ==
  ASSUME WriterType, WriterInv, ReaderType, ReaderInv, CloseReader
  PROVE  ReaderType' /\ ReaderInv'
<1>. DEFINE rest == IF limit > 0 THEN Least(limit, Len(out) - pos) ELSE 0
<1>1. /\ reader = "open" /\ head = {length} /\ limit' = limit - rest
      /\ pos' = PadEnd(length, pos + rest)
      /\ reader' = IF PadFound(length, pos + rest) THEN "closed" ELSE "failed"
  BY DEF CloseReader, ReaderInv
<1>2. /\ writer' = writer /\ head' = head /\ length' = length /\ content' = content
      /\ padded' = padded /\ faulted' = faulted /\ out' = out /\ got' = got
  BY DEF CloseReader, wvars
<1>3. /\ out \in Seq(Nat) /\ content \in Seq(Nat) /\ length \in Nat
      /\ limit \in Int /\ pos \in Nat /\ pos <= Len(out) /\ got \in Seq(Nat)
      /\ Len(out) \in Nat /\ Len(content) \in Nat /\ Len(got) \in Nat
  BY WireAssumption DEF WriterType, ReaderType
<1>4. rest \in Nat /\ pos + rest <= Len(out)
  BY <1>3 DEF Least
<1>5. PadLen(length) \in Nat
  BY <1>3, PadLenType
<1>6. ReaderType'
  <2>1. PadEnd(length, pos + rest) \in 0 .. Len(out)
    BY <1>3, <1>4, <1>5 DEF PadEnd, Least
  <2>2. limit' \in Int
    BY <1>1, <1>3, <1>4
  <2>3. reader' \in {"closed", "failed"}
    BY <1>1
  <2>. QED  BY <1>1, <1>2, <1>3, <2>1, <2>2, <2>3 DEF ReaderType
<1>7. ASSUME length < Half
      PROVE  /\ padded /\ ~ faulted => reader' = "closed" /\ pos' = Len(out)
             /\ reader' = "closed" => Len(content) = length \/ PadLen(length) = 0
  <2>1. limit = length - pos /\ pos <= length
    BY <1>1, <1>7 DEF ReaderInv
  <2>2. ASSUME padded, ~ faulted
        PROVE  reader' = "closed" /\ pos' = Len(out)
    <3>1. /\ Len(out) = length + PadLen(length)
          /\ PadEnd(length, length) = Len(out) /\ PadFound(length, length)
      BY <1>7, <2>2, WholePadding
    <3>2. pos + rest = length
      BY <1>3, <1>5, <2>1, <3>1 DEF Least
    <3>. QED  BY <1>1, <3>1, <3>2
  <2>3. ASSUME reader' = "closed", Len(content) # length
        PROVE  PadLen(length) = 0
    <3>1. out = content /\ Len(content) < length
      BY <1>3, <1>7, <2>3 DEF WriterInv
    <3>2. pos + rest = Len(out)
      BY <1>3, <2>1, <3>1 DEF Least
    <3>3. PadFound(length, pos + rest)
      BY <1>1, <2>3
    <3>. QED  BY <1>3, <1>5, <3>2, <3>3 DEF PadFound
  <2>. QED  BY <2>2, <2>3
<1>8. reader' \in {"closed", "failed"} /\ writer = "gone"
  BY <1>1 DEF ReaderInv, WriterType
<1>9. ReaderInv'
  <2>1. length' < Half => length < Half
    BY <1>2
  <2>2. length < Half => /\ Len(got) <= Len(content)
                         /\ \A i \in 1 .. Len(got) : got[i] = content[i]
    BY DEF ReaderInv
  <2>3. length >= Half => got = <<>>
    BY DEF ReaderInv
  <2>. HIDE DEF rest
  <2>. QED  BY <1>2, <1>7, <1>8, <2>1, <2>2, <2>3 DEF ReaderInv
<1>. QED  BY <1>6, <1>9

LEMMA ReadBytesFullKeeps ==
  ASSUME WriterType, WriterInv, ReaderType, ReaderInv, NEW max \in Limits, ReadBytesFull(max)
  PROVE  ReaderType' /\ ReaderInv'
<1>1. /\ writer = "gone" /\ reader = "none" /\ pos = 0 /\ got = <<>>
      /\ writer' = writer /\ head' = head /\ length' = length /\ content' = content
      /\ padded' = padded /\ faulted' = faulted /\ out' = out
  BY DEF ReadBytesFull, ReaderInv, wvars
<1>2. /\ out \in Seq(Nat) /\ content \in Seq(Nat) /\ length \in Nat /\ max \in Nat /\ max < Half
      /\ Half \in Nat /\ Len(out) \in Nat /\ Len(content) \in Nat /\ limit \in Int
  BY WireAssumption DEF WriterType, ReaderType
<1>3. PadLen(length) \in Nat
  BY <1>2, PadLenType
<1>4. CASE Fails
  BY <1>1, <1>2, <1>4 DEF Fails, WriterInv, ReaderType, ReaderInv
<1>5. CASE \E n \in head : n > max /\ reader' = "over" /\ UNCHANGED <<limit, pos, got>>
  BY <1>1, <1>2, <1>5 DEF ReaderType, ReaderInv
<1>6. CASE \E n \in head : /\ n <= max /\ Len(out) < n /\ reader' = "failed"
                           /\ pos' = Len(out) /\ limit' = n - Len(out) /\ UNCHANGED got
  <2>1. /\ length <= max /\ Len(out) < length /\ reader' = "failed"
        /\ pos' = Len(out) /\ limit' = length - Len(out) /\ got' = <<>>
    BY <1>1, <1>6 DEF WriterType
  <2>2. ~ (padded /\ ~ faulted)
    <3>. SUFFICES ASSUME padded, ~ faulted
                  PROVE  FALSE
      OBVIOUS
    <3>1. length < Half
      BY <1>2, <2>1
    <3>2. Len(out) = length + PadLen(length)
      BY <3>1, WholePadding
    <3>. QED  BY <1>2, <1>3, <2>1, <3>2
  <2>3. ReaderType'
    BY <1>1, <1>2, <2>1 DEF ReaderType
  <2>. QED  BY <1>1, <1>2, <2>1, <2>2, <2>3 DEF ReaderInv
<1>7. CASE \E n \in head : /\ n <= max /\ Len(out) >= n /\ reader' = "full"
                           /\ got' = SubSeq(out, 1, n) /\ limit' = 0 /\ pos' = PadEnd(n, n)
  <2>1. /\ length <= max /\ Len(out) >= length /\ reader' = "full"
        /\ got' = SubSeq(out, 1, length) /\ limit' = 0 /\ pos' = PadEnd(length, length)
    BY <1>7 DEF WriterType
  <2>2. /\ got' \in Seq(Nat) /\ Len(got') = length
        /\ \A i \in 1 .. length : got'[i] = out[i]
    BY <1>2, <2>1
  <2>3. length < Half
    BY <1>2, <2>1
  <2>4. Len(content) = length /\ \A i \in 1 .. Len(content) : out[i] = content[i]
    <3>1. /\ Len(content) <= length
          /\ Len(content) = length \/ out = content
          /\ \A i \in 1 .. Len(content) : out[i] = content[i]
      BY <2>3 DEF WriterInv
    <3>. QED  BY <3>1, <1>2, <2>1
  <2>5. pos' \in 0 .. Len(out)
    BY <1>2, <1>3, <2>1 DEF PadEnd, Least
  <2>6. padded /\ ~ faulted => pos' = Len(out)
    BY <2>1, <2>3, WholePadding
  <2>7. ReaderType'
    BY <1>1, <2>1, <2>2, <2>5 DEF ReaderType
  <2>8. Len(got') <= Len(content) /\ \A i \in 1 .. Len(got') : got'[i] = content[i]
    BY <1>2, <2>2, <2>4
  <2>9. ~ (length' >= Half)
    BY <1>1, <1>2, <2>3
  <2>. QED  BY <1>1, <2>1, <2>2, <2>6, <2>7, <2>8, <2>9 DEF ReaderInv
<1>. QED  BY <1>4, <1>5, <1>6, <1>7 DEF ReadBytesFull
-----------------------------------------------------------------------------
WireInv == WriterType /\ WriterInv /\ ReaderType /\ ReaderInv

LEMMA InitInv == Init => WireInv
<1>. SUFFICES ASSUME Init
              PROVE  WireInv
  OBVIOUS
<1>1. WriterType
  <2>1. Half \in Nat \ {0} /\ MaxCalls \in Nat
    BY WireAssumption
  <2>2. 0 \in 0 .. 2 * Half - 1 /\ 0 \in 0 .. MaxCalls
    BY <2>1
  <2>3. <<>> \in Seq(Nat)
    OBVIOUS
  <2>4. /\ length \in 0 .. 2 * Half - 1 /\ written \in 0 .. 2 * Half - 1 /\ calls \in 0 .. MaxCalls
        /\ out \in Seq(Nat) /\ content \in Seq(Nat)
    BY <2>2, <2>3 DEF Init
  <2>. QED  BY <2>4 DEF Init, WriterType
<1>2. WriterInv
  BY DEF Init, WriterInv
<1>3. ReaderType
  BY DEF Init, ReaderType
<1>4. ReaderInv
  BY DEF Init, ReaderInv
<1>. QED  BY <1>1, <1>2, <1>3, <1>4 DEF WireInv

LEMMA NextInv == WireInv /\ [Next]_vars => WireInv'
<1>. SUFFICES ASSUME WireInv, [Next]_vars
              PROVE  WireInv'
  OBVIOUS
<1>. USE DEF WireInv
<1>1. CASE NewBytesWriter
  <2>1. writer # "gone" /\ UNCHANGED rvars
    BY <1>1 DEF NewBytesWriter
  <2>. QED  BY <1>1, <2>1, NewBytesWriterKeeps, WritingKeepsReader
<1>2. CASE CloseWriter
  <2>1. writer # "gone" /\ UNCHANGED rvars
    BY <1>2 DEF CloseWriter
  <2>. QED  BY <1>2, <2>1, CloseWriterKeeps, WritingKeepsReader
<1>3. CASE Leave
  <2>1. writer # "gone" /\ UNCHANGED rvars
    BY <1>3 DEF Leave, rvars
  <2>. QED  BY <1>3, <2>1, LeaveKeeps, WritingKeepsReader
<1>4. ASSUME NEW p \in Chunks, WriteBytes(p)
      PROVE  WireInv'
  <2>1. writer # "gone" /\ UNCHANGED rvars
    BY <1>4 DEF WriteBytes
  <2>. QED  BY <1>4, <2>1, WriteBytesKeeps, WritingKeepsReader
<1>5. ASSUME NEW p \in Chunks, Write(p)
      PROVE  WireInv'
  <2>1. writer # "gone" /\ UNCHANGED rvars
    BY <1>5 DEF Write
  <2>. QED  BY <1>5, <2>1, WriteKeeps, WritingKeepsReader
<1>6. CASE ReadBytes
  <2>1. UNCHANGED wvars
    BY <1>6 DEF ReadBytes
  <2>. QED  BY <1>6, <2>1, ReadingKeepsWriter, ReadBytesKeeps
<1>7. CASE CloseReader
  <2>1. UNCHANGED wvars
    BY <1>7 DEF CloseReader
  <2>. QED  BY <1>7, <2>1, ReadingKeepsWriter, CloseReaderKeeps
<1>8. ASSUME NEW size \in Sizes, Read(size)
      PROVE  WireInv'
  <2>1. UNCHANGED wvars
    BY <1>8 DEF Read
  <2>. QED  BY <1>8, <2>1, ReadingKeepsWriter, ReadKeeps
<1>9. ASSUME NEW max \in Limits, ReadBytesFull(max)
      PROVE  WireInv'
  <2>1. UNCHANGED wvars
    BY <1>9 DEF ReadBytesFull
  <2>. QED  BY <1>9, <2>1, ReadingKeepsWriter, ReadBytesFullKeeps
<1>10. CASE UNCHANGED vars
  <2>1. UNCHANGED wvars /\ UNCHANGED rvars
    BY <1>10 DEF vars
  <2>2. ReaderType' /\ ReaderInv'
    BY <2>1 DEF ReaderType, ReaderInv, wvars, rvars
  <2>. QED  BY <2>1, <2>2, ReadingKeepsWriter
<1>. QED  BY <1>1, <1>2, <1>3, <1>4, <1>5, <1>6, <1>7, <1>8, <1>9, <1>10 DEF Next

LEMMA AlwaysInv == Spec => []WireInv
BY InitInv, NextInv, PTL DEF Spec

\* For every width and every sequence of calls the variables keep their
\* types: the counters of pkg/wire stay within a uint64, and the reader
\* within the stream.
THEOREM WireTypeOK == Spec => []TypeOK
<1>1. WireInv => TypeOK
  BY DEF WireInv, WriterType, ReaderType, TypeOK
<1>. QED  BY <1>1, AlwaysInv, PTL

\* A BytesWriter of a length that an int64 holds lets no more bytes through
\* than it was made for, although its comparison may wrap, and one that has
\* closed without an error has written exactly one field.
THEOREM BytesWriterWritesPacket == Spec => []PacketWhole
<1>1. WireInv => PacketWhole
  BY DEF WireInv, WriterInv, PacketWhole
<1>. QED  BY <1>1, AlwaysInv, PTL

\* What is read of a field was written as its content, whatever the sizes of
\* the reads and however the writes were cut; a whole field is read whole, and
\* the stream is left behind its padding; of a length that no int64 holds
\* nothing is read.
THEOREM BytesReaderReadsBack == Spec => []ReadBack
<1>1. WireInv => ReadBack
  <2>0. WireInv /\ length >= Half => got = <<>>
    BY DEF WireInv, ReaderInv
  <2>. SUFFICES ASSUME WireInv, length < Half
                PROVE  /\ Len(got) <= Len(content) /\ got = SubSeq(content, 1, Len(got))
                       /\ padded /\ ~ faulted =>
                            /\ reader # "failed"
                            /\ reader \in {"closed", "full"} => pos = Len(out)
                            /\ reader = "full" => got = content
                       /\ reader = "closed" => Len(content) = length \/ PadLen(length) = 0
    BY <2>0 DEF ReadBack
  <2>1. got \in Seq(Nat) /\ content \in Seq(Nat)
    BY DEF WireInv, WriterType, ReaderType
  <2>2. Len(got) <= Len(content) /\ \A i \in 1 .. Len(got) : got[i] = content[i]
    BY DEF WireInv, ReaderInv
  <2>3. got = SubSeq(content, 1, Len(got))
    BY <2>1, <2>2, PartOf
  <2>4. padded /\ ~ faulted /\ reader = "full" => got = content
    <3>1. padded /\ ~ faulted /\ reader = "full" => Len(got) = Len(content)
      BY DEF WireInv, WriterInv, ReaderInv
    <3>. QED  BY <2>1, <2>2, <3>1, SeqEqual
  <2>. QED  BY <2>2, <2>3, <2>4 DEF WireInv, ReaderInv
<1>. QED  BY <1>1, AlwaysInv, PTL
=============================================================================
