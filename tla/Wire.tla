-------------------------------- MODULE Wire --------------------------------
(***************************************************************************)
(* One field of the Nix wire format: written through pkg/wire to an        *)
(* io.Writer that may fail, and read by pkg/wire from what came of it.     *)
(*                                                                         *)
(* Bytes are numbers, zero the one that pads.  The eight bytes of a length *)
(* field are there together or not at all: a torn one reads like none.     *)
(* Lengths are unsigned numbers of a fixed width.                          *)
(***************************************************************************)
EXTENDS Integers, Sequences

CONSTANTS
  Block,     \* fields are padded to a multiple of it; 8 in the code
  Half,      \* the int64 are -Half .. Half - 1, the uint64 0 .. 2 * Half - 1
  Lengths,   \* the contentLength that NewBytesWriter is called with
  Chunks,    \* the byte slices that are written
  Sizes,     \* the sizes of the buffers that are read into
  Limits,    \* the maxBytes that ReadBytesFull is called with
  MaxCalls   \* how many calls a BytesWriter gets

ASSUME WireAssumption ==
  /\ Block \in Nat \ {0} /\ Half \in Nat \ {0} /\ MaxCalls \in Nat
  /\ Lengths \subseteq 0 .. 2 * Half - 1
  /\ Chunks \subseteq Seq(Nat) /\ \A p \in Chunks : Len(p) < Half
  /\ Sizes \subseteq Nat \ {0}
  /\ Limits \subseteq 0 .. Half - 1

VARIABLES
  writer,   \* "none", "open", "gone": the BytesWriter
  length,   \* bw.totalLength
  written,  \* bw.bytesWritten
  padded,   \* bw.paddingWritten, or a WriteBytes without an error
  head,     \* the length field that was written: a set of one, or of none
  out,      \* the bytes behind it
  content,  \* the bytes of those that were written as content
  faulted,  \* some write of padding returned an error
  calls,    \* the calls of the BytesWriter
  reader,   \* "none", "open", "closed", "full", "over", "failed"
  limit,    \* lr.N of the LimitedReader: what is left to it
  pos,      \* how many of the bytes behind the length field are read
  got       \* what the caller has of them

wvars == <<writer, length, written, padded, head, out, content, faulted, calls>>
rvars == <<reader, limit, pos, got>>
vars == <<wvars, rvars>>

Least(a, b) == IF a < b THEN a ELSE b

\* The bytes that pad n bytes of content.
PadLen(n) == IF n % Block = 0 THEN 0 ELSE Block - (n % Block)

Zeros(n) == [i \in 1 .. n |-> 0]

\* int64(n)
Signed(n) == IF n < Half THEN n ELSE n - 2 * Half
-----------------------------------------------------------------------------
Init ==
  /\ writer = "none" /\ length = 0 /\ written = 0 /\ padded = FALSE
  /\ head = {} /\ out = <<>> /\ content = <<>> /\ faulted = FALSE /\ calls = 0
  /\ reader = "none" /\ limit = 0 /\ pos = 0 /\ got = <<>>

(* The writer.  An io.Writer takes k bytes of those it is given and returns *)
(* an error if it does not take them all, and perhaps if it does.           *)

\* NewBytesWriter: without the length field there is no BytesWriter.
NewBytesWriter ==
  /\ writer = "none"
  /\ \/ \E n \in Lengths : writer' = "open" /\ length' = n /\ head' = {n}
     \/ writer' = "gone" /\ UNCHANGED <<length, head>>
  /\ UNCHANGED <<written, padded, out, content, faulted, calls, rvars>>

\* WriteBytes and WriteString: length, content and padding, as far as it goes.
WriteBytes(p) ==
  /\ writer = "none" /\ writer' = "gone"
  /\ length' = Len(p)
  /\ \/ /\ head' = {Len(p)}
        /\ \E k \in 0 .. Len(p) : out' = SubSeq(p, 1, k) /\ content' = out'
        /\ UNCHANGED <<padded, faulted>>
     \/ /\ head' = {Len(p)} /\ content' = p
        /\ \E k \in 0 .. PadLen(Len(p)), failed \in BOOLEAN :
             /\ k < PadLen(Len(p)) => failed
             /\ failed => PadLen(Len(p)) > 0
             /\ out' = p \o Zeros(k)
             /\ padded' = ~ failed /\ faulted' = failed
     \/ UNCHANGED <<head, out, content, padded, faulted>>
  /\ UNCHANGED <<written, calls, rvars>>

\* The sum that BytesWriter.Write compares may wrap.
Exceeds(l) == (written + l) % (2 * Half) > length

\* Variant: what was given counts as written, also if it was not all taken.
WriteAll(p) ==
  /\ writer = "open" /\ calls < MaxCalls /\ calls' = calls + 1
  /\ \/ Exceeds(Len(p)) /\ UNCHANGED <<out, content, written>>
     \/ /\ ~ Exceeds(Len(p))
        /\ \E k \in 0 .. Len(p) : /\ out' = out \o SubSeq(p, 1, k)
                                  /\ content' = content \o SubSeq(p, 1, k)
        /\ written' = (written + Len(p)) % (2 * Half)
  /\ UNCHANGED <<writer, length, padded, head, faulted, rvars>>

\* BytesWriter.Write: what was taken counts, with an error or without.
Write(p) ==
  /\ writer = "open" /\ calls < MaxCalls /\ calls' = calls + 1
  /\ \/ Exceeds(Len(p)) /\ UNCHANGED <<out, content, written>>
     \/ /\ ~ Exceeds(Len(p))
        /\ \E k \in 0 .. Len(p) : /\ out' = out \o SubSeq(p, 1, k)
                                  /\ content' = content \o SubSeq(p, 1, k)
                                  /\ written' = (written + k) % (2 * Half)
  /\ UNCHANGED <<writer, length, padded, head, faulted, rvars>>

\* BytesWriter.Close.  When the padding fails, Close may be called again and
\* writes all of it again.
CloseWriter ==
  /\ writer = "open" /\ calls < MaxCalls /\ calls' = calls + 1
  /\ \/ (padded \/ written # length) /\ UNCHANGED <<out, padded, faulted>>
     \/ /\ ~ padded /\ written = length
        /\ \E k \in 0 .. PadLen(length), failed \in BOOLEAN :
             /\ k < PadLen(length) => failed
             /\ failed => PadLen(length) > 0
             /\ out' = out \o Zeros(k)
             /\ padded' = ~ failed /\ faulted' = (faulted \/ failed)
  /\ UNCHANGED <<writer, length, written, head, content, rvars>>

\* The writer is done, or was cut off: no more bytes come.
Leave ==
  /\ writer = "open" /\ writer' = "gone"
  /\ UNCHANGED <<length, written, padded, head, out, content, faulted, calls, rvars>>
-----------------------------------------------------------------------------
(* The reader, once nothing more is written. *)

\* ReadUint64 at the length field, and its value if it is there.
Fails == head = {} /\ reader' = "failed" /\ UNCHANGED <<limit, pos, got>>

\* ReadBytes and NewBytesReader.
ReadBytes ==
  /\ writer = "gone" /\ reader = "none"
  /\ \/ Fails
     \/ \E n \in head : reader' = "open" /\ limit' = Signed(n) /\ UNCHANGED <<pos, got>>
  /\ UNCHANGED wvars

\* BytesReader.Read: the reader below returns some of what is there.
Read(size) ==
  /\ reader = "open"
  /\ \E k \in 1 .. Least(size, Least(limit, Len(out) - pos)) :
       /\ got' = got \o SubSeq(out, pos + 1, pos + k)
       /\ pos' = pos + k /\ limit' = limit - k
  /\ UNCHANGED <<reader, wvars>>

\* readPadding of a content of n bytes, from at on: how far it reads, and
\* whether it finds what it must.
PadEnd(n, at) == Least(at + PadLen(n), Len(out))
PadFound(n, at) ==
  /\ at + PadLen(n) <= Len(out)
  /\ \A i \in at + 1 .. at + PadLen(n) : out[i] = 0

\* Variant: the rest of the content is not skipped.
CloseInPlace ==
  /\ reader = "open"
  /\ \E n \in head :
       /\ pos' = PadEnd(n, pos)
       /\ reader' = IF PadFound(n, pos) THEN "closed" ELSE "failed"
  /\ UNCHANGED <<limit, got, wvars>>

\* BytesReader.Close: skip what is left to the limit, or as much as there
\* is of it, then read the padding.
CloseReader ==
  /\ reader = "open"
  /\ LET rest == IF limit > 0 THEN Least(limit, Len(out) - pos) ELSE 0
     IN  /\ limit' = limit - rest
         /\ \E n \in head :
              /\ pos' = PadEnd(n, pos + rest)
              /\ reader' = IF PadFound(n, pos + rest) THEN "closed" ELSE "failed"
  /\ UNCHANGED <<got, wvars>>

\* ReadBytesFull and ReadString.  The error of Close, if the padding is
\* wrong or missing, goes nowhere.
ReadBytesFull(max) ==
  /\ writer = "gone" /\ reader = "none"
  /\ \/ Fails
     \/ \E n \in head :
          \/ n > max /\ reader' = "over" /\ UNCHANGED <<limit, pos, got>>
          \/ /\ n <= max /\ Len(out) < n
             /\ reader' = "failed" /\ pos' = Len(out) /\ limit' = n - Len(out) /\ UNCHANGED got
          \/ /\ n <= max /\ Len(out) >= n
             /\ reader' = "full" /\ got' = SubSeq(out, 1, n) /\ limit' = 0
             /\ pos' = PadEnd(n, n)
  /\ UNCHANGED wvars

Next ==
  \/ NewBytesWriter \/ CloseWriter \/ Leave
  \/ \E p \in Chunks : WriteBytes(p) \/ Write(p)
  \/ ReadBytes \/ CloseReader
  \/ \E size \in Sizes : Read(size)
  \/ \E max \in Limits : ReadBytesFull(max)

Spec == Init /\ [][Next]_vars
-----------------------------------------------------------------------------
TypeOK ==
  /\ writer \in {"none", "open", "gone"}
  /\ reader \in {"none", "open", "closed", "full", "over", "failed"}
  /\ length \in 0 .. 2 * Half - 1 /\ written \in 0 .. 2 * Half - 1
  /\ padded \in BOOLEAN /\ faulted \in BOOLEAN /\ calls \in 0 .. MaxCalls
  /\ head \subseteq {length}
  /\ out \in Seq(Nat) /\ content \in Seq(Nat) /\ got \in Seq(Nat)
  /\ limit \in Int /\ pos \in 0 .. Len(out)

\* Of a length that an int64 holds, a BytesWriter never lets more through,
\* however many of its writes are cut short, and when it has closed without
\* an error the stream is the field of that length: the content, then the
\* padding.
PacketWhole ==
  length < Half =>
    /\ Len(content) <= length
    /\ padded => Len(content) = length
    /\ padded /\ ~ faulted => out = content \o Zeros(PadLen(length))

\* A reader never hands out a byte that was not written as content there.
\* Of a whole field it reads exactly the bytes, however it cuts them, never
\* fails, and leaves the stream behind the padding; if Close returns without
\* an error on a field that is not whole, the field had no padding.  Of a
\* length that no int64 holds, and that becomes a limit below zero, nothing
\* is handed out at all.
ReadBack ==
  /\ length < Half =>
       /\ Len(got) <= Len(content) /\ got = SubSeq(content, 1, Len(got))
       /\ padded /\ ~ faulted =>
            /\ reader # "failed"
            /\ reader \in {"closed", "full"} => pos = Len(out)
            /\ reader = "full" => got = content
       /\ reader = "closed" => Len(content) = length \/ PadLen(length) = 0
  /\ length >= Half => got = <<>>
=============================================================================
