-------------------------- MODULE NarWriterProofs --------------------------
(***************************************************************************)
(* Theorems about NarWriter, for every set of headers, every number of     *)
(* calls and writers that may fail or not, and about DumpPath, which       *)
(* drives it, for all file systems, filters and changes.                   *)
(*                                                                         *)
(* OutputAligned is not inductive: whether a token may follow depends on   *)
(* where the emitter is.  Aligned says that only while it waits for the    *)
(* content of a file, or after an error, the last packet may be open.      *)
(*                                                                         *)
(* ArchiveInv adds what the Writer has written so far: OrderInv says where *)
(* its stack stands in the tree of the headers accepted, and Built that    *)
(* the packets written are those headers by the rules of NarGrammar, one   *)
(* frame (Frames) for each directory still open.  Place adds that a header *)
(* on its way up the stack has not passed by its directory.  DumpInv adds  *)
(* what the walk of DumpPath still has to pass to the Writer, QueueInv in  *)
(* what order, so that no header is refused, and CalmInv accounts for all  *)
(* files of a walk that nothing disturbs.                                  *)
(***************************************************************************)
EXTENDS DumpPath, NarPathProofs, SequenceTheorems, FiniteSetTheorems

AllFull(o) == \A i \in 1 .. Len(o) : o[i].have = "full"

FullBeforeLast(o) == \A i \in 1 .. Len(o) - 1 : o[i].have = "full"

Aligned ==
  /\ FullBeforeLast(out)
  /\ epc \in {"first", "emit", "loop", "return"} => AllFull(out)

HeadersReady ==
  /\ cpc \in {"sendHeader", "select"} => Len(arg) = 1
  /\ epc = "emit" => Len(next) = 1
  /\ epc \in {"done", "await", "loop"} => stack # <<>>

RefusedIsOver == refused => epc = "exited"

IInv == TypeOK /\ Aligned /\ HeadersReady /\ RefusedIsOver

\* Whoever calls the Writer, these are the steps its variables see.
Writes ==
  /\ cpc = "idle" /\ body' \in [total : Nat, written : Nat]
  /\ UNCHANGED <<out, stack, epc, next, caller>>

WriterStep ==
  Library \/ (\E h \in Header : WriteHeader(h)) \/ Writes \/ Close \/ UNCHANGED vars
-----------------------------------------------------------------------------
(* The packets that the emitter writes. *)

LEMMA Keywords ==
  /\ EmptyString \in Strings /\ "(" \in Strings /\ ")" \in Strings /\ "type" \in Strings
  /\ "executable" \in Strings /\ "contents" \in Strings /\ "target" \in Strings
  /\ "to" \in Strings /\ "blob" \in Strings /\ "entry" \in Strings /\ "name" \in Strings
  /\ "node" \in Strings /\ "." \in Strings /\ Types \subseteq Strings
BY NarWriterAssumption

LEMMA TokType ==
  ASSUME NEW s \in Strings
  PROVE  Tok(s) \in Packet /\ Tok(s).have = "full"
BY DEF Tok, Packet

LEMMA AtMostOne ==
  ASSUME NEW S, NEW s \in Seq(S), s # <<>>, Len(s) <= 1
  PROVE  Len(s) = 1
<1>1. Len(s) \in Nat \ {0}
  BY EmptySeq
<1>. QED  BY <1>1

\* A run of tokens is a run of full packets.
LEMMA ToksType ==
  ASSUME NEW ss \in Seq(Strings)
  PROVE  /\ Toks(ss) \in Seq(Packet)
         /\ AllFull(Toks(ss))
         /\ Len(Toks(ss)) = Len(ss)
<1>1. \A i \in 1 .. Len(ss) : Tok(ss[i]) \in Packet /\ Tok(ss[i]).have = "full"
  BY TokType
<1>. QED  BY <1>1 DEF Toks, AllFull

\* Appending to a whole output keeps it whole as far as what is appended is.
LEMMA AppendFull ==
  ASSUME NEW o \in Seq(Packet), AllFull(o), NEW w \in Seq(Packet)
  PROVE  /\ o \o w \in Seq(Packet)
         /\ AllFull(w) => AllFull(o \o w)
         /\ FullBeforeLast(w) => FullBeforeLast(o \o w)
BY DEF AllFull, FullBeforeLast

LEMMA FullFull ==
  ASSUME NEW o \in Seq(Packet), AllFull(o)
  PROVE  FullBeforeLast(o)
BY DEF AllFull, FullBeforeLast

LEMMA CutFull ==
  ASSUME NEW w \in Seq(Packet), FullBeforeLast(w), NEW k \in 0 .. Len(w) - 1
  PROVE  SubSeq(w, 1, k) \in Seq(Packet) /\ AllFull(SubSeq(w, 1, k))
BY DEF AllFull, FullBeforeLast

\* Only the last packet of what opens a node may be incomplete.
LEMMA OpeningType ==
  ASSUME NEW h \in Header
  PROVE  Opening(h) \in Seq(Packet) /\ FullBeforeLast(Opening(h))
<1>. DEFINE start == Toks(<<"(", "type", h.type>>)
            exec == IF h.exec THEN <<Tok("executable"), Empty>> ELSE <<>>
            blob == <<Tok("contents"), OpenBlob(h.size)>>
            link == Toks(<<"target", "to">>)
<1>1. h.type \in Types /\ h.type \in Strings /\ h.size \in Nat
  BY Keywords DEF Header
<1>2. start \in Seq(Packet) /\ AllFull(start)
  <2>1. <<"(", "type", h.type>> \in Seq(Strings)
    BY <1>1, Keywords
  <2>. QED  BY <2>1, ToksType
<1>3. exec \in Seq(Packet) /\ AllFull(exec)
  <2>1. Tok("executable") \in Packet /\ Tok("executable").have = "full"
    BY Keywords, TokType
  <2>2. Empty \in Packet /\ Empty.have = "full"
    BY Keywords DEF Empty, Packet
  <2>3. CASE h.exec
    <3>1. exec = <<Tok("executable"), Empty>>
      BY <2>3
    <3>. QED  BY <2>1, <2>2, <3>1 DEF AllFull
  <2>4. CASE ~ h.exec
    <3>1. exec = <<>>
      BY <2>4
    <3>. QED  BY <3>1 DEF AllFull
  <2>. QED  BY <2>3, <2>4
<1>4. blob \in Seq(Packet) /\ FullBeforeLast(blob)
  BY <1>1, Keywords DEF Tok, OpenBlob, Packet, FullBeforeLast
<1>5. link \in Seq(Packet) /\ AllFull(link)
  <2>1. <<"target", "to">> \in Seq(Strings)
    BY Keywords
  <2>. QED  BY <2>1, ToksType
<1>6. Opening(h) = start \o (IF h.type = "regular" THEN exec \o blob
                             ELSE IF h.type = "symlink" THEN link ELSE <<>>)
  BY DEF Opening
<1>. HIDE DEF start, exec, blob, link
<1>7. exec \o blob \in Seq(Packet) /\ FullBeforeLast(exec \o blob)
  BY <1>3, <1>4, AppendFull
<1>8. start \o (exec \o blob) \in Seq(Packet) /\ FullBeforeLast(start \o (exec \o blob))
  BY <1>2, <1>7, AppendFull
<1>9. start \o link \in Seq(Packet) /\ FullBeforeLast(start \o link)
  BY <1>2, <1>5, AppendFull, FullFull
<1>10. start \o <<>> \in Seq(Packet) /\ FullBeforeLast(start \o <<>>)
  BY <1>2, FullFull
<1>. QED  BY <1>1, <1>6, <1>8, <1>9, <1>10 DEF Types
-----------------------------------------------------------------------------
(* What a step that writes leaves behind. *)

LEMMA WroteAll ==
  ASSUME IInv, AllFull(out), NEW w \in Seq(Packet), FullBeforeLast(w), out' = out \o w
  PROVE  /\ out' \in Seq(Packet)
         /\ FullBeforeLast(out')
         /\ AllFull(w) => AllFull(out')
<1>1. out \in Seq(Packet)
  BY DEF IInv, TypeOK
<1>. QED  BY <1>1, AppendFull

LEMMA WrotePart ==
  ASSUME IInv, AllFull(out), NEW w \in Seq(Packet), FullBeforeLast(w),
         NEW k \in 0 .. Len(w) - 1, out' = out \o SubSeq(w, 1, k)
  PROVE  out' \in Seq(Packet) /\ AllFull(out') /\ FullBeforeLast(out')
<1>1. out \in Seq(Packet)
  BY DEF IInv, TypeOK
<1>2. SubSeq(w, 1, k) \in Seq(Packet) /\ AllFull(SubSeq(w, 1, k))
  BY CutFull
<1>3. out' \in Seq(Packet) /\ AllFull(out')
  BY <1>1, <1>2, AppendFull
<1>. QED  BY <1>3, FullFull

\* Padding completes an output in which only the last packet was open.
LEMMA PadFull ==
  ASSUME IInv, Complete
  PROVE  Pad(out) \in Seq(Packet) /\ AllFull(Pad(out)) /\ FullBeforeLast(Pad(out))
<1>1. out \in Seq(Packet) /\ FullBeforeLast(out)
  BY DEF IInv, TypeOK, Aligned
<1>2. CASE out # <<>> /\ out[Len(out)].have = "none"
  <2>1. Pad(out) = [out EXCEPT ![Len(out)].have = "full"]
    BY <1>2 DEF Pad, Complete
  <2>2. Len(out) \in 1 .. Len(out) /\ out[Len(out)] \in Packet
    BY <1>1, <1>2
  <2>3. [out[Len(out)] EXCEPT !.have = "full"] \in Packet
    BY <2>2 DEF Packet
  <2>4. Pad(out) = [out EXCEPT ![Len(out)] = [out[Len(out)] EXCEPT !.have = "full"]]
    BY <2>1
  <2>5. [out[Len(out)] EXCEPT !.have = "full"].have = "full"
    BY <2>2 DEF Packet
  <2>6. Pad(out) \in Seq(Packet) /\ AllFull(Pad(out))
    BY <1>1, <2>2, <2>3, <2>4, <2>5 DEF AllFull, FullBeforeLast
  <2>. QED  BY <2>6, FullFull
<1>3. CASE ~ (out # <<>> /\ out[Len(out)].have = "none")
  <2>1. Pad(out) = out
    BY <1>3 DEF Pad
  <2>2. \A i \in 1 .. Len(out) : out[i].have \in {"full", "none"}
    <3>1. \A i \in 1 .. Len(out) : out[i] \in Packet
      BY <1>1
    <3>. QED  BY <3>1 DEF Packet
  <2>3. AllFull(out)
    BY <1>1, <1>3, <2>2 DEF AllFull, FullBeforeLast
  <2>. QED  BY <1>1, <2>1, <2>3
<1>. QED  BY <1>2, <1>3
-----------------------------------------------------------------------------
(* The invariant is inductive: one lemma for each action. *)

LEMMA InitInv == Init => IInv
<1>. SUFFICES ASSUME Init PROVE IInv
  OBVIOUS
<1>1. TypeOK
  <2>1. out \in Seq(Packet) /\ stack \in Seq(Header) /\ accepted \in Seq(Header)
    BY DEF Init
  <2>2. next \in Seq(Header) /\ Len(next) <= 1 /\ arg \in Seq(Header) /\ Len(arg) <= 1
    BY DEF Init, Nil
  <2>3. body \in [total : Nat, written : Nat] /\ sent \in 0 .. MaxHeaders
    BY NarWriterAssumption DEF Init
  <2>. QED  BY <2>1, <2>2, <2>3 DEF Init, TypeOK
<1>2. Aligned /\ HeadersReady /\ RefusedIsOver
  BY DEF Init, Aligned, AllFull, FullBeforeLast, HeadersReady, RefusedIsOver
<1>. QED  BY <1>1, <1>2 DEF IInv

LEMMA FirstInv == IInv /\ First => IInv'
<1>. SUFFICES ASSUME IInv, First PROVE IInv'
  OBVIOUS
<1>. USE DEF IInv, First
<1>1. TypeOK'
  BY DEF TypeOK, HeadersReady
<1>2. Aligned'
  BY DEF Aligned
<1>3. HeadersReady'
  BY DEF HeadersReady
<1>4. RefusedIsOver'
  BY DEF RefusedIsOver
<1>. QED  BY <1>1, <1>2, <1>3, <1>4

LEMMA EmitNodeInv == IInv /\ EmitNode => IInv'
<1>. SUFFICES ASSUME IInv, EmitNode PROVE IInv'
  OBVIOUS
<1>. DEFINE h == next[1]
<1>1. h \in Header /\ h.size \in Nat
  <2>1. next \in Seq(Header) /\ Len(next) = 1
    BY DEF IInv, TypeOK, HeadersReady, EmitNode
  <2>2. h \in Header
    BY <2>1
  <2>. QED  BY <2>2 DEF Header
<1>2. Opening(h) \in Seq(Packet) /\ FullBeforeLast(Opening(h))
  BY <1>1, OpeningType
<1>3. AllFull(out) /\ epc = "emit" /\ ~ refused
  BY DEF IInv, Aligned, EmitNode, RefusedIsOver
<1>4. CASE /\ out' = out \o Opening(h)
           /\ stack' = Append(stack, h)
           /\ epc' = "done" /\ next' = Nil
           /\ body' = [total |-> h.size, written |-> 0]
           /\ UNCHANGED caller
  <2>1. out' \in Seq(Packet) /\ FullBeforeLast(out')
    BY <1>2, <1>3, <1>4, WroteAll
  <2>2. stack' \in Seq(Header) /\ stack' # <<>>
    BY <1>1, <1>4 DEF IInv, TypeOK
  <2>3. body' \in [total : Nat, written : Nat]
    BY <1>1, <1>4
  <2>4. TypeOK'
    BY <1>4, <2>1, <2>2, <2>3 DEF IInv, TypeOK, caller, Nil
  <2>5. Aligned' /\ HeadersReady' /\ RefusedIsOver'
    BY <1>3, <1>4, <2>1, <2>2 DEF IInv, Aligned, HeadersReady, RefusedIsOver, caller
  <2>. QED  BY <2>4, <2>5 DEF IInv
<1>5. CASE /\ \E k \in 0 .. Len(Opening(h)) - 1 : out' = out \o SubSeq(Opening(h), 1, k)
           /\ Fail
           /\ UNCHANGED <<body, caller>>
  <2>1. out' \in Seq(Packet) /\ FullBeforeLast(out')
    BY <1>2, <1>3, <1>5, WrotePart
  <2>2. TypeOK'
    BY <1>5, <2>1 DEF IInv, TypeOK, caller, Fail
  <2>3. Aligned' /\ HeadersReady' /\ RefusedIsOver'
    BY <1>3, <1>5, <2>1 DEF IInv, Aligned, HeadersReady, RefusedIsOver, caller, Fail
  <2>. QED  BY <2>2, <2>3 DEF IInv
<1>. QED  BY <1>4, <1>5 DEF EmitNode

LEMMA HeaderDoneInv == IInv /\ HeaderDone => IInv'
<1>. SUFFICES ASSUME IInv, HeaderDone PROVE IInv'
  OBVIOUS
<1>1. arg[1] \in Header
  <2>1. arg \in Seq(Header) /\ Len(arg) = 1
    BY DEF IInv, HeaderDone, TypeOK, HeadersReady
  <2>. QED  BY <2>1
<1>2. accepted' \in Seq(Header)
  BY <1>1 DEF IInv, HeaderDone, TypeOK
<1>3. TypeOK'
  BY <1>2 DEF IInv, HeaderDone, TypeOK
<1>4. Aligned' /\ HeadersReady' /\ RefusedIsOver'
  BY DEF IInv, HeaderDone, Aligned, HeadersReady, RefusedIsOver
<1>. QED  BY <1>3, <1>4 DEF IInv

LEMMA ReceiveInv == IInv /\ Receive => IInv'
<1>. SUFFICES ASSUME IInv, Receive PROVE IInv'
  OBVIOUS
<1>1. next' \in Seq(Header) /\ Len(next') <= 1 /\ cpc' \in {cpc, "select"}
      /\ (cpc' # cpc => cpc = "sendHeader")
  <2>1. arg \in Seq(Header) /\ Len(arg) <= 1
    BY DEF IInv, TypeOK
  <2>2. CASE cpc = "sendHeader" /\ cpc' = "select" /\ next' = arg
    BY <2>1, <2>2
  <2>3. CASE UNCHANGED cpc /\ next' = Nil
    BY <2>3 DEF Nil
  <2>. QED  BY <2>2, <2>3 DEF Receive
<1>2. /\ out' \in Seq(Packet) /\ FullBeforeLast(out')
      /\ epc' \in {"loop", "fail"} /\ (epc' = "loop" => AllFull(out'))
  <2>1. CASE Complete /\ out' = Pad(out) /\ epc' = "loop"
    BY <2>1, PadFull
  <2>2. CASE UNCHANGED out /\ epc' = "fail"
    BY <2>2 DEF IInv, TypeOK, Aligned
  <2>. QED  BY <2>1, <2>2 DEF Receive
<1>3. epc = "await" /\ UNCHANGED <<body, stack, arg, closed, accepted, sent, refused, outcome>>
  BY DEF Receive
<1>4. TypeOK'
  BY <1>1, <1>2, <1>3 DEF IInv, TypeOK
<1>5. Aligned' /\ HeadersReady' /\ RefusedIsOver'
  BY <1>1, <1>2, <1>3 DEF IInv, Aligned, HeadersReady, RefusedIsOver
<1>. QED  BY <1>4, <1>5 DEF IInv

\* A write of tokens while the output is whole leaves it whole, whether it
\* succeeds or not.
LEMMA WritingTokens ==
  ASSUME IInv, AllFull(out), NEW ss \in Seq(Strings), NEW w, w = Toks(ss),
         \/ out' = out \o w
         \/ \E k \in 0 .. Len(w) - 1 : out' = out \o SubSeq(w, 1, k)
  PROVE  out' \in Seq(Packet) /\ AllFull(out') /\ FullBeforeLast(out')
<1>1. w \in Seq(Packet) /\ AllFull(w) /\ FullBeforeLast(w)
  BY ToksType, FullFull
<1>2. CASE out' = out \o w
  BY <1>1, <1>2, WroteAll
<1>3. CASE \E k \in 0 .. Len(w) - 1 : out' = out \o SubSeq(w, 1, k)
  BY <1>1, <1>3, WrotePart
<1>. QED  BY <1>2, <1>3

LEMMA LeaveInv == IInv /\ Leave => IInv'
<1>. SUFFICES ASSUME IInv, Leave PROVE IInv'
  OBVIOUS
<1>. DEFINE w == Toks(<<")">>)
<1>1. epc = "loop" /\ AllFull(out) /\ stack \in Seq(Header) /\ stack # <<>>
  BY DEF IInv, Leave, Aligned, HeadersReady, TypeOK
<1>2. UNCHANGED <<body, caller, next>>
  BY DEF Leave, Writing, Fail
<1>3. <<")">> \in Seq(Strings)
  BY Keywords
<1>4. \/ out' = out \o w /\ epc' = "return" /\ stack' = Pop
      \/ /\ \E k \in 0 .. Len(w) - 1 : out' = out \o SubSeq(w, 1, k)
         /\ epc' = "fail" /\ stack' = stack
  BY DEF Leave, Writing, Fail
<1>. HIDE DEF w
<1>5. out' \in Seq(Packet) /\ AllFull(out') /\ FullBeforeLast(out')
  BY <1>1, <1>3, <1>4, WritingTokens DEF w
<1>6. Pop \in Seq(Header)
  BY <1>1 DEF Pop
<1>7. stack' \in Seq(Header) /\ epc' \in {"return", "fail"}
  BY <1>1, <1>4, <1>6
<1>8. TypeOK'
  BY <1>2, <1>5, <1>7 DEF IInv, TypeOK, caller
<1>9. Aligned' /\ HeadersReady' /\ RefusedIsOver'
  BY <1>1, <1>2, <1>5, <1>7 DEF IInv, Aligned, HeadersReady, RefusedIsOver, caller
<1>. QED  BY <1>8, <1>9 DEF IInv

LEMMA RejectInv == IInv /\ Reject => IInv'
<1>. SUFFICES ASSUME IInv, Reject PROVE IInv'
  OBVIOUS
<1>1. epc = "loop" /\ epc' = "fail" /\ UNCHANGED <<out, body, stack, next, caller>>
  BY DEF Reject, Fail
<1>2. TypeOK'
  BY <1>1 DEF IInv, TypeOK, caller
<1>3. Aligned' /\ HeadersReady' /\ RefusedIsOver'
  BY <1>1 DEF IInv, Aligned, AllFull, FullBeforeLast, HeadersReady, RefusedIsOver, caller
<1>. QED  BY <1>2, <1>3 DEF IInv

\* The name of an entry is one of the names of its path, or ".".
LEMMA NodeNameType ==
  ASSUME NEW p \in Seq(Strings), NEW q \in Seq(Strings), IsSingleName(p, q)
  PROVE  NodeName(p, q) \in Strings
<1>1. CASE p = q
  BY <1>1, Keywords DEF NodeName
<1>2. CASE p # q
  <2>1. q # <<>>
    <3>. SUFFICES ASSUME q = <<>> PROVE FALSE
      OBVIOUS
    <3>1. Len(p) <= 0
      BY DEF IsSingleName, IsPrefixOf
    <3>2. p = <<>>
      BY <3>1
    <3>. QED  BY <1>2, <3>2
  <2>2. q[Len(q)] \in Strings
    BY <2>1
  <2>. QED  BY <1>2, <2>2 DEF NodeName
<1>. QED  BY <1>1, <1>2

LEMMA EnterInv == IInv /\ Enter => IInv'
<1>. SUFFICES ASSUME IInv, Enter PROVE IInv'
  OBVIOUS
<1>. DEFINE p == Top.path
            q == next[1].path
            name == NodeName(p, q)
            w == Toks(<<"entry", "(", "name", name, "node">>)
<1>1. /\ epc = "loop" /\ AllFull(out)
      /\ stack \in Seq(Header) /\ stack # <<>>
      /\ next \in Seq(Header) /\ Len(next) = 1
  <2>1. epc = "loop" /\ next # <<>>
    BY DEF Enter, Nil
  <2>2. AllFull(out) /\ stack # <<>>
    BY <2>1 DEF IInv, Aligned, HeadersReady
  <2>3. stack \in Seq(Header) /\ next \in Seq(Header) /\ Len(next) <= 1
    BY DEF IInv, TypeOK
  <2>4. Len(next) = 1
    BY <2>1, <2>3, AtMostOne
  <2>. QED  BY <2>1, <2>2, <2>3, <2>4
<1>2. UNCHANGED <<body, caller, stack, next>>
  BY DEF Enter, Writing, Fail
<1>3. name \in Strings
  <2>1. Top \in Header /\ next[1] \in Header
    BY <1>1 DEF Top
  <2>2. p \in Seq(Strings) /\ q \in Seq(Strings)
    BY <2>1 DEF Header
  <2>3. IsSingleName(p, q)
    BY DEF Enter
  <2>. QED  BY <2>2, <2>3, NodeNameType
<1>4. \/ out' = out \o w /\ epc' = "emit"
      \/ /\ \E k \in 0 .. Len(w) - 1 : out' = out \o SubSeq(w, 1, k)
         /\ epc' = "fail"
  BY DEF Enter, Writing, Fail
<1>. HIDE DEF w, name
<1>5. <<"entry", "(", "name", name, "node">> \in Seq(Strings)
  BY <1>3, Keywords
<1>6. out' \in Seq(Packet) /\ AllFull(out') /\ FullBeforeLast(out')
  BY <1>1, <1>4, <1>5, WritingTokens DEF w
<1>7. epc' \in {"emit", "fail"}
  BY <1>4
<1>8. TypeOK'
  BY <1>2, <1>6, <1>7 DEF IInv, TypeOK, caller
<1>9. Aligned' /\ HeadersReady' /\ RefusedIsOver'
  BY <1>1, <1>2, <1>6, <1>7 DEF IInv, Aligned, HeadersReady, RefusedIsOver, caller
<1>. QED  BY <1>8, <1>9 DEF IInv

LEMMA ReturnInv == IInv /\ Return => IInv'
<1>. SUFFICES ASSUME IInv, Return PROVE IInv'
  OBVIOUS
<1>. DEFINE w == Toks(<<")">>)
<1>1. epc = "return" /\ AllFull(out) /\ out \in Seq(Packet)
  BY DEF IInv, Return, Aligned, TypeOK
<1>2. UNCHANGED <<body, caller, stack, next>>
  BY DEF Return, Writing, Fail
<1>3. <<")">> \in Seq(Strings)
  BY Keywords
<1>4. \/ stack # <<>> /\ out' = out \o w /\ epc' = "loop"
      \/ /\ stack # <<>>
         /\ \E k \in 0 .. Len(w) - 1 : out' = out \o SubSeq(w, 1, k)
         /\ epc' = "fail"
      \/ out' = out /\ epc' \in {"exited", "fail"}
  BY DEF Return, Writing, Fail
<1>. HIDE DEF w
<1>5. out' \in Seq(Packet) /\ AllFull(out') /\ FullBeforeLast(out')
  <2>1. CASE out' = out
    BY <1>1, <2>1, FullFull
  <2>2. CASE \/ out' = out \o w
             \/ \E k \in 0 .. Len(w) - 1 : out' = out \o SubSeq(w, 1, k)
    BY <1>1, <1>3, <2>2, WritingTokens DEF w
  <2>. QED  BY <1>4, <2>1, <2>2
<1>6. epc' \in {"loop", "fail", "exited"} /\ (epc' = "loop" => stack' # <<>>)
  BY <1>2, <1>4
<1>7. TypeOK'
  BY <1>2, <1>5, <1>6 DEF IInv, TypeOK, caller
<1>8. Aligned' /\ HeadersReady' /\ RefusedIsOver'
  BY <1>1, <1>2, <1>5, <1>6 DEF IInv, Aligned, HeadersReady, RefusedIsOver, caller
<1>. QED  BY <1>7, <1>8 DEF IInv

LEMMA WriteHeaderInv == IInv /\ (\E h \in Header : WriteHeader(h)) => IInv'
<1>. SUFFICES ASSUME IInv, NEW h \in Header, WriteHeader(h) PROVE IInv'
  OBVIOUS
<1>1. <<h>> \in Seq(Header) /\ Len(<<h>>) = 1
  OBVIOUS
<1>2. sent' \in 0 .. MaxHeaders
  <2>1. sent \in 0 .. MaxHeaders /\ sent < MaxHeaders /\ sent' = sent + 1
    BY DEF IInv, TypeOK, WriteHeader
  <2>2. MaxHeaders \in Nat
    BY NarWriterAssumption
  <2>. QED  BY <2>1, <2>2
<1>3. \/ cpc' = "sendHeader" /\ arg' = <<h>> /\ UNCHANGED outcome
      \/ outcome' = "error" /\ UNCHANGED <<cpc, arg>>
  BY DEF WriteHeader
<1>4. cpc = "idle" /\ UNCHANGED <<emitter, closed, accepted, refused>>
  BY DEF WriteHeader
<1>5. TypeOK'
  <2>1. arg' \in Seq(Header) /\ Len(arg') <= 1
    <3>1. arg \in Seq(Header) /\ Len(arg) <= 1
      BY DEF IInv, TypeOK
    <3>2. CASE arg' = <<h>>
      BY <1>1, <3>2
    <3>3. CASE arg' = arg
      BY <3>1, <3>3
    <3>. QED  BY <1>3, <3>2, <3>3
  <2>2. cpc' \in {"idle", "sendHeader"} /\ outcome' \in {"none", "ok", "error"}
    BY <1>3, <1>4 DEF IInv, TypeOK
  <2>. QED  BY <1>2, <1>4, <2>1, <2>2 DEF IInv, TypeOK, emitter
<1>6. Aligned' /\ HeadersReady' /\ RefusedIsOver'
  BY <1>1, <1>3, <1>4
     DEF IInv, Aligned, AllFull, FullBeforeLast, HeadersReady, RefusedIsOver, emitter
<1>. QED  BY <1>5, <1>6 DEF IInv

LEMMA CallerInv == IInv /\ (Writes \/ Close \/ TakeError \/ CloseReturns) => IInv'
<1>1. ASSUME IInv, Writes PROVE IInv'
  <2>1. TypeOK'
    BY <1>1 DEF IInv, TypeOK, Writes, caller
  <2>2. Aligned' /\ HeadersReady' /\ RefusedIsOver'
    BY <1>1 DEF IInv, Aligned, AllFull, FullBeforeLast, HeadersReady, RefusedIsOver, Writes, caller
  <2>. QED  BY <2>1, <2>2 DEF IInv
<1>2. ASSUME IInv, Close PROVE IInv'
  <2>1. TypeOK'
    BY <1>2 DEF IInv, TypeOK, Close, emitter
  <2>2. Aligned' /\ HeadersReady' /\ RefusedIsOver'
    BY <1>2 DEF IInv, Aligned, AllFull, FullBeforeLast, HeadersReady, RefusedIsOver, Close, emitter
  <2>. QED  BY <2>1, <2>2 DEF IInv
<1>3. ASSUME IInv, TakeError PROVE IInv'
  <2>1. TypeOK'
    BY <1>3 DEF IInv, TypeOK, TakeError
  <2>2. Aligned' /\ HeadersReady' /\ RefusedIsOver'
    BY <1>3 DEF IInv, Aligned, AllFull, FullBeforeLast, HeadersReady, RefusedIsOver, TakeError
  <2>. QED  BY <2>1, <2>2 DEF IInv
<1>4. ASSUME IInv, CloseReturns PROVE IInv'
  <2>1. TypeOK'
    BY <1>4 DEF IInv, TypeOK, CloseReturns, emitter
  <2>2. Aligned' /\ HeadersReady' /\ RefusedIsOver'
    BY <1>4 DEF IInv, Aligned, AllFull, FullBeforeLast, HeadersReady, RefusedIsOver, CloseReturns, emitter
  <2>. QED  BY <2>1, <2>2 DEF IInv
<1>. QED  BY <1>1, <1>2, <1>3, <1>4

LEMMA StutterInv == IInv /\ UNCHANGED vars => IInv'
<1>. SUFFICES ASSUME IInv, UNCHANGED vars PROVE IInv'
  OBVIOUS
<1>1. TypeOK'
  BY DEF IInv, TypeOK, vars
<1>2. Aligned' /\ HeadersReady' /\ RefusedIsOver'
  BY DEF IInv, Aligned, AllFull, FullBeforeLast, HeadersReady, RefusedIsOver, vars
<1>. QED  BY <1>1, <1>2 DEF IInv

LEMMA StepInv == IInv /\ WriterStep => IInv'
BY FirstInv, EmitNodeInv, HeaderDoneInv, ReceiveInv, LeaveInv, RejectInv, EnterInv, ReturnInv,
   WriteHeaderInv, CallerInv, StutterInv DEF WriterStep, Library

LEMMA NextIsStep == TypeOK /\ [Next]_vars => WriterStep
<1>. SUFFICES ASSUME TypeOK, [Next]_vars PROVE WriterStep
  OBVIOUS
<1>1. ASSUME Write PROVE Writes
  <2>1. body \in [total : Nat, written : Nat]
    BY DEF TypeOK
  <2>2. body' \in [total : Nat, written : Nat]
    BY <1>1, <2>1 DEF Write
  <2>. QED  BY <1>1, <2>2 DEF Write, Writes
<1>2. Headers \subseteq Header
  BY NarWriterAssumption
<1>. QED  BY <1>1, <1>2 DEF Next, WriterStep
-----------------------------------------------------------------------------
\* The inductive invariant holds of every reachable state.
THEOREM Invariance == Spec => []IInv
<1>1. IInv /\ [Next]_vars => IInv'
  BY StepInv, NextIsStep DEF IInv
<1>. QED  BY InitInv, <1>1, PTL DEF Spec

\* The variables of the writer keep their types.
THEOREM TypeCorrect == Spec => []TypeOK
<1>1. IInv => TypeOK
  BY DEF IInv
<1>. QED  BY Invariance, <1>1, PTL

\* No header is ever written into the unfinished content of a file.
THEOREM Alignment == Spec => []OutputAligned
<1>1. IInv => OutputAligned
  BY DEF IInv, Aligned, FullBeforeLast, OutputAligned
<1>. QED  BY Invariance, <1>1, PTL

\* After the first error that a call reports, the writer begins no packet
\* and accepts no header.
THEOREM ErrorsEndTheArchive == Spec => ErrorIsFinal
<1>1. IInv /\ [Next]_vars => [refused => UNCHANGED <<out, accepted>>]_vars
  <2>. SUFFICES ASSUME IInv, refused, [Next]_vars PROVE UNCHANGED <<out, accepted>>
    OBVIOUS
  <2>1. epc = "exited"
    BY DEF IInv, RefusedIsOver
  <2>2. CASE Library
    BY <2>1, <2>2 DEF Library, First, EmitNode, HeaderDone, Receive, Leave, Reject, Enter, Return,
                      TakeError, CloseReturns, emitter
  <2>3. CASE \E h \in Headers : WriteHeader(h)
    BY <2>3 DEF WriteHeader, emitter
  <2>4. CASE Write \/ Close
    BY <2>4 DEF Write, Close, emitter, caller
  <2>5. CASE UNCHANGED vars
    BY <2>5 DEF vars
  <2>. QED  BY <2>2, <2>3, <2>4, <2>5 DEF Next
<1>. QED  BY Invariance, <1>1, PTL DEF Spec, ErrorIsFinal
-----------------------------------------------------------------------------
(* The archive a Writer leaves behind: how what was accepted and written   *)
(* is made up of pieces, one for each active call of emitNode.             *)

\* What an active call of emitNode has listed and written, and what was
\* there before it.
Piece == [before : Seq(Header), ahead : Seq(Packet), hs : Seq(Header), o : Seq(Packet)]

Inner(f) == f[Len(f)]
Heads(t) == t.before \o t.hs
Packets(t) == t.ahead \o t.o

IsOpen(S, t) == <<"open", t.hs, t.o>> \in S
CanClose(S, t) ==
  /\ <<"node", t.hs, t.o \o Toks(<<")">>)>> \in S
  /\ t.hs[1].type = "directory" => IsOpen(S, t)

\* One piece for each header of the stack.
Frames(S, f, st) ==
  /\ f \in Seq(Piece) /\ Len(f) = Len(st)
  /\ \A i \in 1 .. Len(f) : f[i].hs # <<>> /\ f[i].hs[1] = st[i]
  /\ f # <<>> => f[1].before = <<>> /\ f[1].ahead = <<>>
  /\ \A i \in 1 .. Len(f) - 1 :
       /\ IsOpen(S, f[i]) /\ EntryOf(f[i].hs, st[i + 1])
       /\ f[i + 1].before = Heads(f[i])
       /\ f[i + 1].ahead = Packets(f[i]) \o Intro(st[i + 1])

\* A node that is whole: the root, or an entry of the innermost directory.
Ended(S, f, acc, o) ==
  \E es \in Seq(Header), e \in Seq(Packet) :
    /\ <<"node", es, e>> \in S /\ es # <<>>
    /\ f = <<>> => acc = es /\ o = e
    /\ f # <<>> => /\ IsOpen(S, Inner(f)) /\ EntryOf(Inner(f).hs, es[1])
                   /\ acc = Heads(Inner(f)) \o es
                   /\ o = Packets(Inner(f)) \o Intro(es[1]) \o e

\* How the pieces make up what was accepted and written, for each point that
\* the emitter may be at.
Inside(S, f, pc, acc, o, nx) ==
  /\ pc = "first" => f = <<>> /\ acc = <<>> /\ o = <<>>
  /\ pc = "emit" =>
       /\ f = <<>> => acc = <<>> /\ o = <<>>
       /\ f # <<>> => /\ IsOpen(S, Inner(f)) /\ EntryOf(Inner(f).hs, nx[1])
                      /\ acc = Heads(Inner(f))
                      /\ o = Packets(Inner(f)) \o Intro(nx[1])
  /\ pc \in {"done", "await", "loop"} => f # <<>> /\ o = Packets(Inner(f))
  /\ pc = "done" => acc = Inner(f).before
  /\ pc \in {"await", "loop"} => acc = Heads(Inner(f))
  /\ pc \in {"done", "await"} =>
       Inner(f).hs = <<Inner(f).hs[1]>> /\ Inner(f).o = Opening(Inner(f).hs[1])
  /\ pc = "loop" => CanClose(S, Inner(f))
  /\ pc = "return" => Ended(S, f, acc, o)
-----------------------------------------------------------------------------
(* Pieces come and go at the end of the sequence. *)

LEMMA PushPiece ==
  ASSUME NEW S, NEW f, NEW st \in Seq(Header), Frames(S, f, st),
         NEW h \in Header, NEW t \in Piece, t.hs = <<h>>,
         f = <<>> => t.before = <<>> /\ t.ahead = <<>>,
         f # <<>> => /\ IsOpen(S, Inner(f)) /\ EntryOf(Inner(f).hs, h)
                     /\ t.before = Heads(Inner(f))
                     /\ t.ahead = Packets(Inner(f)) \o Intro(h)
  PROVE  /\ Frames(S, Append(f, t), Append(st, h))
         /\ Append(f, t) # <<>> /\ Inner(Append(f, t)) = t
<1>. DEFINE g == Append(f, t)
            su == Append(st, h)
            n == Len(f)
<1>1. f \in Seq(Piece) /\ n = Len(st) /\ n \in Nat
  BY DEF Frames
<1>2. /\ g \in Seq(Piece) /\ Len(g) = n + 1 /\ g[n + 1] = t /\ g # <<>>
      /\ \A i \in 1 .. n : g[i] = f[i]
      /\ Len(su) = n + 1 /\ su[n + 1] = h /\ \A i \in 1 .. n : su[i] = st[i]
  <2>1. g \in Seq(Piece) /\ Len(g) = n + 1 /\ g[n + 1] = t
    BY <1>1
  <2>2. \A i \in 1 .. n : g[i] = f[i]
    BY <1>1
  <2>3. Len(su) = n + 1 /\ su[n + 1] = h
    BY <1>1
  <2>4. \A i \in 1 .. n : su[i] = st[i]
    BY <1>1
  <2>5. g # <<>>
    BY <1>1, AppendProperties
  <2>. QED  BY <2>1, <2>2, <2>3, <2>4, <2>5
<1>. HIDE DEF g, su
<1>3. ASSUME NEW i \in 1 .. Len(g) PROVE g[i].hs # <<>> /\ g[i].hs[1] = su[i]
  <2>1. CASE i \in 1 .. n
    BY <1>2, <2>1 DEF Frames
  <2>2. CASE i = n + 1
    <3>1. t.hs # <<>> /\ t.hs[1] = h
      OBVIOUS
    <3>. QED  BY <1>2, <2>2, <3>1
  <2>. QED  BY <1>1, <1>2, <2>1, <2>2
<1>4. g[1].before = <<>> /\ g[1].ahead = <<>>
  <2>1. CASE f = <<>>
    BY <1>1, <1>2, <2>1
  <2>2. CASE f # <<>>
    <3>1. 1 \in 1 .. n
      BY <1>1, <2>2
    <3>. QED  BY <1>2, <2>2, <3>1 DEF Frames
  <2>. QED  BY <2>1, <2>2
<1>5. ASSUME NEW i \in 1 .. Len(g) - 1
      PROVE  /\ IsOpen(S, g[i]) /\ EntryOf(g[i].hs, su[i + 1])
             /\ g[i + 1].before = Heads(g[i])
             /\ g[i + 1].ahead = Packets(g[i]) \o Intro(su[i + 1])
  <2>1. i \in 1 .. n /\ g[i] = f[i]
    BY <1>1, <1>2
  <2>2. CASE i = n
    <3>1. f # <<>> /\ Inner(f) = g[i] /\ g[i + 1] = t /\ su[i + 1] = h
      BY <1>1, <1>2, <2>1, <2>2 DEF Inner
    <3>. QED  BY <3>1
  <2>3. CASE i # n
    <3>1. i \in 1 .. n - 1 /\ i + 1 \in 1 .. n
      BY <1>1, <2>1, <2>3
    <3>. QED  BY <1>2, <2>1, <3>1 DEF Frames
  <2>. QED  BY <2>2, <2>3
<1>6. Inner(g) = t
  BY <1>2 DEF Inner
<1>7. Frames(S, g, su)
  BY <1>2, <1>3, <1>4, <1>5 DEF Frames
<1>. QED  BY <1>2, <1>6, <1>7 DEF g, su

LEMMA PopPiece ==
  ASSUME NEW S, NEW f, NEW st \in Seq(Header), Frames(S, f, st), f # <<>>
  PROVE  LET g == SubSeq(f, 1, Len(f) - 1)
             top == st[Len(st)]
         IN  /\ Frames(S, g, SubSeq(st, 1, Len(st) - 1))
             /\ g = <<>> => Inner(f).before = <<>> /\ Inner(f).ahead = <<>>
             /\ g # <<>> => /\ IsOpen(S, Inner(g)) /\ EntryOf(Inner(g).hs, top)
                            /\ Inner(f).before = Heads(Inner(g))
                            /\ Inner(f).ahead = Packets(Inner(g)) \o Intro(top)
<1>. DEFINE g == SubSeq(f, 1, Len(f) - 1)
            su == SubSeq(st, 1, Len(st) - 1)
            n == Len(f)
<1>1. f \in Seq(Piece) /\ n = Len(st) /\ n \in Nat \ {0}
  BY DEF Frames
<1>2. /\ g \in Seq(Piece) /\ Len(g) = n - 1
      /\ \A i \in 1 .. n - 1 : g[i] = f[i]
      /\ Len(su) = n - 1 /\ \A i \in 1 .. n - 1 : su[i] = st[i]
  <2>1. n - 1 \in 0 .. n
    BY <1>1
  <2>2. g \in Seq(Piece) /\ su \in Seq(Header)
    BY <1>1, <2>1
  <2>3. \A m \in Nat : Len(SubSeq(f, 1, m)) = m /\ Len(SubSeq(st, 1, m)) = m
    BY <1>1
  <2>4. n - 1 \in Nat
    BY <1>1
  <2>5. Len(g) = n - 1 /\ Len(su) = n - 1
    BY <1>1, <2>3, <2>4, Zenon
  <2>6. \A i \in 1 .. n - 1 : g[i] = f[i]
    BY <1>1, <2>1
  <2>7. \A i \in 1 .. n - 1 : su[i] = st[i]
    BY <1>1, <2>1
  <2>. QED  BY <2>2, <2>5, <2>6, <2>7
<1>3. Inner(f) = f[n] /\ st[Len(st)] = st[n]
  BY <1>1 DEF Inner
<1>. HIDE DEF g, su
<1>4. Frames(S, g, su)
  <2>1. ASSUME NEW i \in 1 .. n - 1 PROVE g[i].hs # <<>> /\ g[i].hs[1] = su[i]
    <3>1. i \in 1 .. n /\ g[i] = f[i] /\ su[i] = st[i]
      BY <1>1, <1>2
    <3>. QED  BY <3>1 DEF Frames
  <2>2. ASSUME g # <<>> PROVE g[1].before = <<>> /\ g[1].ahead = <<>>
    <3>1. 1 \in 1 .. n - 1
      BY <1>1, <1>2, <2>2
    <3>2. g[1] = f[1]
      BY <1>2, <3>1
    <3>. QED  BY <3>2 DEF Frames
  <2>3. ASSUME NEW i \in 1 .. Len(g) - 1
        PROVE  /\ IsOpen(S, g[i]) /\ EntryOf(g[i].hs, su[i + 1])
               /\ g[i + 1].before = Heads(g[i])
               /\ g[i + 1].ahead = Packets(g[i]) \o Intro(su[i + 1])
    <3>1. /\ i \in 1 .. n - 1 /\ g[i] = f[i]
          /\ g[i + 1] = f[i + 1] /\ su[i + 1] = st[i + 1]
      BY <1>1, <1>2
    <3>. QED  BY <3>1 DEF Frames
  <2>. QED  BY <1>2, <2>1, <2>2, <2>3 DEF Frames
<1>5. CASE g = <<>>
  <2>1. n = 1
    BY <1>1, <1>2, <1>5
  <2>. QED  BY <1>3, <1>4, <1>5, <2>1 DEF Frames, g, su
<1>6. CASE g # <<>>
  <2>1. n - 1 \in 1 .. n - 1 /\ (n - 1) + 1 = n
    BY <1>1, <1>2, <1>6
  <2>2. Inner(g) = f[n - 1]
    BY <1>2, <2>1 DEF Inner
  <2>3. /\ IsOpen(S, f[n - 1]) /\ EntryOf(f[n - 1].hs, st[(n - 1) + 1])
        /\ f[(n - 1) + 1].before = Heads(f[n - 1])
        /\ f[(n - 1) + 1].ahead = Packets(f[n - 1]) \o Intro(st[(n - 1) + 1])
    BY <2>1 DEF Frames
  <2>. QED  BY <1>3, <1>4, <1>6, <2>1, <2>2, <2>3 DEF g, su
<1>. QED  BY <1>5, <1>6

LEMMA SetPiece ==
  ASSUME NEW S, NEW f, NEW st \in Seq(Header), Frames(S, f, st), f # <<>>,
         NEW t \in Piece, t.hs # <<>>, t.hs[1] = Inner(f).hs[1],
         t.before = Inner(f).before, t.ahead = Inner(f).ahead
  PROVE  LET g == [f EXCEPT ![Len(f)] = t]
         IN  Frames(S, g, st) /\ g # <<>> /\ Inner(g) = t
<1>. DEFINE g == [f EXCEPT ![Len(f)] = t]
            n == Len(f)
<1>1. f \in Seq(Piece) /\ n = Len(st) /\ n \in Nat \ {0} /\ Inner(f) = f[n]
  BY DEF Frames, Inner
<1>2. g \in Seq(Piece) /\ Len(g) = n /\ g[n] = t /\ \A i \in 1 .. n - 1 : g[i] = f[i]
  BY <1>1
<1>. HIDE DEF g
<1>3. ASSUME NEW i \in 1 .. n PROVE g[i].hs # <<>> /\ g[i].hs[1] = st[i]
  <2>1. i \in 1 .. n - 1 \/ i = n
    BY <1>1
  <2>. QED  BY <1>1, <1>2, <2>1 DEF Frames
<1>4. g[1].before = <<>> /\ g[1].ahead = <<>>
  <2>1. 1 \in 1 .. n - 1 \/ n = 1
    BY <1>1
  <2>. QED  BY <1>1, <1>2, <2>1 DEF Frames
<1>5. ASSUME NEW i \in 1 .. n - 1
      PROVE  /\ IsOpen(S, g[i]) /\ EntryOf(g[i].hs, st[i + 1])
             /\ g[i + 1].before = Heads(g[i])
             /\ g[i + 1].ahead = Packets(g[i]) \o Intro(st[i + 1])
  <2>1. g[i] = f[i]
    BY <1>2
  <2>2. i + 1 \in 1 .. n - 1 \/ i + 1 = n
    BY <1>1
  <2>3. g[i + 1].before = f[i + 1].before /\ g[i + 1].ahead = f[i + 1].ahead
    BY <1>1, <1>2, <2>2
  <2>. QED  BY <1>1, <2>1, <2>3 DEF Frames
<1>6. Frames(S, g, st) /\ g # <<>> /\ Inner(g) = t
  BY <1>1, <1>2, <1>3, <1>4, <1>5 DEF Frames, Inner
<1>. QED  BY <1>6 DEF g
-----------------------------------------------------------------------------
(* Which headers are accepted behind which.  The calls of emitNode that    *)
(* are active lead to the last header; a header that is on its way up      *)
(* through them was compared with that one first.                          *)

ProperHeader == {h \in Header : Proper(h.path)}

CleanStep ==
  Library \/ (\E h \in ProperHeader : WriteHeader(h)) \/ Writes \/ Close \/ UNCHANGED vars

ProperType ==
  /\ stack \in Seq(ProperHeader) /\ next \in Seq(ProperHeader)
  /\ arg \in Seq(ProperHeader) /\ accepted \in Seq(ProperHeader)

Handed ==
  /\ epc = "emit" => cpc = "select" /\ next = arg
  /\ epc = "done" => cpc = "select" /\ stack # <<>> /\ arg = <<Top>>
  /\ epc \in {"loop", "return"} /\ next # Nil => cpc = "select" /\ next = arg
  /\ closed => cpc = "closing" \/ epc = "exited"

Last == LastOf(accepted)

Told ==
  /\ epc = "first" => stack = <<>> /\ accepted = <<>>
  /\ \A i \in 1 .. Len(stack) - 1 : IsPrefixOf(stack[i].path, stack[i + 1].path)
  /\ epc = "emit" /\ stack # <<>> => IsPrefixOf(Top.path, next[1].path)
  /\ epc \in {"await", "loop", "return"} => accepted # <<>>
  /\ epc = "exited" /\ ~ refused => accepted # <<>>
  /\ epc = "await" => Top.path = Last
  /\ epc \in {"loop", "return"} /\ stack # <<>> => IsPrefixOf(Top.path, Last)
  /\ epc \in {"loop", "return"} /\ next # Nil =>
       \/ epc = "loop" /\ Top.path = Last
       \/ /\ PathIsLexicographicallyOrdered(PathString(Last), PathString(next[1].path))
          /\ LeavesDirectory(Last, next[1].path)
  /\ epc \in {"emit", "done"} /\ accepted # <<>> => TreeLeq(Last, arg[1].path)
  /\ epc \in {"emit", "done"} /\ accepted = <<>> => arg[1].path = <<>>
  /\ accepted # <<>> => accepted[1].path = <<>>

\* The headers come in the order of the tree.
AcceptedInOrder ==
  \A j \in DOMAIN accepted : \A i \in 1 .. j - 1 :
    TreeLeq(accepted[i].path, accepted[j].path)

OrderInv == ProperType /\ Handed /\ Told /\ AcceptedInOrder

LEMMA OneElement ==
  ASSUME NEW S, NEW s \in Seq(S), Len(s) = 1
  PROVE  s[1] \in S /\ s = <<s[1]>>
<1>1. s[1] \in S
  BY ElementOfSeq
<1>. DEFINE t == <<s[1]>>
<1>2. t \in Seq(S) /\ Len(t) = 1 /\ t[1] = s[1]
  BY <1>1
<1>. HIDE DEF t
<1>3. s = t
  BY <1>2, SeqEqual
<1>. QED  BY <1>1, <1>3 DEF t

LEMMA PrefixIs ==
  ASSUME NEW S, NEW p \in Seq(S), NEW q \in Seq(S)
  PROVE  IsPrefixOf(p, q) <=> Len(p) <= Len(q) /\ \A i \in 1 .. Len(p) : p[i] = q[i]
<1>. DEFINE r == SubSeq(q, 1, Len(p))
<1>1. Len(p) \in Nat /\ Len(q) \in Nat
  OBVIOUS
<1>. SUFFICES ASSUME Len(p) <= Len(q)
              PROVE  r = p <=> \A i \in 1 .. Len(p) : p[i] = q[i]
  BY DEF IsPrefixOf
<1>2. r \in Seq(S) /\ Len(r) = Len(p) /\ \A i \in 1 .. Len(p) : r[i] = q[i]
  <2>1. Len(p) \in 0 .. Len(q)
    BY <1>1
  <2>2. r \in Seq(S)
    BY <2>1
  <2>3. \A i \in 1 .. Len(p) : r[i] = q[i]
    BY <2>1
  <2>4. \A m \in Nat : Len(SubSeq(q, 1, m)) = m
    OBVIOUS
  <2>. QED  BY <1>1, <2>2, <2>3, <2>4, Zenon
<1>. HIDE DEF r
<1>3. ASSUME \A i \in 1 .. Len(p) : p[i] = q[i] PROVE r = p
  <2>1. Len(r) = Len(p) /\ \A i \in 1 .. Len(p) : r[i] = p[i]
    BY <1>2, <1>3
  <2>. QED  BY <1>2, <2>1
<1>. QED  BY <1>2, <1>3

LEMMA PrefixTransitive ==
  ASSUME NEW S, NEW p \in Seq(S), NEW q \in Seq(S), NEW r \in Seq(S),
         IsPrefixOf(p, q), IsPrefixOf(q, r)
  PROVE  IsPrefixOf(p, r)
<1>1. /\ Len(p) <= Len(q) /\ \A i \in 1 .. Len(p) : p[i] = q[i]
      /\ Len(q) <= Len(r) /\ \A i \in 1 .. Len(q) : q[i] = r[i]
      /\ Len(p) \in Nat /\ Len(q) \in Nat /\ Len(r) \in Nat
  BY PrefixIs
<1>2. Len(p) <= Len(r) /\ \A i \in 1 .. Len(p) : p[i] = r[i]
  BY <1>1
<1>. QED  BY <1>2, PrefixIs

LEMMA PrefixItself == ASSUME NEW S, NEW p \in Seq(S) PROVE IsPrefixOf(p, p)
BY PrefixIs

\* A header that becomes an entry of p comes behind the last one: either p
\* is the last one, or the call of emitNode for the last one has returned.
LEMMA EntryFollows ==
  ASSUME NEW p \in Seq(Strings), NEW q \in Seq(Strings), NEW l \in Seq(Strings),
         Proper(l), Proper(q), IsPrefixOf(p, l), IsSingleName(p, q),
         PathIsLexicographicallyOrdered(PathString(l), PathString(q)),
         p = l \/ LeavesDirectory(l, q)
  PROVE  /\ TreeLeq(l, q)
         /\ q # l => \E n \in Strings : q = Append(p, n)
<1>1. /\ Len(p) \in Nat /\ Len(q) \in Nat /\ Len(l) \in Nat
      /\ Len(p) <= Len(l) /\ \A i \in 1 .. Len(p) : p[i] = l[i]
      /\ Len(p) <= Len(q) /\ \A i \in 1 .. Len(p) : p[i] = q[i]
      /\ Len(q) <= Len(p) + 1
  BY PrefixIs DEF IsSingleName
<1>2. CASE Len(q) = Len(p)
  <2>1. p = q
    BY <1>1, <1>2
  <2>2. ASSUME Len(q) < Len(l) PROVE FALSE
    <3>1. SameNames(l, q, Len(q))
      BY <1>1, <2>1 DEF SameNames
    <3>. QED  BY <2>2, <3>1, NoWayBack
  <2>3. q = l
    BY <1>1, <2>1, <2>2
  <2>. QED  BY <2>3, TreeReflexive
<1>3. CASE Len(q) = Len(p) + 1
  <2>1. SameNames(l, q, Len(p))
    BY <1>1 DEF SameNames
  <2>2. TreeLeq(l, q)
    BY <1>1, <1>3, <2>1, EntryOrder
  <2>3. q = Append(p, q[Len(q)]) /\ q[Len(q)] \in Strings
    BY <1>1, <1>3
  <2>. QED  BY <2>2, <2>3
<1>. QED  BY <1>1, <1>2, <1>3

LEMMA ProperIsHeader ==
  /\ ProperHeader \subseteq Header
  /\ \A h \in ProperHeader : h.path \in Seq(Strings) /\ Proper(h.path)
BY DEF ProperHeader, Header

\* What a proper stack looks like from its end.
LEMMA TopOf ==
  ASSUME ProperType, stack # <<>>
  PROVE  /\ Top \in ProperHeader /\ Top.path \in Seq(Strings) /\ Proper(Top.path)
         /\ Len(stack) \in Nat \ {0} /\ Pop \in Seq(ProperHeader)
         /\ Len(Pop) = Len(stack) - 1 /\ \A i \in 1 .. Len(stack) - 1 : Pop[i] = stack[i]
<1>1. stack \in Seq(ProperHeader)
  BY DEF ProperType
<1>2. Len(stack) \in Nat \ {0} /\ Len(stack) - 1 \in 0 .. Len(stack) /\ Len(stack) - 1 \in Nat
  BY <1>1
<1>3. Top \in ProperHeader
  BY <1>1, <1>2 DEF Top
<1>4. \A m \in Nat : Len(SubSeq(stack, 1, m)) = m
  BY <1>1
<1>5. Len(Pop) = Len(stack) - 1
  BY <1>2, <1>4, Zenon DEF Pop
<1>6. Pop \in Seq(ProperHeader)
  BY <1>1, <1>2 DEF Pop
<1>7. \A i \in 1 .. Len(stack) - 1 : Pop[i] = stack[i]
  BY <1>1, <1>2 DEF Pop
<1>. QED  BY <1>2, <1>3, <1>5, <1>6, <1>7, ProperIsHeader

LEMMA LastIs ==
  ASSUME ProperType, accepted # <<>>
  PROVE  Last \in Seq(Strings) /\ Proper(Last)
<1>1. Len(accepted) \in 1 .. Len(accepted) /\ accepted \in Seq(ProperHeader)
  BY DEF ProperType
<1>2. accepted[Len(accepted)] \in ProperHeader
  BY <1>1
<1>. QED  BY <1>2, ProperIsHeader DEF Last, LastOf

\* Steps behind which the emitter has nothing to pass on.
LEMMA FailOrder ==
  ASSUME IInv, OrderInv, epc' \in {"fail", "exited"},
         UNCHANGED <<stack, arg, accepted, closed>>,
         next' = next \/ next' = arg \/ next' = Nil,
         closed => cpc' = "closing" \/ epc' = "exited",
         epc' = "exited" => refused' \/ epc = "return"
  PROVE  OrderInv'
<1>1. ProperType'
  <2>1. Nil \in Seq(ProperHeader)
    BY DEF Nil
  <2>. QED  BY <2>1 DEF OrderInv, ProperType
<1>2. Handed'
  BY DEF Handed
<1>3. Told'
  BY DEF OrderInv, Told
<1>4. AcceptedInOrder'
  BY DEF OrderInv, AcceptedInOrder
<1>. QED  BY <1>1, <1>2, <1>3, <1>4 DEF OrderInv
-----------------------------------------------------------------------------
LEMMA FirstOrder == ASSUME IInv, OrderInv, First PROVE OrderInv'
<1>1. CASE epc' = "fail"
  BY <1>1, FailOrder DEF OrderInv, Handed, First
<1>2. CASE epc' = "emit"
  <2>1. /\ next' = arg /\ cpc' = "select" /\ epc = "first"
        /\ UNCHANGED <<stack, arg, accepted, closed>>
        /\ stack = <<>> /\ accepted = <<>>
    BY <1>2 DEF First, OrderInv, Told
  <2>2. ProperType'
    BY <2>1 DEF OrderInv, ProperType
  <2>3. Handed'
    BY <1>2, <2>1 DEF OrderInv, Handed, First
  <2>4. arg[1].path = <<>>
    BY <1>2 DEF First
  <2>5. Told'
    BY <1>2, <2>1, <2>4 DEF OrderInv, Told
  <2>6. AcceptedInOrder'
    BY <2>1 DEF OrderInv, AcceptedInOrder
  <2>. QED  BY <2>2, <2>3, <2>5, <2>6 DEF OrderInv
<1>. QED  BY <1>1, <1>2 DEF First

LEMMA EmitNodeOrder == ASSUME IInv, OrderInv, EmitNode PROVE OrderInv'
<1>1. UNCHANGED caller /\ epc = "emit"
  BY DEF EmitNode
<1>2. CASE Fail
  BY <1>1, <1>2, FailOrder DEF OrderInv, Handed, Fail, caller
<1>3. CASE stack' = Append(stack, next[1]) /\ epc' = "done" /\ next' = Nil
  <2>1. /\ UNCHANGED <<cpc, arg, accepted, closed>> /\ cpc = "select" /\ next = arg
        /\ stack \in Seq(ProperHeader) /\ next \in Seq(ProperHeader) /\ Len(next) = 1
        /\ Len(stack) \in Nat
    BY <1>1 DEF OrderInv, ProperType, Handed, IInv, HeadersReady, caller
  <2>2. next[1] \in ProperHeader /\ next = <<next[1]>>
    BY <2>1, OneElement
  <2>3. /\ stack' \in Seq(ProperHeader) /\ stack' # <<>> /\ Len(stack') = Len(stack) + 1
        /\ stack'[Len(stack) + 1] = next[1] /\ \A i \in 1 .. Len(stack) : stack'[i] = stack[i]
    <3>1. stack' \in Seq(ProperHeader) /\ Len(stack') = Len(stack) + 1
      BY <1>3, <2>1, <2>2
    <3>2. stack'[Len(stack) + 1] = next[1] /\ \A i \in 1 .. Len(stack) : stack'[i] = stack[i]
      BY <1>3, <2>1, <2>2
    <3>3. stack' # <<>>
      BY <1>3, <2>1, <2>2, AppendProperties
    <3>. QED  BY <3>1, <3>2, <3>3
  <2>4. ProperType'
    <3>1. Nil \in Seq(ProperHeader)
      BY DEF Nil
    <3>. QED  BY <1>3, <2>1, <2>3, <3>1 DEF OrderInv, ProperType
  <2>5. Top' = next[1]
    BY <2>1, <2>3 DEF Top
  <2>6. Handed'
    BY <1>1, <1>3, <2>1, <2>2, <2>3, <2>5 DEF OrderInv, Handed
  <2>7. ASSUME NEW i \in 1 .. Len(stack') - 1
        PROVE  IsPrefixOf(stack'[i].path, stack'[i + 1].path)
    <3>1. i \in 1 .. Len(stack)
      BY <2>1, <2>3
    <3>2. CASE i = Len(stack)
      <4>1. stack # <<>> /\ Top = stack[i]
        BY <2>1, <3>1, <3>2 DEF Top
      <4>. QED  BY <1>1, <2>3, <3>1, <3>2, <4>1 DEF OrderInv, Told
    <3>3. CASE i # Len(stack)
      <4>1. i \in 1 .. Len(stack) - 1 /\ i + 1 \in 1 .. Len(stack)
        BY <2>1, <3>1, <3>3
      <4>. QED  BY <2>3, <3>1, <4>1 DEF OrderInv, Told
    <3>. QED  BY <3>2, <3>3
  <2>8. /\ accepted # <<>> => TreeLeq(Last, arg[1].path) /\ accepted[1].path = <<>>
        /\ accepted = <<>> => arg[1].path = <<>>
    BY <1>1 DEF OrderInv, Told
  <2>9. Told'
    BY <1>3, <2>1, <2>7, <2>8 DEF Told, Last
  <2>10. AcceptedInOrder'
    BY <2>1 DEF OrderInv, AcceptedInOrder
  <2>. QED  BY <2>4, <2>6, <2>9, <2>10 DEF OrderInv
<1>. QED  BY <1>2, <1>3 DEF EmitNode

LEMMA HeaderDoneOrder == ASSUME IInv, OrderInv, HeaderDone PROVE OrderInv'
<1>. DEFINE h == arg[1]
<1>1. /\ epc = "done" /\ epc' = "await" /\ cpc' = "idle"
      /\ accepted' = Append(accepted, h) /\ UNCHANGED <<stack, next, arg, closed>>
      /\ cpc = "select" /\ stack # <<>> /\ arg = <<Top>>
      /\ accepted \in Seq(ProperHeader) /\ Len(accepted) \in Nat
  BY DEF HeaderDone, OrderInv, Handed, ProperType
<1>2. Top \in ProperHeader
  BY <1>1, TopOf DEF OrderInv
<1>3. h = Top
  BY <1>1
<1>. HIDE DEF h
<1>4. accepted' \in Seq(ProperHeader) /\ Len(accepted') = Len(accepted) + 1
  BY <1>1, <1>2, <1>3
<1>5. /\ accepted'[Len(accepted) + 1] = h
      /\ \A i \in 1 .. Len(accepted) : accepted'[i] = accepted[i]
  BY <1>1, <1>2, <1>3
<1>6. accepted' # <<>>
  BY <1>1, <1>2, <1>3, AppendProperties
<1>7. Last' = Top.path
  BY <1>3, <1>4, <1>5 DEF Last, LastOf
<1>8. ProperType'
  BY <1>1, <1>4 DEF OrderInv, ProperType
<1>9. Handed'
  BY <1>1 DEF OrderInv, Handed
<1>10. accepted'[1].path = <<>>
  <2>1. CASE accepted = <<>>
    <3>1. h.path = <<>> /\ Len(accepted) + 1 = 1
      BY <1>1, <2>1 DEF OrderInv, Told, h
    <3>. QED  BY <1>5, <3>1
  <2>2. CASE accepted # <<>>
    <3>1. 1 \in 1 .. Len(accepted) /\ accepted[1].path = <<>>
      BY <1>1, <2>2 DEF OrderInv, Told
    <3>. QED  BY <1>5, <3>1
  <2>. QED  BY <2>1, <2>2
<1>11. Told'
  BY <1>1, <1>6, <1>7, <1>10 DEF OrderInv, Told, Top
<1>12. AcceptedInOrder'
  <2>. SUFFICES ASSUME NEW j \in DOMAIN accepted', NEW i \in 1 .. j - 1
                PROVE  TreeLeq(accepted'[i].path, accepted'[j].path)
    BY DEF AcceptedInOrder
  <2>1. j \in 1 .. Len(accepted) + 1 /\ i \in 1 .. Len(accepted) /\ accepted'[i] = accepted[i]
    BY <1>1, <1>4, <1>5
  <2>2. CASE j \in 1 .. Len(accepted)
    BY <1>1, <1>5, <2>1, <2>2 DEF OrderInv, AcceptedInOrder
  <2>3. CASE j = Len(accepted) + 1
    <3>1. accepted # <<>> /\ Len(accepted) \in DOMAIN accepted
      BY <1>1, <2>1
    <3>2. TreeLeq(Last, h.path)
      BY <1>1, <3>1 DEF OrderInv, Told, h
    <3>3. TreeLeq(accepted[i].path, Last)
      <4>1. CASE i = Len(accepted)
        <5>1. Last = accepted[i].path /\ Last \in Seq(Strings)
          BY <3>1, <4>1, LastIs DEF Last, LastOf, OrderInv
        <5>. QED  BY <5>1, TreeReflexive
      <4>2. CASE i # Len(accepted)
        <5>1. i \in 1 .. Len(accepted) - 1
          BY <1>1, <2>1, <4>2
        <5>. QED  BY <3>1, <5>1 DEF OrderInv, AcceptedInOrder, Last, LastOf
      <4>. QED  BY <4>1, <4>2
    <3>4. accepted[i] \in ProperHeader
      BY <1>1, <2>1
    <3>5. accepted[i].path \in Seq(Strings) /\ Last \in Seq(Strings) /\ h.path \in Seq(Strings)
      BY <1>2, <1>3, <3>1, <3>4, LastIs, ProperIsHeader DEF OrderInv
    <3>. QED  BY <1>5, <2>1, <2>3, <3>2, <3>3, <3>5, TreeTransitive
  <2>. QED  BY <2>1, <2>2, <2>3
<1>. QED  BY <1>8, <1>9, <1>11, <1>12 DEF OrderInv

LEMMA ReceiveOrder == ASSUME IInv, OrderInv, Receive PROVE OrderInv'
<1>1. /\ epc = "await" /\ UNCHANGED <<body, stack, arg, closed, accepted>>
      /\ (cpc = "sendHeader" /\ cpc' = "select" /\ next' = arg) \/ (closed /\ cpc' = cpc /\ next' = Nil)
      /\ epc' = "loop" \/ epc' = "fail"
  BY DEF Receive
<1>2. closed => cpc' = "closing"
  BY <1>1 DEF OrderInv, Handed
<1>3. CASE epc' = "fail"
  BY <1>1, <1>2, <1>3, FailOrder
<1>4. CASE epc' = "loop"
  <2>1. ProperType'
    <3>1. Nil \in Seq(ProperHeader)
      BY DEF Nil
    <3>. QED  BY <1>1, <3>1 DEF OrderInv, ProperType
  <2>2. Handed'
    BY <1>1, <1>2, <1>4 DEF OrderInv, Handed
  <2>3. stack # <<>>
    BY <1>1 DEF IInv, HeadersReady
  <2>4. Top.path = Last /\ accepted # <<>>
    BY <1>1 DEF OrderInv, Told
  <2>5. IsPrefixOf(Top.path, Last)
    BY <2>3, <2>4, TopOf, PrefixItself DEF OrderInv
  <2>6. Told'
    BY <1>1, <1>4, <2>4, <2>5 DEF OrderInv, Told, Top, Last
  <2>7. AcceptedInOrder'
    BY <1>1 DEF OrderInv, AcceptedInOrder
  <2>. QED  BY <2>1, <2>2, <2>6, <2>7 DEF OrderInv
<1>. QED  BY <1>1, <1>3, <1>4

\* A step of writes, when it fails.
LEMMA WritingFails ==
  ASSUME IInv, OrderInv, Fail, UNCHANGED caller, epc \in {"loop", "return"}
  PROVE  OrderInv'
<1>1. epc' = "fail" /\ UNCHANGED <<stack, arg, accepted, closed, next, cpc>>
  BY DEF Fail, caller
<1>2. closed => cpc' = "closing"
  BY <1>1 DEF OrderInv, Handed
<1>. QED  BY <1>1, <1>2, FailOrder

LEMMA LeaveOrder == ASSUME IInv, OrderInv, Leave PROVE OrderInv'
<1>1. /\ epc = "loop" /\ UNCHANGED <<cpc, arg, closed, accepted>> /\ UNCHANGED caller
      /\ next # Nil =>
           /\ PathIsLexicographicallyOrdered(PathString(Top.path), PathString(next[1].path))
           /\ LeavesDirectory(Top.path, next[1].path)
      /\ (epc' = "return" /\ stack' = Pop /\ UNCHANGED next) \/ Fail
  BY DEF Leave, Writing, caller
<1>2. CASE Fail
  BY <1>1, <1>2, WritingFails
<1>3. CASE epc' = "return" /\ stack' = Pop /\ UNCHANGED next
  <2>1. stack # <<>>
    BY <1>1 DEF IInv, HeadersReady
  <2>. DEFINE n == Len(stack)
  <2>2. /\ n \in Nat \ {0} /\ stack' \in Seq(ProperHeader) /\ Len(stack') = n - 1
        /\ \A i \in 1 .. n - 1 : stack'[i] = stack[i]
        /\ Top.path \in Seq(Strings)
    BY <1>3, <2>1, TopOf DEF OrderInv
  <2>3. ProperType'
    BY <1>1, <1>3, <2>2 DEF OrderInv, ProperType
  <2>4. Handed'
    BY <1>1, <1>3 DEF OrderInv, Handed
  <2>5. /\ accepted # <<>> /\ IsPrefixOf(Top.path, Last) /\ accepted[1].path = <<>>
        /\ \A i \in 1 .. n - 1 : IsPrefixOf(stack[i].path, stack[i + 1].path)
        /\ next # Nil =>
             \/ Top.path = Last
             \/ /\ PathIsLexicographicallyOrdered(PathString(Last), PathString(next[1].path))
                /\ LeavesDirectory(Last, next[1].path)
    BY <1>1, <2>1 DEF OrderInv, Told
  <2>6. Last' = Last
    BY <1>1 DEF Last
  <2>7. next # Nil =>
          /\ PathIsLexicographicallyOrdered(PathString(Last), PathString(next[1].path))
          /\ LeavesDirectory(Last, next[1].path)
    BY <1>1, <2>5
  <2>8. \A i \in 1 .. Len(stack') - 1 : IsPrefixOf(stack'[i].path, stack'[i + 1].path)
    <3>. SUFFICES ASSUME NEW i \in 1 .. Len(stack') - 1
                  PROVE  IsPrefixOf(stack'[i].path, stack'[i + 1].path)
      OBVIOUS
    <3>1. i \in 1 .. n - 1 /\ i + 1 \in 1 .. n - 1
      BY <2>2
    <3>. QED  BY <2>2, <2>5, <3>1
  <2>9. ASSUME stack' # <<>> PROVE IsPrefixOf(Top'.path, Last)
    <3>1. n - 1 \in 1 .. n - 1 /\ (n - 1) + 1 = n
      BY <2>2, <2>9
    <3>2. Top' = stack[n - 1] /\ Top = stack[n]
      BY <2>2, <3>1 DEF Top
    <3>3. IsPrefixOf(stack[n - 1].path, stack[(n - 1) + 1].path)
      BY <2>5, <3>1
    <3>4. Top'.path \in Seq(Strings)
      <4>1. stack[n - 1] \in ProperHeader
        BY <2>2, <3>1, ElementOfSeq
      <4>. QED  BY <3>2, <4>1, ProperIsHeader
    <3>5. Last \in Seq(Strings)
      BY <2>5, LastIs DEF OrderInv
    <3>. QED  BY <2>2, <2>5, <3>1, <3>2, <3>3, <3>4, <3>5, PrefixTransitive
  <2>10. Told'
    BY <1>1, <1>3, <2>5, <2>6, <2>7, <2>8, <2>9 DEF Told
  <2>11. AcceptedInOrder'
    BY <1>1 DEF OrderInv, AcceptedInOrder
  <2>. QED  BY <2>3, <2>4, <2>10, <2>11 DEF OrderInv
<1>. QED  BY <1>1, <1>2, <1>3

LEMMA RejectOrder == ASSUME IInv, OrderInv, Reject PROVE OrderInv'
BY WritingFails DEF Reject

LEMMA EnterOrder == ASSUME IInv, OrderInv, Enter PROVE OrderInv'
<1>. DEFINE q == next[1].path
<1>1. /\ epc = "loop" /\ next # Nil /\ UNCHANGED <<cpc, arg, closed, accepted>> /\ UNCHANGED caller
      /\ PathIsLexicographicallyOrdered(PathString(Top.path), PathString(q))
      /\ IsSingleName(Top.path, q)
      /\ (epc' = "emit" /\ UNCHANGED <<stack, next>>) \/ Fail
  BY DEF Enter, Writing, caller
<1>2. CASE Fail
  BY <1>1, <1>2, WritingFails
<1>3. CASE epc' = "emit" /\ UNCHANGED <<stack, next>>
  <2>1. stack # <<>> /\ cpc = "select" /\ next = arg /\ Len(arg) = 1
    BY <1>1 DEF IInv, HeadersReady, OrderInv, Handed
  <2>2. next[1] \in ProperHeader
    BY <2>1, OneElement DEF OrderInv, ProperType
  <2>3. /\ accepted # <<>> /\ IsPrefixOf(Top.path, Last)
        /\ \/ Top.path = Last
           \/ /\ PathIsLexicographicallyOrdered(PathString(Last), PathString(q))
              /\ LeavesDirectory(Last, q)
    BY <1>1, <2>1 DEF OrderInv, Told
  <2>4. TreeLeq(Last, q)
    <3>1. Top.path \in Seq(Strings) /\ q \in Seq(Strings) /\ Proper(q)
      BY <2>1, <2>2, TopOf, ProperIsHeader DEF OrderInv
    <3>2. Last \in Seq(Strings) /\ Proper(Last)
      BY <2>3, LastIs DEF OrderInv
    <3>. QED  BY <1>1, <2>3, <3>1, <3>2, EntryFollows
  <2>5. ProperType' /\ Handed'
    BY <1>1, <1>3, <2>1 DEF OrderInv, ProperType, Handed
  <2>6. IsPrefixOf(Top.path, q)
    BY <1>1 DEF IsSingleName
  <2>7. Top' = Top /\ Last' = Last
    BY <1>1, <1>3 DEF Top, Last
  <2>8. Told'
    BY <1>1, <1>3, <2>1, <2>4, <2>6, <2>7 DEF OrderInv, Told
  <2>9. AcceptedInOrder'
    BY <1>1 DEF OrderInv, AcceptedInOrder
  <2>. QED  BY <2>5, <2>8, <2>9 DEF OrderInv
<1>. QED  BY <1>1, <1>2, <1>3

LEMMA ReturnOrder == ASSUME IInv, OrderInv, Return PROVE OrderInv'
<1>1. /\ epc = "return" /\ UNCHANGED <<cpc, arg, closed, accepted>> /\ UNCHANGED caller
      /\ \/ stack # <<>> /\ epc' = "loop" /\ UNCHANGED <<stack, next>>
         \/ Fail
         \/ epc' \in {"exited", "fail"} /\ UNCHANGED <<stack, next>>
  BY DEF Return, Writing, caller
<1>2. CASE Fail
  BY <1>1, <1>2, WritingFails
<1>3. CASE stack # <<>> /\ epc' = "loop" /\ UNCHANGED <<stack, next>>
  <2>1. ProperType' /\ Handed'
    BY <1>1, <1>3 DEF OrderInv, ProperType, Handed
  <2>2. Top' = Top /\ Last' = Last
    BY <1>1, <1>3 DEF Top, Last
  <2>3. Told'
    BY <1>1, <1>3, <2>2 DEF OrderInv, Told
  <2>4. AcceptedInOrder'
    BY <1>1 DEF OrderInv, AcceptedInOrder
  <2>. QED  BY <2>1, <2>3, <2>4 DEF OrderInv
<1>4. CASE epc' \in {"exited", "fail"} /\ UNCHANGED <<stack, next>>
  <2>1. closed => cpc' = "closing"
    BY <1>1 DEF OrderInv, Handed
  <2>. QED  BY <1>1, <1>4, <2>1, FailOrder
<1>. QED  BY <1>1, <1>2, <1>3, <1>4

\* The steps of the caller.
LEMMA CallerOrder ==
  ASSUME IInv, OrderInv,
         \/ \E h \in ProperHeader : WriteHeader(h)
         \/ Writes \/ Close \/ TakeError \/ CloseReturns \/ UNCHANGED vars
  PROVE  OrderInv'
<1>1. CASE TakeError
  BY <1>1, FailOrder DEF TakeError
<1>2. /\ UNCHANGED <<stack, next, accepted>>
      /\ TakeError \/ UNCHANGED <<epc, refused>>
      /\ arg' = arg \/ (cpc = "idle" /\ \E h \in ProperHeader : arg' = <<h>>)
  BY DEF WriteHeader, Writes, Close, TakeError, CloseReturns, vars, emitter, caller
<1>3. CASE ~ TakeError
  <2>1. ProperType'
    <3>1. \A h \in ProperHeader : <<h>> \in Seq(ProperHeader)
      OBVIOUS
    <3>. QED  BY <1>2, <3>1 DEF OrderInv, ProperType
  <2>2. epc \in {"emit", "done"} => cpc = "select"
    BY DEF OrderInv, Handed
  <2>3. Handed'
    <3>1. CASE \E h \in ProperHeader : WriteHeader(h)
      BY <2>2, <3>1 DEF OrderInv, Handed, WriteHeader, emitter, Top
    <3>2. CASE Writes \/ UNCHANGED vars
      BY <3>2 DEF OrderInv, Handed, Writes, vars, caller, Top
    <3>3. CASE Close
      BY <2>2, <3>3 DEF OrderInv, Handed, Close, emitter, Top
    <3>4. CASE CloseReturns
      BY <2>2, <3>4 DEF OrderInv, Handed, CloseReturns, emitter, Top
    <3>. QED  BY <1>3, <3>1, <3>2, <3>3, <3>4
  <2>4. Top' = Top /\ Last' = Last
    BY <1>2 DEF Top, Last
  <2>5. epc \in {"emit", "done"} => arg' = arg
    BY <1>2, <2>2
  <2>6. Told'
    BY <1>2, <1>3, <2>4, <2>5 DEF OrderInv, Told
  <2>7. AcceptedInOrder'
    BY <1>2 DEF OrderInv, AcceptedInOrder
  <2>. QED  BY <2>1, <2>3, <2>6, <2>7 DEF OrderInv
<1>. QED  BY <1>1, <1>3

LEMMA StepOrder == ASSUME IInv, OrderInv, CleanStep PROVE OrderInv'
BY FirstOrder, EmitNodeOrder, HeaderDoneOrder, ReceiveOrder, LeaveOrder, RejectOrder, EnterOrder,
   ReturnOrder, CallerOrder DEF CleanStep, Library

LEMMA InitOrder == Init => OrderInv
<1>. SUFFICES ASSUME Init PROVE OrderInv
  OBVIOUS
<1>1. <<>> \in Seq(ProperHeader) /\ DOMAIN <<>> = {} /\ Len(<<>>) = 0
  OBVIOUS
<1>. QED  BY <1>1 DEF Init, Nil, OrderInv, ProperType, Handed, Told, AcceptedInOrder
-----------------------------------------------------------------------------
(* The pieces, step by step. *)

LEMMA PieceType ==
  ASSUME NEW f \in Seq(Piece), f # <<>>
  PROVE  LET t == Inner(f)
         IN  /\ t \in Piece /\ t.before \in Seq(Header) /\ t.ahead \in Seq(Packet)
             /\ t.hs \in Seq(Header) /\ t.o \in Seq(Packet)
             /\ Heads(t) \in Seq(Header) /\ Packets(t) \in Seq(Packet)
<1>1. Inner(f) \in Piece
  <2>1. Len(f) \in 1 .. Len(f)
    BY EmptySeq
  <2>. QED  BY <2>1, ElementOfSeq DEF Inner
<1>2. \A t \in Piece : /\ t.before \in Seq(Header) /\ t.ahead \in Seq(Packet)
                       /\ t.hs \in Seq(Header) /\ t.o \in Seq(Packet)
  BY DEF Piece
<1>3. \A t \in Piece : Heads(t) \in Seq(Header) /\ Packets(t) \in Seq(Packet)
  BY <1>2, ConcatProperties DEF Heads, Packets
<1>. QED  BY <1>1, <1>2, <1>3

\* The token that ends a node, or an entry.
LEMMA EndType == Toks(<<")">>) \in Seq(Packet)
<1>1. <<")">> \in Seq(Strings)
  BY Keywords
<1>. QED  BY <1>1, ToksType

LEMMA ExecType ==
  ASSUME NEW h
  PROVE  (IF h.exec THEN <<Tok("executable"), Empty>> ELSE <<>>) \in Seq(Packet)
<1>1. Tok("executable") \in Packet
  BY Keywords, TokType
<1>2. Empty \in Packet
  BY Keywords DEF Empty, Packet
<1>3. <<Tok("executable"), Empty>> \in Seq(Packet) /\ <<>> \in Seq(Packet)
  BY <1>1, <1>2
<1>. QED  BY <1>3

\* The packets of an opened node, with the content complete.
Padded(h) ==
  Toks(<<"(", "type", h.type>>)
    \o (IF h.type = "regular"
        THEN (IF h.exec THEN <<Tok("executable"), Empty>> ELSE <<>>)
               \o <<Tok("contents"), Blob(h.size)>>
        ELSE IF h.type = "symlink" THEN Toks(<<"target", "to">>) ELSE <<>>)

LEMMA PaddedType == ASSUME NEW h \in Header PROVE Padded(h) \in Seq(Packet)
<1>. DEFINE start == Toks(<<"(", "type", h.type>>)
            exec == IF h.exec THEN <<Tok("executable"), Empty>> ELSE <<>>
            blob == <<Tok("contents"), Blob(h.size)>>
            link == Toks(<<"target", "to">>)
<1>1. h.type \in Types /\ h.type \in Strings /\ h.size \in Nat
  BY Keywords DEF Header
<1>2. start \in Seq(Packet) /\ link \in Seq(Packet)
  <2>1. <<"(", "type", h.type>> \in Seq(Strings) /\ <<"target", "to">> \in Seq(Strings)
    BY <1>1, Keywords
  <2>. QED  BY <2>1, ToksType
<1>3. exec \in Seq(Packet)
  BY ExecType
<1>4. blob \in Seq(Packet)
  BY <1>1, Keywords DEF Tok, Blob, Packet
<1>5. Padded(h) = start \o (IF h.type = "regular" THEN exec \o blob
                            ELSE IF h.type = "symlink" THEN link ELSE <<>>)
  BY DEF Padded
<1>6. <<>> \in Seq(Packet)
  OBVIOUS
<1>. HIDE DEF start, exec, blob, link
<1>7. exec \o blob \in Seq(Packet)
  BY <1>3, <1>4, ConcatProperties
<1>. QED  BY <1>2, <1>5, <1>6, <1>7, ConcatProperties

\* An opened and completed node is one that ")" ends.
LEMMA PaddedCloses ==
  ASSUME NEW S, Grammar(S), NEW h \in Header, NEW t \in Piece, t.hs = <<h>>, t.o = Padded(h)
  PROVE  CanClose(S, t)
<1>. DEFINE end == Toks(<<")">>)
            start == Toks(<<"(", "type", h.type>>)
<1>1. t.hs[1] = h /\ <<h>> \in Seq(Header) /\ h.type \in Types /\ h.type \in Strings
  BY Keywords DEF Header
<1>2. Padded(h) \in Seq(Packet)
  BY PaddedType
<1>3. CASE h.type = "directory"
  <2>1. start \in Seq(Packet)
    <3>1. <<"(", "type", h.type>> \in Seq(Strings)
      BY <1>1, Keywords
    <3>. QED  BY <3>1, ToksType
  <2>2. Padded(h) = start
    <3>1. Padded(h) = start \o <<>>
      BY <1>3 DEF Padded
    <3>. HIDE DEF start
    <3>. QED  BY <2>1, <3>1, ConcatEmptySeq
  <2>3. <<"open", <<h>>, Padded(h)>> \in S
    BY <1>3, <2>2 DEF Grammar
  <2>4. <<"node", <<h>>, Padded(h) \o end>> \in S
    BY <1>1, <1>2, <2>3 DEF Grammar
  <2>. QED  BY <1>1, <2>3, <2>4 DEF CanClose, IsOpen
<1>4. CASE h.type # "directory"
  <2>1. LeafPackets(h) = Padded(h) \o end
    <3>. DEFINE mid == IF h.type = "regular"
                       THEN (IF h.exec THEN <<Tok("executable"), Empty>> ELSE <<>>)
                              \o <<Tok("contents"), Blob(h.size)>>
                       ELSE Toks(<<"target", "to">>)
    <3>1. LeafPackets(h) = start \o mid \o end
      BY DEF LeafPackets
    <3>2. Padded(h) = start \o mid
      BY <1>1, <1>4 DEF Padded, Types
    <3>. QED  BY <3>1, <3>2
  <2>2. <<"node", <<h>>, Padded(h) \o end>> \in S
    BY <1>4, <2>1 DEF Grammar
  <2>. QED  BY <1>1, <1>4, <2>2 DEF CanClose
<1>. QED  BY <1>3, <1>4

\* Only the content of a regular file waits to be completed.
LEMMA PadIs ==
  ASSUME NEW a \in Seq(Packet), NEW h \in Header, Complete
  PROVE  Pad(a \o Opening(h)) = a \o Padded(h)
<1>. DEFINE start == Toks(<<"(", "type", h.type>>)
            exec == IF h.exec THEN <<Tok("executable"), Empty>> ELSE <<>>
            link == Toks(<<"target", "to">>)
            o == a \o Opening(h)
<1>1. h.type \in Types /\ h.type \in Strings /\ h.size \in Nat
  BY Keywords DEF Header
<1>2. start \in Seq(Packet) /\ link \in Seq(Packet) /\ AllFull(start) /\ AllFull(link)
      /\ Len(start) = 3 /\ Len(link) = 2
  <2>1. /\ <<"(", "type", h.type>> \in Seq(Strings) /\ <<"target", "to">> \in Seq(Strings)
        /\ Len(<<"(", "type", h.type>>) = 3 /\ Len(<<"target", "to">>) = 2
    BY <1>1, Keywords
  <2>. QED  BY <2>1, ToksType
<1>3. exec \in Seq(Packet)
  BY ExecType
<1>4. Opening(h) \in Seq(Packet) /\ Padded(h) \in Seq(Packet)
  BY OpeningType, PaddedType
<1>5. CASE h.type = "regular"
  <2>. DEFINE c == Tok("contents")
              b == OpenBlob(h.size)
              d == Blob(h.size)
              w == start \o exec
              v == a \o w
              k == Len(v) + 2
  <2>1. c \in Packet /\ b \in Packet /\ d \in Packet
    BY <1>1, Keywords DEF Tok, OpenBlob, Blob, Packet
  <2>2. b.have = "none" /\ d = [b EXCEPT !.have = "full"]
    BY DEF OpenBlob, Blob
  <2>3. Opening(h) = start \o (exec \o <<c, b>>) /\ Padded(h) = start \o (exec \o <<c, d>>)
    BY <1>5 DEF Opening, Padded
  <2>. HIDE DEF c, b, d, start, exec
  <2>4. <<c, b>> \in Seq(Packet) /\ <<c, d>> \in Seq(Packet)
    BY <2>1
  <2>5. w \in Seq(Packet) /\ v \in Seq(Packet)
    BY <1>2, <1>3, ConcatProperties
  <2>6. Opening(h) = w \o <<c, b>> /\ Padded(h) = w \o <<c, d>>
    <3>. DEFINE cb == <<c, b>>
                cd == <<c, d>>
    <3>1. cb \in Seq(Packet) /\ cd \in Seq(Packet)
      BY <2>4
    <3>2. Opening(h) = start \o (exec \o cb) /\ Padded(h) = start \o (exec \o cd)
      BY <2>3
    <3>. HIDE DEF cb, cd
    <3>3. start \in Seq(Packet)
      BY <1>2
    <3>4. start \o (exec \o cb) = w \o cb
      BY <1>3, <3>1, <3>3, ConcatAssociative
    <3>5. start \o (exec \o cd) = w \o cd
      BY <1>3, <3>1, <3>3, ConcatAssociative
    <3>6. Opening(h) = w \o cb /\ Padded(h) = w \o cd
      BY <3>2, <3>4, <3>5
    <3>. QED  BY <3>6 DEF cb, cd
  <2>7. o = v \o <<c, b>> /\ a \o Padded(h) = v \o <<c, d>>
    <3>. HIDE DEF w
    <3>. QED  BY <2>4, <2>5, <2>6, ConcatAssociative
  <2>. HIDE DEF v, o
  <2>8. /\ o \in Seq(Packet) /\ Len(o) = k /\ k \in Nat \ {0} /\ o[k] = b
        /\ v \o <<c, d>> \in Seq(Packet) /\ Len(v \o <<c, d>>) = k
        /\ (v \o <<c, d>>)[k] = d
        /\ \A i \in 1 .. k - 1 : o[i] = (v \o <<c, d>>)[i]
    BY <2>1, <2>4, <2>5, <2>7
  <2>9. Pad(o) = [o EXCEPT ![k].have = "full"]
    BY <2>2, <2>8 DEF Pad, Complete
  <2>10. [o EXCEPT ![k].have = "full"] = [o EXCEPT ![k] = d]
    BY <2>2, <2>8
  <2>11. [o EXCEPT ![k] = d] = v \o <<c, d>>
    <3>. DEFINE x == [o EXCEPT ![k] = d]
                y == v \o <<c, d>>
    <3>1. /\ x \in Seq(Packet) /\ Len(x) = k
          /\ \A i \in 1 .. k : x[i] = IF i = k THEN d ELSE o[i]
      BY <2>1, <2>8, ExceptSeq
    <3>2. ASSUME NEW i \in 1 .. k PROVE x[i] = y[i]
      BY <2>8, <3>1
    <3>. HIDE DEF x, y
    <3>3. y \in Seq(Packet) /\ Len(y) = k
      BY <2>8 DEF y
    <3>4. x = y
      BY <3>1, <3>2, <3>3, SeqEqual
    <3>. QED  BY <3>4 DEF x, y
  <2>. QED  BY <2>7, <2>9, <2>10, <2>11 DEF o
<1>6. CASE h.type # "regular"
  <2>. DEFINE w == IF h.type = "symlink" THEN link ELSE <<>>
  <2>1. Opening(h) = start \o w /\ Padded(h) = start \o w
    BY <1>6 DEF Opening, Padded
  <2>2. w \in Seq(Packet) /\ AllFull(w)
    BY <1>2 DEF AllFull
  <2>. HIDE DEF start, w
  <2>3. start \o w \in Seq(Packet) /\ AllFull(start \o w) /\ Len(start \o w) \in Nat \ {0}
    <3>1. start \in Seq(Packet) /\ AllFull(start) /\ Len(start) = 3
      BY <1>2
    <3>2. Len(start \o w) = Len(start) + Len(w)
      BY <2>2, <3>1, ConcatProperties
    <3>3. Len(w) \in Nat
      BY <2>2
    <3>4. start \o w \in Seq(Packet) /\ AllFull(start \o w)
      BY <2>2, <3>1, AppendFull
    <3>. QED  BY <3>1, <3>2, <3>3, <3>4
  <2>. DEFINE y == start \o w
  <2>. HIDE DEF y
  <2>4. o = a \o y /\ a \o Padded(h) = a \o y
    BY <2>1 DEF y
  <2>5. y \in Seq(Packet) /\ AllFull(y) /\ Len(y) \in Nat \ {0}
    BY <2>3 DEF y
  <2>6. (a \o y)[Len(a \o y)] = y[Len(y)] /\ Len(y) \in 1 .. Len(y)
    BY <2>5
  <2>7. Pad(a \o y) = a \o y
    BY <2>5, <2>6 DEF Pad, AllFull
  <2>. QED  BY <2>4, <2>7
<1>. QED  BY <1>5, <1>6
-----------------------------------------------------------------------------
(* The emitter builds archives.  A header that repeats the path before it  *)
(* passes for an entry of that directory, named "."; as long as there is   *)
(* none, the pieces of the active calls make up what was written.          *)

Repeats(hs) == \E i \in 2 .. Len(hs) : hs[i].path = hs[i - 1].path

\* With the header that the emitter has let pass and the caller not yet heard of.
Listed == IF epc \in {"emit", "done"} THEN accepted \o arg ELSE accepted

Shape(S, st, pc, acc, o, nx) == \E f : Frames(S, f, st) /\ Inside(S, f, pc, acc, o, nx)

Built ==
  ~ Repeats(Listed) =>
    \A S : Grammar(S) =>
      /\ epc \notin {"fail", "exited"} => Shape(S, stack, epc, accepted, out, next)
      /\ epc = "exited" /\ ~ refused => <<"node", accepted, out>> \in S

LEMMA RepeatsNot ==
  ASSUME NEW hs \in Seq(Header), NEW h \in Header, ~ Repeats(hs \o <<h>>)
  PROVE  ~ Repeats(hs) /\ (hs # <<>> => LastOf(hs) # h.path)
<1>. DEFINE g == hs \o <<h>>
            n == Len(hs)
<1>1. /\ Len(g) = n + 1 /\ g[n + 1] = h /\ \A i \in 1 .. n : g[i] = hs[i]
      /\ n \in Nat /\ g \in Seq(Header)
  OBVIOUS
<1>. HIDE DEF g
<1>2. \A i \in 2 .. n + 1 : g[i].path # g[i - 1].path
  BY <1>1 DEF Repeats, g
<1>3. ~ Repeats(hs)
  <2>. SUFFICES ASSUME NEW i \in 2 .. n PROVE hs[i].path # hs[i - 1].path
    BY DEF Repeats
  <2>1. i \in 1 .. n /\ i - 1 \in 1 .. n /\ i \in 2 .. n + 1
    BY <1>1
  <2>. QED  BY <1>1, <1>2, <2>1
<1>4. ASSUME hs # <<>> PROVE LastOf(hs) # h.path
  <2>1. n \in 1 .. n /\ n + 1 \in 2 .. n + 1 /\ (n + 1) - 1 = n
    BY <1>1, <1>4
  <2>. QED  BY <1>1, <1>2, <2>1 DEF LastOf
<1>. QED  BY <1>3, <1>4

LEMMA FirstShape ==
  ASSUME NEW S, Shape(S, stack, epc, accepted, out, next), First, epc' \notin {"fail", "exited"}
  PROVE  Shape(S, stack', epc', accepted', out', next')
<1>1. PICK f : Frames(S, f, stack) /\ Inside(S, f, epc, accepted, out, next)
  BY DEF Shape
<1>2. epc = "first" /\ epc' = "emit" /\ UNCHANGED <<stack, accepted, out>>
  BY DEF First
<1>3. f = <<>> /\ accepted = <<>> /\ out = <<>>
  BY <1>1, <1>2 DEF Inside
<1>4. Inside(S, f, epc', accepted', out', next')
  BY <1>2, <1>3 DEF Inside
<1>. QED  BY <1>1, <1>2, <1>4 DEF Shape

LEMMA EmitNodeShape ==
  ASSUME NEW S, IInv, Shape(S, stack, epc, accepted, out, next), EmitNode,
         epc' \notin {"fail", "exited"}
  PROVE  Shape(S, stack', epc', accepted', out', next')
<1>. DEFINE h == next[1]
            t == [before |-> accepted, ahead |-> out, hs |-> <<h>>, o |-> Opening(h)]
<1>1. PICK f : Frames(S, f, stack) /\ Inside(S, f, epc, accepted, out, next)
  BY DEF Shape
<1>2. /\ epc = "emit" /\ epc' = "done" /\ next' = Nil /\ accepted' = accepted
      /\ out' = out \o Opening(h) /\ stack' = Append(stack, h)
  BY DEF EmitNode, Fail, caller
<1>3. h \in Header /\ accepted \in Seq(Header) /\ out \in Seq(Packet) /\ stack \in Seq(Header)
  <2>1. next \in Seq(Header) /\ Len(next) = 1
    BY <1>2 DEF IInv, TypeOK, HeadersReady
  <2>. QED  BY <2>1, OneElement DEF IInv, TypeOK
<1>4. t \in Piece
  <2>1. Opening(h) \in Seq(Packet) /\ <<h>> \in Seq(Header)
    BY <1>3, OpeningType
  <2>. QED  BY <1>3, <2>1 DEF Piece
<1>5. /\ t.before = accepted /\ t.ahead = out /\ t.hs = <<h>> /\ t.o = Opening(h)
      /\ t.hs[1] = h
  OBVIOUS
<1>6. /\ f = <<>> => accepted = <<>> /\ out = <<>>
      /\ f # <<>> => /\ IsOpen(S, Inner(f)) /\ EntryOf(Inner(f).hs, h)
                     /\ accepted = Heads(Inner(f))
                     /\ out = Packets(Inner(f)) \o Intro(h)
  BY <1>1, <1>2 DEF Inside
<1>. HIDE DEF t, h
<1>7. /\ Frames(S, Append(f, t), Append(stack, h))
      /\ Append(f, t) # <<>> /\ Inner(Append(f, t)) = t
  BY <1>1, <1>3, <1>4, <1>5, <1>6, PushPiece
<1>8. Inside(S, Append(f, t), "done", accepted, out \o Opening(h), Nil)
  BY <1>5, <1>7 DEF Inside, Packets
<1>9. Frames(S, Append(f, t), stack') /\ Inside(S, Append(f, t), epc', accepted', out', next')
  BY <1>2, <1>7, <1>8 DEF h
<1>. QED  BY <1>9 DEF Shape

LEMMA HeaderDoneShape ==
  ASSUME NEW S, IInv, OrderInv, Shape(S, stack, epc, accepted, out, next), HeaderDone
  PROVE  Shape(S, stack', epc', accepted', out', next')
<1>. DEFINE h == arg[1]
<1>1. PICK f : Frames(S, f, stack) /\ Inside(S, f, epc, accepted, out, next)
  BY DEF Shape
<1>2. /\ epc = "done" /\ epc' = "await" /\ accepted' = Append(accepted, h)
      /\ UNCHANGED <<out, stack, next>>
  BY DEF HeaderDone
<1>. DEFINE t == Inner(f)
<1>3. /\ f # <<>> /\ out = Packets(t) /\ accepted = t.before
      /\ t.hs = <<t.hs[1]>> /\ t.o = Opening(t.hs[1])
  BY <1>1, <1>2 DEF Inside
<1>4. f \in Seq(Piece) /\ Len(f) = Len(stack) /\ Len(f) \in 1 .. Len(f)
  BY <1>1, <1>3 DEF Frames
<1>5. t.hs[1] = h
  <2>1. arg = <<Top>>
    BY <1>2 DEF OrderInv, Handed
  <2>2. h = stack[Len(f)]
    BY <1>4, <2>1 DEF Top
  <2>. QED  BY <1>1, <1>4, <2>2 DEF Frames, Inner
<1>6. accepted' = Heads(t)
  <2>1. t.before \in Seq(Header) /\ t.hs \in Seq(Header)
    BY <1>3, <1>4, PieceType
  <2>2. h \in Header
    <3>1. t.hs # <<>>
      BY <1>1, <1>4 DEF Frames, Inner
    <3>. QED  BY <1>5, <2>1, <3>1
  <2>3. \A a \in Seq(Header) : Append(a, h) = a \o <<h>>
    BY <2>2
  <2>. QED  BY <1>2, <1>3, <1>5, <2>1, <2>3 DEF Heads
<1>. HIDE DEF t, h
<1>7. Inside(S, f, "await", Heads(t), Packets(t), next)
  BY <1>3 DEF Inside, t
<1>8. Frames(S, f, stack') /\ Inside(S, f, epc', accepted', out', next')
  BY <1>1, <1>2, <1>3, <1>6, <1>7
<1>. QED  BY <1>8 DEF Shape

LEMMA ReceiveShape ==
  ASSUME NEW S, Grammar(S), IInv, Shape(S, stack, epc, accepted, out, next), Receive,
         epc' \notin {"fail", "exited"}
  PROVE  Shape(S, stack', epc', accepted', out', next')
<1>1. PICK f : Frames(S, f, stack) /\ Inside(S, f, epc, accepted, out, next)
  BY DEF Shape
<1>2. /\ epc = "await" /\ epc' = "loop" /\ UNCHANGED <<stack, accepted>>
      /\ Complete /\ out' = Pad(out)
  BY DEF Receive
<1>. DEFINE t == Inner(f)
            h == t.hs[1]
            u == [before |-> t.before, ahead |-> t.ahead, hs |-> t.hs, o |-> Padded(h)]
            g == [f EXCEPT ![Len(f)] = u]
<1>3. /\ f # <<>> /\ out = Packets(t) /\ accepted = Heads(t)
      /\ t.hs = <<h>> /\ t.o = Opening(h)
  BY <1>1, <1>2 DEF Inside
<1>4. f \in Seq(Piece)
  BY <1>1 DEF Frames
<1>5. /\ t.before \in Seq(Header) /\ t.ahead \in Seq(Packet)
      /\ t.hs \in Seq(Header) /\ t.o \in Seq(Packet)
  BY <1>3, <1>4, PieceType
<1>6. t.hs # <<>> /\ h \in Header
  <2>1. Len(f) \in 1 .. Len(f)
    BY <1>3, <1>4
  <2>2. t.hs # <<>>
    BY <1>1, <2>1 DEF Frames, Inner
  <2>. QED  BY <1>5, <2>2
<1>7. u \in Piece
  BY <1>5, <1>6, PaddedType DEF Piece
<1>8. u.before = t.before /\ u.ahead = t.ahead /\ u.hs = t.hs /\ u.o = Padded(h)
  OBVIOUS
<1>9. out' = t.ahead \o Padded(h)
  <2>1. out' = Pad(t.ahead \o Opening(h))
    BY <1>2, <1>3 DEF Packets
  <2>2. Pad(t.ahead \o Opening(h)) = t.ahead \o Padded(h)
    BY <1>2, <1>5, <1>6, PadIs
  <2>. QED  BY <2>1, <2>2
<1>10. CanClose(S, u)
  <2>. DEFINE hh == h
  <2>1. hh \in Header /\ u.hs = <<hh>> /\ u.o = Padded(hh)
    BY <1>3, <1>6, <1>8
  <2>. HIDE DEF u, hh
  <2>. QED  BY <1>7, <2>1, PaddedCloses
<1>. HIDE DEF u
<1>11. Frames(S, g, stack) /\ g # <<>> /\ Inner(g) = u
  <2>1. stack \in Seq(Header)
    BY DEF IInv, TypeOK
  <2>2. u.hs # <<>> /\ u.hs[1] = Inner(f).hs[1]
    BY <1>6, <1>8
  <2>3. u.before = Inner(f).before /\ u.ahead = Inner(f).ahead
    BY <1>8
  <2>. QED  BY <1>1, <1>3, <1>7, <2>1, <2>2, <2>3, SetPiece
<1>12. accepted = Heads(u) /\ out' = Packets(u)
  BY <1>3, <1>8, <1>9 DEF Heads, Packets
<1>. HIDE DEF g
<1>13. Inside(S, g, "loop", accepted, out', next')
  BY <1>10, <1>11, <1>12 DEF Inside
<1>14. Frames(S, g, stack') /\ Inside(S, g, epc', accepted', out', next')
  BY <1>2, <1>11, <1>13
<1>. QED  BY <1>14 DEF Shape
\* Without its last call, a stack still has the pieces of the others; what
\* the call wrote is a node.
LEMMA LeaveShape ==
  ASSUME NEW S, IInv, Shape(S, stack, epc, accepted, out, next), Leave,
         epc' \notin {"fail", "exited"}
  PROVE  Shape(S, stack', epc', accepted', out', next')
<1>. DEFINE end == Toks(<<")">>)
<1>1. PICK f : Frames(S, f, stack) /\ Inside(S, f, epc, accepted, out, next)
  BY DEF Shape
<1>2. /\ epc = "loop" /\ epc' = "return" /\ accepted' = accepted /\ stack' = Pop
      /\ out' = out \o end
  BY DEF Leave, Writing, Fail, caller
<1>. DEFINE t == Inner(f)
            g == SubSeq(f, 1, Len(f) - 1)
            e == t.o \o end
<1>3. f # <<>> /\ out = Packets(t) /\ accepted = Heads(t) /\ CanClose(S, t)
  BY <1>1, <1>2 DEF Inside
<1>4. f \in Seq(Piece) /\ Len(f) = Len(stack) /\ stack \in Seq(Header)
  BY <1>1 DEF Frames, IInv, TypeOK
<1>5. /\ t.before \in Seq(Header) /\ t.ahead \in Seq(Packet)
      /\ t.hs \in Seq(Header) /\ t.o \in Seq(Packet)
  BY <1>3, <1>4, PieceType
<1>6. t.hs # <<>> /\ t.hs[1] = Top
  <2>1. Len(f) \in 1 .. Len(f)
    BY <1>3, <1>4
  <2>. QED  BY <1>1, <1>4, <2>1 DEF Frames, Inner, Top
<1>7. /\ Frames(S, g, Pop)
      /\ g = <<>> => t.before = <<>> /\ t.ahead = <<>>
      /\ g # <<>> => /\ IsOpen(S, Inner(g)) /\ EntryOf(Inner(g).hs, Top)
                     /\ t.before = Heads(Inner(g))
                     /\ t.ahead = Packets(Inner(g)) \o Intro(Top)
  BY <1>1, <1>3, <1>4, PopPiece DEF Pop, Top
<1>8. <<"node", t.hs, e>> \in S
  BY <1>3 DEF CanClose
<1>9. e \in Seq(Packet) /\ end \in Seq(Packet)
  <2>1. end \in Seq(Packet)
    BY EndType
  <2>. HIDE DEF end
  <2>. QED  BY <1>5, <2>1, ConcatProperties
<1>10. accepted = t.before \o t.hs /\ out' = (t.ahead \o t.o) \o end
  BY <1>2, <1>3 DEF Heads, Packets
<1>11. out' = t.ahead \o e
  <2>1. end \in Seq(Packet)
    BY <1>9
  <2>. HIDE DEF end, t
  <2>. DEFINE a == t.ahead
              o == t.o
  <2>2. a \in Seq(Packet) /\ o \in Seq(Packet)
    BY <1>5
  <2>. HIDE DEF a, o
  <2>3. (a \o o) \o end = a \o (o \o end)
    BY <2>1, <2>2, ConcatAssociative
  <2>. QED  BY <1>10, <2>3 DEF a, o
<1>. HIDE DEF g, e, end, t
<1>12. Ended(S, g, accepted, out')
  <2>1. CASE g = <<>>
    <3>1. accepted = t.hs /\ out' = e
      BY <1>5, <1>7, <1>9, <1>10, <1>11, <2>1, ConcatEmptySeq
    <3>. QED  BY <1>5, <1>6, <1>8, <1>9, <2>1, <3>1 DEF Ended
  <2>2. CASE g # <<>>
    <3>1. /\ IsOpen(S, Inner(g)) /\ EntryOf(Inner(g).hs, t.hs[1])
          /\ accepted = Heads(Inner(g)) \o t.hs
          /\ out' = Packets(Inner(g)) \o Intro(t.hs[1]) \o e
      BY <1>6, <1>7, <1>10, <1>11, <2>2
    <3>. QED  BY <1>5, <1>6, <1>8, <1>9, <2>2, <3>1 DEF Ended
  <2>. QED  BY <2>1, <2>2
<1>13. Inside(S, g, "return", accepted, out', next')
  BY <1>12 DEF Inside
<1>14. Frames(S, g, stack') /\ Inside(S, g, epc', accepted', out', next')
  BY <1>2, <1>7, <1>13
<1>. QED  BY <1>14 DEF Shape

LEMMA EnterShape ==
  ASSUME NEW S, IInv, OrderInv, Shape(S, stack, epc, accepted, out, next), Enter,
         epc' \notin {"fail", "exited"}, ~ Repeats(accepted \o arg)
  PROVE  Shape(S, stack', epc', accepted', out', next')
<1>. DEFINE h == next[1]
            p == Top.path
            q == h.path
<1>1. PICK f : Frames(S, f, stack) /\ Inside(S, f, epc, accepted, out, next)
  BY DEF Shape
<1>2. /\ epc = "loop" /\ epc' = "emit" /\ next # Nil /\ UNCHANGED <<stack, next, accepted>>
      /\ out' = out \o Toks(<<"entry", "(", "name", NodeName(p, q), "node">>)
      /\ Top.type = "directory" /\ IsSingleName(p, q)
      /\ PathIsLexicographicallyOrdered(PathString(p), PathString(q))
  BY DEF Enter, Writing, Fail, caller
<1>. DEFINE t == Inner(f)
<1>3. f # <<>> /\ out = Packets(t) /\ accepted = Heads(t) /\ CanClose(S, t)
  BY <1>1, <1>2 DEF Inside
<1>4. f \in Seq(Piece) /\ Len(f) = Len(stack) /\ stack \in Seq(Header) /\ stack # <<>>
  BY <1>1, <1>2 DEF Frames, IInv, TypeOK, HeadersReady
<1>5. t.before \in Seq(Header) /\ t.hs \in Seq(Header)
  BY <1>3, <1>4, PieceType
<1>6. t.hs # <<>> /\ t.hs[1] = Top
  <2>1. Len(f) \in 1 .. Len(f)
    BY <1>3, <1>4
  <2>. QED  BY <1>1, <1>4, <2>1 DEF Frames, Inner, Top
<1>7. IsOpen(S, t)
  BY <1>2, <1>3, <1>6 DEF CanClose
<1>8. h \in ProperHeader /\ arg = <<h>> /\ h \in Header
  <2>1. next = arg /\ Len(arg) = 1 /\ next \in Seq(ProperHeader)
    BY <1>2 DEF OrderInv, Handed, ProperType, IInv, HeadersReady
  <2>. QED  BY <2>1, OneElement, ProperIsHeader
<1>9. accepted # <<>> /\ accepted \in Seq(Header) /\ LastOf(t.hs) = Last
  <2>. DEFINE a == t.before
              b == t.hs
  <2>1. a \in Seq(Header) /\ b \in Seq(Header) /\ b # <<>> /\ accepted = a \o b
    BY <1>3, <1>5, <1>6 DEF Heads
  <2>. HIDE DEF a, b
  <2>2. /\ a \o b \in Seq(Header) /\ Len(a \o b) = Len(a) + Len(b)
        /\ Len(a) \in Nat /\ Len(b) \in Nat \ {0}
    BY <2>1
  <2>3. (a \o b)[Len(a \o b)] = b[Len(b)]
    BY <2>1, <2>2
  <2>4. a \o b # <<>>
    BY <2>2
  <2>. QED  BY <2>1, <2>2, <2>3, <2>4 DEF LastOf, Last, b
<1>10. p \in Seq(Strings) /\ q \in Seq(Strings) /\ Proper(q) /\ Last \in Seq(Strings) /\ Proper(Last)
  BY <1>4, <1>8, <1>9, TopOf, LastIs, ProperIsHeader DEF OrderInv
<1>11. TreeLeq(Last, q) /\ (q # Last => \E n \in Strings : q = Append(p, n))
  <2>1. /\ IsPrefixOf(p, Last)
        /\ \/ p = Last
           \/ /\ PathIsLexicographicallyOrdered(PathString(Last), PathString(q))
              /\ LeavesDirectory(Last, q)
    BY <1>2, <1>4 DEF OrderInv, Told
  <2>2. PathIsLexicographicallyOrdered(PathString(Last), PathString(q))
    BY <1>2, <2>1
  <2>. HIDE DEF p, q
  <2>. QED  BY <1>2, <1>10, <2>1, <2>2, EntryFollows
<1>12. q # Last
  BY <1>8, <1>9, RepeatsNot DEF Last
<1>13. PICK n \in Strings : q = Append(p, n)
  BY <1>11, <1>12
<1>14. EntryOf(t.hs, h)
  BY <1>6, <1>9, <1>11, <1>12, <1>13 DEF EntryOf
<1>15. NodeName(p, q) = q[Len(q)]
  <2>1. p # q
    <3>1. Len(q) = Len(p) + 1 /\ Len(p) \in Nat
      BY <1>10, <1>13
    <3>. QED  BY <3>1
  <2>. QED  BY <2>1 DEF NodeName
<1>16. out' = Packets(t) \o Intro(h)
  BY <1>2, <1>3, <1>15 DEF Intro
<1>. HIDE DEF t, h
<1>17. Inside(S, f, "emit", accepted, out', next)
  BY <1>3, <1>7, <1>14, <1>16 DEF Inside, t, h
<1>18. Frames(S, f, stack') /\ Inside(S, f, epc', accepted', out', next')
  BY <1>1, <1>2, <1>17
<1>. QED  BY <1>18 DEF Shape

LEMMA IntroType ==
  ASSUME NEW h \in Header, h.path # <<>>
  PROVE  Intro(h) \in Seq(Packet)
<1>1. h.path \in Seq(Strings)
  BY DEF Header
<1>2. h.path[Len(h.path)] \in Strings
  BY <1>1
<1>3. <<"entry", "(", "name", h.path[Len(h.path)], "node">> \in Seq(Strings)
  BY <1>2, Keywords
<1>. QED  BY <1>3, ToksType DEF Intro

\* The call around takes the node as an entry; without one, it is the root.
LEMMA ReturnShape ==
  ASSUME NEW S, Grammar(S), IInv, Shape(S, stack, epc, accepted, out, next), Return
  PROVE  /\ epc' \notin {"fail", "exited"} => Shape(S, stack', epc', accepted', out', next')
         /\ epc' = "exited" => <<"node", accepted', out'>> \in S
<1>. DEFINE end == Toks(<<")">>)
<1>1. PICK f : Frames(S, f, stack) /\ Inside(S, f, epc, accepted, out, next)
  BY DEF Shape
<1>2. /\ epc = "return" /\ accepted' = accepted
      /\ \/ stack # <<>> /\ out' = out \o end /\ epc' = "loop" /\ UNCHANGED <<stack, next>>
         \/ stack # <<>> /\ epc' = "fail"
         \/ stack = <<>> /\ epc' \in {"exited", "fail"} /\ UNCHANGED out
  BY DEF Return, Writing, Fail, caller
<1>3. f \in Seq(Piece) /\ Len(f) = Len(stack) /\ stack \in Seq(Header)
  BY <1>1 DEF Frames, IInv, TypeOK
<1>4. PICK es \in Seq(Header), e \in Seq(Packet) :
        /\ <<"node", es, e>> \in S /\ es # <<>>
        /\ f = <<>> => accepted = es /\ out = e
        /\ f # <<>> => /\ IsOpen(S, Inner(f)) /\ EntryOf(Inner(f).hs, es[1])
                       /\ accepted = Heads(Inner(f)) \o es
                       /\ out = Packets(Inner(f)) \o Intro(es[1]) \o e
  BY <1>1, <1>2 DEF Inside, Ended
<1>5. CASE stack = <<>>
  <2>1. f = <<>>
    BY <1>3, <1>5
  <2>. QED  BY <1>2, <1>4, <1>5, <2>1
<1>6. CASE stack # <<>> /\ out' = out \o end /\ epc' = "loop" /\ UNCHANGED <<stack, next>>
  <2>. DEFINE t == Inner(f)
              i == Intro(es[1])
              hs == t.hs \o es
              o == t.o \o i \o e \o end
              u == [before |-> t.before, ahead |-> t.ahead, hs |-> hs, o |-> o]
              g == [f EXCEPT ![Len(f)] = u]
  <2>1. f # <<>>
    BY <1>3, <1>6
  <2>2. /\ t.before \in Seq(Header) /\ t.ahead \in Seq(Packet)
        /\ t.hs \in Seq(Header) /\ t.o \in Seq(Packet)
    BY <1>3, <2>1, PieceType
  <2>3. t.hs # <<>>
    <3>1. Len(f) \in 1 .. Len(f)
      BY <1>3, <2>1
    <3>. QED  BY <1>1, <3>1 DEF Frames, Inner
  <2>4. /\ IsOpen(S, t) /\ EntryOf(t.hs, es[1])
        /\ accepted = (t.before \o t.hs) \o es
        /\ out = (t.ahead \o t.o) \o i \o e
    BY <1>4, <2>1 DEF Heads, Packets
  <2>5. i \in Seq(Packet)
    <3>1. es[1] \in Header
      BY <1>4
    <3>2. es[1].path # <<>>
      <4>1. t.hs[1] \in Header
        BY <2>2, <2>3
      <4>2. t.hs[1].path \in Seq(Strings)
        BY <4>1 DEF Header
      <4>3. PICK n \in Strings : es[1].path = Append(t.hs[1].path, n)
        BY <2>4 DEF EntryOf
      <4>. QED  BY <4>2, <4>3, AppendProperties
    <3>. QED  BY <3>1, <3>2, IntroType
  <2>6. end \in Seq(Packet)
    BY EndType
  <2>. HIDE DEF end, i, t
  <2>7. hs \in Seq(Header) /\ hs # <<>> /\ hs[1] = t.hs[1] /\ accepted = t.before \o hs
    <3>1. hs \in Seq(Header) /\ Len(hs) = Len(t.hs) + Len(es)
      BY <1>4, <2>2, ConcatProperties
    <3>2. Len(t.hs) \in Nat \ {0} /\ Len(es) \in Nat
      BY <1>4, <2>2, <2>3
    <3>3. hs[1] = t.hs[1]
      BY <2>2, <3>2
    <3>4. hs # <<>>
      BY <3>1, <3>2
    <3>5. accepted = t.before \o hs
      <4>. DEFINE a == t.before
                  b == t.hs
      <4>1. a \in Seq(Header) /\ b \in Seq(Header)
        BY <2>2
      <4>. HIDE DEF a, b
      <4>2. (a \o b) \o es = a \o (b \o es)
        BY <1>4, <4>1, ConcatAssociative
      <4>. QED  BY <2>4, <4>2 DEF a, b
    <3>. QED  BY <3>1, <3>3, <3>4, <3>5
  <2>8. o \in Seq(Packet) /\ out' = t.ahead \o o
    <3>1. o \in Seq(Packet)
      <4>. DEFINE oi == t.o \o i
                  oie == oi \o e
      <4>1. oi \in Seq(Packet)
        BY <2>2, <2>5, ConcatProperties
      <4>. HIDE DEF oi
      <4>2. oie \in Seq(Packet)
        BY <4>1, ConcatProperties
      <4>. HIDE DEF oie
      <4>3. oie \o end \in Seq(Packet)
        BY <2>6, <4>2, ConcatProperties
      <4>. QED  BY <4>3 DEF oi, oie
    <3>2. ((((t.ahead \o t.o) \o i) \o e) \o end) = t.ahead \o o
      <4>. DEFINE a == t.ahead
                  b == t.o
      <4>1. /\ a \in Seq(Packet) /\ b \in Seq(Packet) /\ i \in Seq(Packet)
            /\ e \in Seq(Packet) /\ end \in Seq(Packet)
        BY <2>2, <2>5, <2>6
      <4>. DEFINE bi == b \o i
                  bie == bi \o e
      <4>. HIDE DEF a, b, o
      <4>2. bi \in Seq(Packet) /\ (a \o b) \o i = a \o bi
        BY <4>1, ConcatProperties, ConcatAssociative
      <4>. HIDE DEF bi
      <4>3. bie \in Seq(Packet) /\ (a \o bi) \o e = a \o bie
        BY <4>1, <4>2, ConcatProperties, ConcatAssociative
      <4>. HIDE DEF bie
      <4>4. (a \o bie) \o end = a \o (bie \o end)
        BY <4>1, <4>3, ConcatAssociative
      <4>5. ((((a \o b) \o i) \o e) \o end) = a \o (bie \o end)
        BY <4>2, <4>3, <4>4
      <4>. QED  BY <4>5 DEF a, b, o, bi, bie
    <3>. QED  BY <1>6, <2>4, <3>1, <3>2
  <2>9. <<"open", hs, o>> \in S
    <3>1. <<"open", t.hs, t.o>> \in S
      BY <2>4 DEF IsOpen
    <3>2. <<"open", t.hs \o es, t.o \o Intro(es[1]) \o e \o Toks(<<")">>)>> \in S
      BY <1>4, <2>2, <2>4, <3>1 DEF Grammar
    <3>. QED  BY <3>2 DEF i, end
  <2>10. <<"node", hs, o \o end>> \in S
    <3>. HIDE DEF hs, o
    <3>1. hs \in Seq(Header) /\ o \in Seq(Packet) /\ <<"open", hs, o>> \in S
      BY <2>7, <2>8, <2>9
    <3>. QED  BY <3>1 DEF Grammar, end
  <2>. HIDE DEF hs, o
  <2>11. u \in Piece /\ u.before = t.before /\ u.ahead = t.ahead /\ u.hs = hs /\ u.o = o
    BY <2>2, <2>7, <2>8 DEF Piece
  <2>. HIDE DEF u
  <2>12. CanClose(S, u)
    BY <2>9, <2>10, <2>11 DEF CanClose, IsOpen, end
  <2>13. Frames(S, g, stack) /\ g # <<>> /\ Inner(g) = u
    <3>1. u.hs # <<>> /\ u.hs[1] = Inner(f).hs[1]
      BY <2>7, <2>11 DEF t
    <3>2. u.before = Inner(f).before /\ u.ahead = Inner(f).ahead
      BY <2>11 DEF t
    <3>. QED  BY <1>1, <1>3, <2>1, <2>11, <3>1, <3>2, SetPiece
  <2>14. accepted = Heads(u) /\ out' = Packets(u)
    BY <2>7, <2>8, <2>11 DEF Heads, Packets
  <2>. HIDE DEF g
  <2>15. Inside(S, g, "loop", accepted, out', next)
    BY <2>12, <2>13, <2>14 DEF Inside
  <2>16. Frames(S, g, stack') /\ Inside(S, g, epc', accepted', out', next')
    BY <1>2, <1>6, <2>13, <2>15
  <2>17. Shape(S, stack', epc', accepted', out', next')
    BY <2>16 DEF Shape
  <2>. QED  BY <1>6, <2>17
<1>. QED  BY <1>2, <1>5, <1>6
\* What the steps of the emitter say for every grammar is kept by all steps.
LEMMA StepBuilt == ASSUME IInv, OrderInv, Built, CleanStep PROVE Built'
<1>. SUFFICES ASSUME ~ Repeats(Listed'), NEW S, Grammar(S)
              PROVE  /\ epc' \notin {"fail", "exited"} =>
                          Shape(S, stack', epc', accepted', out', next')
                     /\ epc' = "exited" /\ ~ refused' => <<"node", accepted', out'>> \in S
  BY DEF Built
<1>1. ASSUME ~ Repeats(Listed), epc \notin {"fail", "exited"}
      PROVE  Shape(S, stack, epc, accepted, out, next)
  BY <1>1 DEF Built
<1>2. ASSUME ~ Repeats(Listed), epc = "exited", ~ refused
      PROVE  <<"node", accepted, out>> \in S
  BY <1>2 DEF Built
<1>3. accepted \in Seq(Header) /\ arg \in Seq(Header)
  BY DEF IInv, TypeOK
<1>4. CASE First
  <2>1. epc = "first" /\ accepted = <<>> /\ epc' \in {"emit", "fail"}
    BY <1>4 DEF First, OrderInv, Told
  <2>2. ~ Repeats(<<>>)
    BY DEF Repeats
  <2>3. Shape(S, stack, epc, accepted, out, next)
    BY <1>1, <2>1, <2>2 DEF Listed
  <2>. QED  BY <1>4, <2>1, <2>3, FirstShape
<1>5. CASE EmitNode
  <2>1. epc = "emit" /\ epc' \in {"done", "fail"} /\ UNCHANGED <<accepted, arg>>
    BY <1>5 DEF EmitNode, Fail, caller
  <2>2. epc' = "done" => Listed' = Listed
    BY <2>1 DEF Listed
  <2>3. epc' = "done" => Shape(S, stack, epc, accepted, out, next)
    BY <1>1, <2>1, <2>2
  <2>. QED  BY <1>5, <2>1, <2>3, EmitNodeShape
<1>6. CASE HeaderDone
  <2>1. epc = "done" /\ epc' = "await" /\ accepted' = Append(accepted, arg[1])
        /\ Len(arg) = 1
    BY <1>6 DEF HeaderDone, IInv, HeadersReady
  <2>2. arg[1] \in Header /\ arg = <<arg[1]>>
    BY <1>3, <2>1, OneElement
  <2>3. \A h \in Header : Append(accepted, h) = accepted \o <<h>>
    BY <1>3
  <2>4. accepted' = accepted \o arg
    BY <2>1, <2>2, <2>3
  <2>5. Listed' = Listed
    BY <2>1, <2>4 DEF Listed
  <2>. QED  BY <1>1, <1>6, <2>1, <2>5, HeaderDoneShape
<1>7. CASE Receive
  <2>1. epc = "await" /\ epc' \in {"loop", "fail"} /\ UNCHANGED accepted
    BY <1>7 DEF Receive
  <2>2. Listed' = Listed
    BY <2>1 DEF Listed
  <2>. QED  BY <1>1, <1>7, <2>1, <2>2, ReceiveShape
<1>8. CASE Leave
  <2>1. epc = "loop" /\ epc' \in {"return", "fail"} /\ UNCHANGED accepted
    BY <1>8 DEF Leave, Writing, Fail, caller
  <2>2. Listed' = Listed
    BY <2>1 DEF Listed
  <2>. QED  BY <1>1, <1>8, <2>1, <2>2, LeaveShape
<1>9. CASE Reject
  BY <1>9 DEF Reject, Fail
<1>10. CASE Enter
  <2>1. /\ epc = "loop" /\ epc' \in {"emit", "fail"} /\ UNCHANGED <<accepted, arg>>
        /\ next # Nil
    BY <1>10 DEF Enter, Writing, Fail, caller
  <2>2. ASSUME epc' = "emit"
        PROVE  ~ Repeats(accepted \o arg) /\ ~ Repeats(accepted)
    <3>1. ~ Repeats(accepted \o arg)
      BY <2>1, <2>2 DEF Listed
    <3>2. Len(arg) = 1
      BY <2>1 DEF OrderInv, Handed, IInv, HeadersReady
    <3>3. arg[1] \in Header /\ arg = <<arg[1]>>
      BY <1>3, <3>2, OneElement
    <3>4. ~ Repeats(accepted \o <<arg[1]>>)
      BY <3>1, <3>3
    <3>. QED  BY <1>3, <3>1, <3>3, <3>4, RepeatsNot
  <2>3. ASSUME epc' = "emit" PROVE Shape(S, stack, epc, accepted, out, next)
    BY <1>1, <2>1, <2>2, <2>3 DEF Listed
  <2>. QED  BY <1>10, <2>1, <2>2, <2>3, EnterShape
<1>11. CASE Return
  <2>1. epc = "return" /\ epc' \in {"loop", "exited", "fail"} /\ UNCHANGED accepted
    BY <1>11 DEF Return, Writing, Fail, caller
  <2>2. Listed' = Listed
    BY <2>1 DEF Listed
  <2>. QED  BY <1>1, <1>11, <2>1, <2>2, ReturnShape
<1>12. CASE TakeError
  BY <1>12 DEF TakeError
<1>13. CASE \/ \E h \in ProperHeader : WriteHeader(h)
            \/ Writes \/ Close \/ CloseReturns \/ UNCHANGED vars
  <2>1. UNCHANGED <<out, stack, epc, next, accepted, refused>>
    BY <1>13 DEF WriteHeader, Writes, Close, CloseReturns, vars, emitter, caller
  <2>2. arg' = arg \/ cpc = "idle"
    BY <1>13 DEF WriteHeader, Writes, Close, CloseReturns, vars, emitter, caller
  <2>3. Listed' = Listed
    BY <2>1, <2>2 DEF Listed, OrderInv, Handed
  <2>. QED  BY <1>1, <1>2, <2>1, <2>3
<1>. QED
  BY <1>4, <1>5, <1>6, <1>7, <1>8, <1>9, <1>10, <1>11, <1>12, <1>13 DEF CleanStep, Library

LEMMA InitBuilt == Init => Built
<1>. SUFFICES ASSUME Init, NEW S PROVE Shape(S, stack, epc, accepted, out, next)
  BY DEF Init, Built
<1>1. /\ epc = "first" /\ stack = <<>> /\ accepted = <<>> /\ out = <<>>
  BY DEF Init
<1>2. <<>> \in Seq(Piece) /\ Len(<<>>) = 0
  OBVIOUS
<1>3. Frames(S, <<>>, stack)
  BY <1>1, <1>2 DEF Frames
<1>4. Inside(S, <<>>, epc, accepted, out, next)
  BY <1>1 DEF Inside
<1>. QED  BY <1>3, <1>4 DEF Shape

ArchiveInv == IInv /\ OrderInv /\ Built

LEMMA ArchiveStep == ASSUME ArchiveInv, CleanStep PROVE ArchiveInv'
<1>1. WriterStep
  BY ProperIsHeader DEF CleanStep, WriterStep
<1>. QED  BY <1>1, StepInv, StepOrder, StepBuilt DEF ArchiveInv

LEMMA ArchiveInit == Init => ArchiveInv
BY InitInv, InitOrder, InitBuilt DEF ArchiveInv

\* What is left when the emitter has ended without an error.
LEMMA ExitedIsArchive ==
  ASSUME ArchiveInv, epc = "exited", ~ refused, ~ Repeats(accepted)
  PROVE  IsArchive(accepted, out)
BY DEF ArchiveInv, Built, Listed, IsArchive
-----------------------------------------------------------------------------
(* The Writer, for callers whose paths are clean: absolute, with names     *)
(* that are not empty and have no slash.                                   *)

CleanPaths == \A h \in Headers : Proper(h.path)

LEMMA NextIsClean == ASSUME CleanPaths, TypeOK, [Next]_vars PROVE CleanStep
<1>1. ASSUME Write PROVE Writes
  <2>1. body \in [total : Nat, written : Nat]
    BY DEF TypeOK
  <2>2. body' \in [total : Nat, written : Nat]
    BY <1>1, <2>1 DEF Write
  <2>. QED  BY <1>1, <2>2 DEF Write, Writes
<1>2. Headers \subseteq ProperHeader
  BY NarWriterAssumption DEF CleanPaths, ProperHeader
<1>. QED  BY <1>1, <1>2 DEF Next, CleanStep

\* The invariant of the Writer, for callers that pass clean paths.
THEOREM ArchiveInvariance == ASSUME CleanPaths PROVE Spec => []ArchiveInv
<1>1. ArchiveInv /\ [Next]_vars => ArchiveInv'
  <2>1. ArchiveInv => TypeOK
    BY DEF ArchiveInv, IInv
  <2>. QED  BY <2>1, NextIsClean, ArchiveStep
<1>. QED  BY ArchiveInit, <1>1, PTL DEF Spec

\* WriteHeader accepts headers in the order of the tree only: the entries of
\* a directory sorted by name, and everything below an entry behind it.
THEOREM HeadersAcceptedInOrder == ASSUME CleanPaths PROVE Spec => []AcceptedInOrder
<1>1. ArchiveInv => AcceptedInOrder
  BY DEF ArchiveInv, OrderInv
<1>. QED  BY ArchiveInvariance, <1>1, PTL

\* A Writer that was closed and never gave the caller an error has written
\* exactly one archive, that of the headers which WriteHeader has accepted,
\* whatever the caller passed to it and whichever writes were delayed.
CleanCloseLeavesArchive ==
  closed /\ cpc = "idle" /\ ~ refused /\ ~ Repeats(accepted) =>
    IsArchive(accepted, out) /\ accepted # <<>> /\ accepted[1].path = <<>>

\* A Close without an error leaves an archive.
THEOREM CleanCloses == ASSUME CleanPaths PROVE Spec => []CleanCloseLeavesArchive
<1>1. ArchiveInv => CleanCloseLeavesArchive
  <2>. SUFFICES ASSUME ArchiveInv, closed, cpc = "idle", ~ refused, ~ Repeats(accepted)
                PROVE  IsArchive(accepted, out) /\ accepted # <<>> /\ accepted[1].path = <<>>
    BY DEF CleanCloseLeavesArchive
  <2>1. epc = "exited"
    BY DEF ArchiveInv, OrderInv, Handed
  <2>2. IsArchive(accepted, out)
    BY <2>1, ExitedIsArchive
  <2>3. accepted # <<>> /\ accepted[1].path = <<>>
    BY <2>1 DEF ArchiveInv, OrderInv, Told
  <2>. QED  BY <2>2, <2>3
<1>. QED  BY ArchiveInvariance, <1>1, PTL
-----------------------------------------------------------------------------
(* From the Writer to the Reader: what ArchivesAreRead of NarReaderProofs  *)
(* asks of an archive is what a Writer leaves.                             *)

ReadablePaths == \A h \in Headers : \A i \in 1 .. Len(h.path) : ReadableName(h.path[i])

ReadableHeaders == {h \in Headers : ReadableHeader(h)}

HeadersAreReadable == arg \in Seq(ReadableHeaders) /\ accepted \in Seq(ReadableHeaders)

LEMMA ReadableIsClean == ASSUME ReadablePaths PROVE CleanPaths
BY DEF ReadablePaths, CleanPaths, Proper, SlashFree, ReadableName, IsValidNodeName

LEMMA ReadableStep ==
  ASSUME ReadablePaths, IInv, HeadersAreReadable, [Next]_vars
  PROVE  HeadersAreReadable'
<1>1. CASE HeaderDone
  <2>1. arg # <<>>
    BY <1>1 DEF HeaderDone, IInv, HeadersReady
  <2>2. arg[1] \in ReadableHeaders
    BY <2>1 DEF HeadersAreReadable
  <2>. QED  BY <1>1, <2>2 DEF HeaderDone, HeadersAreReadable
<1>2. ASSUME NEW h \in Headers, WriteHeader(h) PROVE HeadersAreReadable'
  <2>1. CASE Validate(h) /\ arg' = <<h>> /\ accepted' = accepted
    <3>1. h \in ReadableHeaders
      BY <2>1 DEF ReadableHeaders, ReadablePaths, ReadableHeader, Validate
    <3>. QED  BY <2>1, <3>1 DEF HeadersAreReadable
  <2>2. CASE arg' = arg /\ accepted' = accepted
    BY <2>2 DEF HeadersAreReadable
  <2>. QED  BY <1>2, <2>1, <2>2 DEF WriteHeader
<1>3. CASE UNCHANGED <<arg, accepted>>
  BY <1>3 DEF HeadersAreReadable
<1>. QED  BY <1>1, <1>2, <1>3 DEF Next, Library, First, EmitNode, Receive, Leave, Reject, Enter,
             Return, TakeError, CloseReturns, Write, Close, vars, caller

\* A Writer whose caller uses no names but those that the Reader takes as they
\* are has, once it is closed and if it has reported no error, written the
\* archive of the headers it accepted.  A Reader opened on it returns them,
\* all and in this order.
CleanCloseIsReadable ==
  closed /\ cpc = "idle" /\ ~ refused /\ ~ Repeats(accepted) => ArchiveOf(accepted, out)

\* A Close without an error leaves an archive that a Reader lists as it is.
THEOREM WrittenIsReadable ==
  ASSUME ReadablePaths
  PROVE  Spec => []CleanCloseIsReadable
<1>1. CleanPaths
  BY ReadableIsClean
<1>2. Init => HeadersAreReadable
  BY DEF Init, Nil, HeadersAreReadable
<1>3. IInv /\ HeadersAreReadable /\ [Next]_vars => HeadersAreReadable'
  BY ReadableStep
<1>4. CleanCloseLeavesArchive /\ HeadersAreReadable => CleanCloseIsReadable
  BY DEF CleanCloseLeavesArchive, CleanCloseIsReadable, HeadersAreReadable, ReadableHeaders,
         ArchiveOf, Readable
<1>. QED  BY <1>1, <1>2, <1>3, <1>4, CleanCloses, Invariance, PTL DEF Spec

-----------------------------------------------------------------------------
(* What holds of every archive: rule induction, with the set of the nodes  *)
(* that have the property for S.                                           *)

ParentsFirst(hs) ==
  \A j \in 2 .. Len(hs) : \E i \in 1 .. j - 1 : \E n \in Strings :
    hs[i].type = "directory" /\ hs[j].path = Append(hs[i].path, n)

WholeNodes ==
  {x \in {"node", "open"} \X Seq(Header) \X Seq(Packet) :
     /\ x[2] # <<>> /\ ParentsFirst(x[2]) /\ AllFull(x[3])
     /\ x[1] = "open" => x[2][1].type = "directory"}

LEMMA WholeNode ==
  ASSUME NEW k \in {"node", "open"}, NEW hs \in Seq(Header), NEW o \in Seq(Packet)
  PROVE  <<k, hs, o>> \in WholeNodes <=>
           /\ hs # <<>> /\ ParentsFirst(hs) /\ AllFull(o)
           /\ k = "open" => hs[1].type = "directory"
BY DEF WholeNodes

LEMMA SingleParents ==
  ASSUME NEW h \in Header
  PROVE  <<h>> \in Seq(Header) /\ <<h>> # <<>> /\ ParentsFirst(<<h>>) /\ <<h>>[1] = h
<1>1. <<h>> \in Seq(Header) /\ <<h>> # <<>> /\ <<h>>[1] = h /\ 2 .. Len(<<h>>) = {}
  OBVIOUS
<1>. QED  BY <1>1 DEF ParentsFirst

LEMMA EntryParents ==
  ASSUME NEW hs \in Seq(Header), hs # <<>>, ParentsFirst(hs), hs[1].type = "directory",
         NEW es \in Seq(Header), es # <<>>, ParentsFirst(es), EntryOf(hs, es[1])
  PROVE  /\ hs \o es \in Seq(Header) /\ hs \o es # <<>> /\ (hs \o es)[1] = hs[1]
         /\ ParentsFirst(hs \o es)
<1>. DEFINE g == hs \o es
            n == Len(hs)
<1>1. /\ g \in Seq(Header) /\ Len(g) = n + Len(es) /\ n \in Nat \ {0} /\ Len(es) \in Nat \ {0}
      /\ \A i \in 1 .. n : g[i] = hs[i]
      /\ \A i \in 1 .. Len(es) : g[n + i] = es[i]
  <2>1. g \in Seq(Header) /\ Len(g) = n + Len(es)
    OBVIOUS
  <2>2. n \in Nat \ {0} /\ Len(es) \in Nat \ {0}
    OBVIOUS
  <2>3. \A i \in 1 .. n : g[i] = hs[i]
    OBVIOUS
  <2>4. \A i \in 1 .. Len(es) : g[n + i] = es[i]
    BY <2>2
  <2>. QED  BY <2>1, <2>2, <2>3, <2>4
<1>. HIDE DEF g
<1>2. g[1] = hs[1] /\ g # <<>>
  <2>1. 1 \in 1 .. n
    BY <1>1
  <2>. QED  BY <1>1, <2>1
<1>3. ASSUME NEW j \in 2 .. Len(g)
      PROVE  \E i \in 1 .. j - 1 : \E s \in Strings :
               g[i].type = "directory" /\ g[j].path = Append(g[i].path, s)
  <2>1. CASE j <= n
    <3>1. j \in 2 .. n /\ j \in 1 .. n
      BY <1>1, <2>1
    <3>2. PICK i \in 1 .. j - 1, s \in Strings :
            hs[i].type = "directory" /\ hs[j].path = Append(hs[i].path, s)
      BY <3>1 DEF ParentsFirst
    <3>3. i \in 1 .. n
      BY <1>1, <2>1
    <3>. QED  BY <1>1, <3>1, <3>2, <3>3
  <2>2. CASE j = n + 1
    <3>1. g[j] = es[1] /\ 1 \in 1 .. j - 1
      BY <1>1, <2>2
    <3>. QED  BY <1>2, <3>1 DEF EntryOf
  <2>3. CASE j > n + 1
    <3>1. j - n \in 2 .. Len(es) /\ j - n \in 1 .. Len(es) /\ n + (j - n) = j
      BY <1>1, <2>3
    <3>2. PICK i \in 1 .. (j - n) - 1, s \in Strings :
            es[i].type = "directory" /\ es[j - n].path = Append(es[i].path, s)
      BY <3>1 DEF ParentsFirst
    <3>3. i \in 1 .. Len(es) /\ n + i \in 1 .. j - 1
      BY <1>1, <3>1
    <3>4. g[n + i] = es[i] /\ g[n + (j - n)] = es[j - n]
      BY <1>1, <3>1, <3>3
    <3>. QED  BY <3>1, <3>2, <3>3, <3>4
  <2>. QED  BY <1>1, <2>1, <2>2, <2>3
<1>. QED  BY <1>1, <1>2, <1>3 DEF ParentsFirst, g

LEMMA LeafType ==
  ASSUME NEW h \in Header
  PROVE  LeafPackets(h) \in Seq(Packet) /\ AllFull(LeafPackets(h))
<1>. DEFINE start == Toks(<<"(", "type", h.type>>)
            exec == IF h.exec THEN <<Tok("executable"), Empty>> ELSE <<>>
            blob == <<Tok("contents"), Blob(h.size)>>
            link == Toks(<<"target", "to">>)
            mid == IF h.type = "regular" THEN exec \o blob ELSE link
            end == Toks(<<")">>)
<1>1. h.type \in Strings /\ h.size \in Nat
  BY Keywords DEF Header
<1>2. /\ start \in Seq(Packet) /\ AllFull(start) /\ link \in Seq(Packet) /\ AllFull(link)
      /\ end \in Seq(Packet) /\ AllFull(end)
  <2>1. /\ <<"(", "type", h.type>> \in Seq(Strings) /\ <<"target", "to">> \in Seq(Strings)
        /\ <<")">> \in Seq(Strings)
    BY <1>1, Keywords
  <2>. QED  BY <2>1, ToksType
<1>3. exec \in Seq(Packet) /\ AllFull(exec)
  <2>1. exec \in Seq(Packet)
    BY ExecType
  <2>2. Tok("executable").have = "full" /\ Empty.have = "full"
    BY DEF Tok, Empty
  <2>3. CASE h.exec
    <3>1. exec = <<Tok("executable"), Empty>>
      BY <2>3
    <3>. QED  BY <2>1, <2>2, <3>1 DEF AllFull
  <2>4. CASE ~ h.exec
    <3>1. exec = <<>>
      BY <2>4
    <3>. QED  BY <2>1, <3>1 DEF AllFull
  <2>. QED  BY <2>3, <2>4
<1>4. blob \in Seq(Packet) /\ AllFull(blob)
  BY <1>1, Keywords DEF Tok, Blob, Packet, AllFull
<1>5. LeafPackets(h) = start \o mid \o end
  BY DEF LeafPackets
<1>. HIDE DEF start, exec, blob, link, end
<1>6. mid \in Seq(Packet) /\ AllFull(mid)
  <2>1. exec \o blob \in Seq(Packet) /\ AllFull(exec \o blob)
    BY <1>3, <1>4, AppendFull
  <2>. QED  BY <1>2, <2>1
<1>. DEFINE first == start \o mid
<1>. HIDE DEF mid
<1>7. first \in Seq(Packet) /\ AllFull(first)
  BY <1>2, <1>6, AppendFull
<1>. HIDE DEF first
<1>8. first \o end \in Seq(Packet) /\ AllFull(first \o end)
  BY <1>2, <1>7, AppendFull
<1>. QED  BY <1>5, <1>8 DEF first

LEMMA WholeGrammar == Grammar(WholeNodes)
<1>. DEFINE end == Toks(<<")">>)
<1>1. end \in Seq(Packet) /\ AllFull(end)
  <2>1. <<")">> \in Seq(Strings)
    BY Keywords
  <2>. QED  BY <2>1, ToksType
<1>2. ASSUME NEW h \in Header, h.type # "directory"
      PROVE  <<"node", <<h>>, LeafPackets(h)>> \in WholeNodes
  BY SingleParents, LeafType, WholeNode
<1>3. ASSUME NEW h \in Header, h.type = "directory"
      PROVE  <<"open", <<h>>, Toks(<<"(", "type", "directory">>)>> \in WholeNodes
  <2>1. <<"(", "type", "directory">> \in Seq(Strings)
    BY <1>3, Keywords DEF Types
  <2>2. Toks(<<"(", "type", "directory">>) \in Seq(Packet)
        /\ AllFull(Toks(<<"(", "type", "directory">>))
    BY <2>1, ToksType
  <2>3. <<h>> \in Seq(Header) /\ <<h>> # <<>> /\ ParentsFirst(<<h>>) /\ <<h>>[1] = h
    BY SingleParents
  <2>. QED  BY <1>3, <2>2, <2>3, WholeNode
<1>4. ASSUME NEW hs \in Seq(Header), NEW es \in Seq(Header),
             NEW o \in Seq(Packet), NEW e \in Seq(Packet),
             <<"open", hs, o>> \in WholeNodes, <<"node", es, e>> \in WholeNodes,
             EntryOf(hs, es[1])
      PROVE  <<"open", hs \o es, o \o Intro(es[1]) \o e \o Toks(<<")">>)>> \in WholeNodes
  <2>1. /\ hs # <<>> /\ ParentsFirst(hs) /\ AllFull(o) /\ hs[1].type = "directory"
        /\ es # <<>> /\ ParentsFirst(es) /\ AllFull(e)
    BY <1>4, WholeNode
  <2>2. /\ hs \o es \in Seq(Header) /\ hs \o es # <<>> /\ (hs \o es)[1] = hs[1]
        /\ ParentsFirst(hs \o es)
    BY <1>4, <2>1, EntryParents
  <2>. DEFINE i == Intro(es[1])
  <2>3. i \in Seq(Packet) /\ AllFull(i)
    <3>1. es[1] \in Header /\ hs[1] \in Header
      BY <2>1
    <3>2. es[1].path \in Seq(Strings) /\ hs[1].path \in Seq(Strings)
      BY <3>1 DEF Header
    <3>3. PICK n \in Strings : es[1].path = Append(hs[1].path, n)
      BY <1>4 DEF EntryOf
    <3>4. es[1].path[Len(es[1].path)] \in Strings
      BY <3>2, <3>3
    <3>5. <<"entry", "(", "name", es[1].path[Len(es[1].path)], "node">> \in Seq(Strings)
      BY <3>4, Keywords
    <3>. QED  BY <3>5, ToksType DEF Intro
  <2>. DEFINE oi == o \o i
              oie == oi \o e
  <2>. HIDE DEF i, end
  <2>4. oi \in Seq(Packet) /\ AllFull(oi)
    BY <2>1, <2>3, AppendFull
  <2>. HIDE DEF oi
  <2>5. oie \in Seq(Packet) /\ AllFull(oie)
    BY <2>1, <2>4, AppendFull
  <2>. HIDE DEF oie
  <2>6. oie \o end \in Seq(Packet) /\ AllFull(oie \o end)
    BY <1>1, <2>5, AppendFull
  <2>7. <<"open", hs \o es, oie \o end>> \in WholeNodes
    BY <2>1, <2>2, <2>6, WholeNode
  <2>. QED  BY <2>7 DEF oi, oie, i, end
<1>5. ASSUME NEW hs \in Seq(Header), NEW o \in Seq(Packet), <<"open", hs, o>> \in WholeNodes
      PROVE  <<"node", hs, o \o Toks(<<")">>)>> \in WholeNodes
  <2>1. hs # <<>> /\ ParentsFirst(hs) /\ AllFull(o)
    BY <1>5, WholeNode
  <2>. HIDE DEF end
  <2>2. o \o end \in Seq(Packet) /\ AllFull(o \o end)
    BY <1>1, <2>1, AppendFull
  <2>3. <<"node", hs, o \o end>> \in WholeNodes
    BY <2>1, <2>2, WholeNode
  <2>. QED  BY <2>3 DEF end
<1>6. \A k, hs, o : <<k, hs, o>> \in WholeNodes => hs \in Seq(Header) /\ o \in Seq(Packet)
  BY DEF WholeNodes
<1>. QED  BY <1>2, <1>3, <1>4, <1>5, <1>6 DEF Grammar

\* In every archive the content of each file is complete, and each header but
\* the first is an entry of a directory that comes before it.
THEOREM ArchivesAreWhole ==
  ASSUME NEW hs, NEW o, IsArchive(hs, o)
  PROVE  /\ hs \in Seq(Header) /\ o \in Seq(Packet)
         /\ hs # <<>> /\ ParentsFirst(hs) /\ AllFull(o)
<1>1. <<"node", hs, o>> \in WholeNodes
  BY WholeGrammar DEF IsArchive
<1>2. hs \in Seq(Header) /\ o \in Seq(Packet)
  BY <1>1 DEF WholeNodes
<1>. QED  BY <1>1, <1>2, WholeNode
-----------------------------------------------------------------------------
(* What WriteHeader refuses.  A header is passed up from one active call   *)
(* of emitNode to the next; Place says that it never passes by the one     *)
(* whose directory it belongs to.                                          *)

PlainHeader == {h \in ProperHeader : Plain(h.path)}

\* h is the last of the headers hs that has its path.
Latest(hs, h) ==
  \E m \in DOMAIN hs : hs[m] = h /\ \A j \in m + 1 .. Len(hs) : hs[j].path # h.path

Depth(i) == Len(stack[i].path)

Calls ==
  ~ Repeats(Listed) =>
    /\ \A i \in 1 .. Len(stack) : (epc = "done" => i < Len(stack)) => Latest(accepted, stack[i])
    /\ epc = "emit" => \A i \in 1 .. Len(stack) : Depth(i) < Len(next[1].path)
    /\ epc = "done" => \A i \in 1 .. Len(stack) - 1 : Depth(i) < Len(Top.path)

Nested ==
  /\ stack # <<>> => stack[1].path = <<>>
  /\ \A i, j \in 1 .. Len(stack) : i <= j => Depth(i) <= Depth(j)
  /\ \A i \in 1 .. Len(stack) - 1 : Depth(i + 1) <= Depth(i) + 1
  /\ epc = "emit" /\ stack = <<>> => next[1].path = <<>>
  /\ epc = "emit" /\ stack # <<>> => Len(next[1].path) <= Len(Top.path) + 1

\* The header that is passed up is not below the entry it was passed up from.
PassedUp ==
  epc \in {"loop", "return"} /\ next # Nil =>
    /\ stack # <<>>
    /\ \/ Top.path = Last
       \/ ~ IsPrefixOf(SubSeq(Last, 1, Len(Top.path) + 1), next[1].path)

Running == epc \notin {"fail", "exited"}

Place == Running => Calls /\ Nested /\ PassedUp

LEMMA LatestAppend ==
  ASSUME NEW hs \in Seq(Header), NEW h \in Header
  PROVE  /\ Latest(Append(hs, h), h)
         /\ \A g : Latest(hs, g) /\ h.path # g.path => Latest(Append(hs, h), g)
<1>. DEFINE s == Append(hs, h)
            n == Len(hs)
<1>1. /\ n \in Nat /\ Len(s) = n + 1 /\ DOMAIN s = 1 .. n + 1 /\ DOMAIN hs = 1 .. n
      /\ s[n + 1] = h /\ \A i \in 1 .. n : s[i] = hs[i]
  OBVIOUS
<1>. HIDE DEF s, n
<1>2. Latest(s, h)
  <2>1. n + 1 \in DOMAIN s /\ (n + 1) + 1 .. Len(s) = {}
    BY <1>1
  <2>. QED  BY <1>1, <2>1 DEF Latest
<1>3. ASSUME NEW g, Latest(hs, g), h.path # g.path PROVE Latest(s, g)
  <2>1. PICK m \in 1 .. n : hs[m] = g /\ \A j \in m + 1 .. n : hs[j].path # g.path
    BY <1>1, <1>3 DEF Latest, n
  <2>2. m \in DOMAIN s /\ s[m] = g
    BY <1>1, <2>1
  <2>3. ASSUME NEW j \in m + 1 .. Len(s) PROVE s[j].path # g.path
    <3>1. j = n + 1 \/ (j \in m + 1 .. n /\ j \in 1 .. n)
      BY <1>1
    <3>. QED  BY <1>1, <1>3, <2>1, <3>1
  <2>. QED  BY <2>2, <2>3 DEF Latest
<1>. QED  BY <1>2, <1>3 DEF s

LEMMA LatestIsOne ==
  ASSUME NEW hs \in Seq(Header), NEW g, NEW h, Latest(hs, g), Latest(hs, h), g.path = h.path
  PROVE  g = h
<1>. DEFINE n == Len(hs)
<1>1. n \in Nat /\ DOMAIN hs = 1 .. n
  OBVIOUS
<1>2. PICK m \in 1 .. n : hs[m] = g /\ \A j \in m + 1 .. n : hs[j].path # g.path
  BY <1>1 DEF Latest
<1>3. PICK k \in 1 .. n : hs[k] = h /\ \A j \in k + 1 .. n : hs[j].path # h.path
  BY <1>1 DEF Latest
<1>4. ~ (m < k) /\ ~ (k < m)
  BY <1>1, <1>2, <1>3
<1>. QED  BY <1>1, <1>2, <1>3, <1>4

\* With no name that starts with dots, LeavesDirectory is what it is meant
\* to be, but for the directory right above.
LEMMA PlainLeaves ==
  ASSUME NEW p \in Seq(Strings), NEW q \in Seq(Strings), Plain(q)
  PROVE  /\ IsPrefixOf(p, q) => ~ LeavesDirectory(p, q)
         /\ ~ IsPrefixOf(p, q) /\ ~ LeavesDirectory(p, q) =>
              Len(p) = Len(q) + 1 /\ IsPrefixOf(q, p)
<1>1. ASSUME IsPrefixOf(p, q), LeavesDirectory(p, q) PROVE FALSE
  <2>. DEFINE rest == Below(p, q)
  <2>1. rest # <<>> /\ StartsWithDots(rest[1])
    BY <1>1 DEF LeavesDirectory
  <2>2. Len(p) \in Nat /\ Len(q) \in Nat /\ Len(p) <= Len(q)
    BY <1>1 DEF IsPrefixOf
  <2>3. CASE Len(p) = Len(q)
    <3>1. rest = <<>>
      BY <2>2, <2>3 DEF Below
    <3>. QED  BY <2>1, <3>1
  <2>4. CASE Len(p) < Len(q)
    <3>1. rest[1] = q[Len(p) + 1] /\ Len(p) + 1 \in 1 .. Len(q)
      BY <2>2, <2>4 DEF Below
    <3>. QED  BY <2>1, <3>1 DEF Plain
  <2>. QED  BY <2>2, <2>3, <2>4
<1>. QED  BY <1>1 DEF LeavesDirectory

-----------------------------------------------------------------------------
(* Place is kept: one lemma for each action. *)

LEMMA HeaderStack ==
  ASSUME OrderInv
  PROVE  /\ stack \in Seq(Header) /\ Len(stack) \in Nat /\ accepted \in Seq(Header)
         /\ \A i \in 1 .. Len(stack) : stack[i] \in ProperHeader /\ Depth(i) \in Nat
         /\ stack # <<>> => Len(stack) \in 1 .. Len(stack)
<1>1. stack \in Seq(ProperHeader) /\ accepted \in Seq(ProperHeader)
  BY DEF OrderInv, ProperType
<1>2. stack \in Seq(Header) /\ accepted \in Seq(Header)
  BY <1>1, ProperIsHeader
<1>3. ASSUME NEW i \in 1 .. Len(stack) PROVE stack[i] \in ProperHeader /\ Depth(i) \in Nat
  <2>1. stack[i] \in ProperHeader
    BY <1>1, ElementOfSeq
  <2>2. stack[i].path \in Seq(Strings)
    BY <2>1, ProperIsHeader
  <2>. QED  BY <2>1, <2>2 DEF Depth
<1>. QED  BY <1>1, <1>2, <1>3

LEMMA FirstPlace == ASSUME IInv, OrderInv, First PROVE Place'
<1>. SUFFICES ASSUME epc' = "emit" PROVE Place'
  BY DEF First, Place, Running
<1>1. stack' = <<>> /\ next' = arg /\ arg[1].path = <<>>
  BY DEF First, OrderInv, Told
<1>2. Len(stack') = 0
  BY <1>1
<1>. QED  BY <1>1, <1>2 DEF Place, Calls, Nested, PassedUp

LEMMA EmitNodePlace == ASSUME IInv, OrderInv, Place, EmitNode PROVE Place'
<1>. SUFFICES ASSUME epc' = "done" PROVE Place'
  BY DEF EmitNode, Fail, Place, Running
<1>. DEFINE h == next[1]
<1>0. PICK n \in Nat : n = Len(stack)
  BY HeaderStack
<1>1. /\ epc = "emit" /\ stack' = Append(stack, h)
      /\ UNCHANGED <<arg, accepted>> /\ Calls /\ Nested
  BY DEF EmitNode, Fail, caller, Place, Running
<1>2. h \in ProperHeader /\ h \in Header /\ h.path \in Seq(Strings) /\ Len(h.path) \in Nat
  <2>1. next \in Seq(ProperHeader) /\ Len(next) = 1
    BY <1>1 DEF OrderInv, ProperType, IInv, HeadersReady
  <2>2. h \in ProperHeader
    BY <2>1, OneElement
  <2>. QED  BY <2>2, ProperIsHeader
<1>3. /\ stack \in Seq(Header) /\ n \in Nat
      /\ \A i \in 1 .. n : Depth(i) \in Nat
      /\ stack # <<>> => n \in 1 .. n
  BY <1>0, HeaderStack
<1>. HIDE DEF h
<1>4. /\ Len(stack') = n + 1 /\ stack'[n + 1] = h
      /\ \A i \in 1 .. n : stack'[i] = stack[i]
  BY <1>0, <1>1, <1>2, <1>3
<1>5. /\ \A i \in 1 .. n : Depth(i)' = Depth(i)
      /\ Depth(n + 1)' = Len(h.path) /\ Top' = h
  BY <1>4 DEF Depth, Top
<1>6. ASSUME stack # <<>> PROVE Depth(n) <= Len(h.path) /\ Len(h.path) <= Depth(n) + 1
  <2>1. Top.path = stack[n].path
    BY <1>0 DEF Top
  <2>2. IsPrefixOf(Top.path, h.path)
    BY <1>1, <1>6 DEF OrderInv, Told, h
  <2>3. Len(h.path) <= Len(Top.path) + 1
    BY <1>1, <1>6 DEF Nested, h
  <2>. QED  BY <2>1, <2>2, <2>3 DEF IsPrefixOf, Depth
<1>7. n # 0 => stack # <<>>
  BY <1>0
<1>8. Calls'
  <2>. SUFFICES ASSUME ~ Repeats(Listed')
                PROVE  /\ \A i \in 1 .. n : Latest(accepted, stack'[i])
                       /\ \A i \in 1 .. n : Depth(i)' < Len(h.path)
    BY <1>1, <1>3, <1>4, <1>5 DEF Calls
  <2>1. Listed' = Listed
    BY <1>1 DEF Listed
  <2>2. /\ \A i \in 1 .. n : Latest(accepted, stack[i])
        /\ \A i \in 1 .. n : Depth(i) < Len(h.path)
    BY <1>0, <1>1, <2>1 DEF Calls, h
  <2>. QED  BY <1>4, <1>5, <2>2
<1>9. Nested'
  <2>1. stack'[1].path = <<>>
    <3>1. CASE n = 0
      <4>1. stack = <<>>
        BY <1>0, <1>3, <3>1
      <4>. QED  BY <1>1, <1>4, <3>1, <4>1 DEF Nested, h
    <3>2. CASE n # 0
      <4>1. 1 \in 1 .. n
        BY <1>3, <3>2
      <4>. QED  BY <1>1, <1>4, <1>7, <3>2, <4>1 DEF Nested
    <3>. QED  BY <3>1, <3>2
  <2>2. ASSUME NEW i \in 1 .. n + 1, NEW j \in 1 .. n + 1, i <= j
        PROVE  Depth(i)' <= Depth(j)'
    <3>1. CASE j \in 1 .. n
      <4>1. i \in 1 .. n
        BY <1>3, <2>2, <3>1
      <4>2. Depth(i) <= Depth(j)
        BY <1>0, <1>1, <2>2, <3>1, <4>1 DEF Nested
      <4>. QED  BY <1>5, <3>1, <4>1, <4>2
    <3>2. CASE j = n + 1 /\ i \in 1 .. n
      <4>1. n \in 1 .. n /\ i <= n /\ stack # <<>>
        BY <1>3, <1>7, <3>2
      <4>2. Depth(i) <= Depth(n)
        BY <1>0, <1>1, <3>2, <4>1 DEF Nested
      <4>. QED  BY <1>2, <1>3, <1>5, <1>6, <3>2, <4>1, <4>2
    <3>3. CASE j = n + 1 /\ i = n + 1
      BY <1>2, <1>5, <3>3
    <3>. QED  BY <1>3, <3>1, <3>2, <3>3
  <2>3. ASSUME NEW i \in 1 .. n PROVE Depth(i + 1)' <= Depth(i)' + 1
    <3>1. CASE i = n
      <4>1. stack # <<>>
        BY <1>3, <1>7, <3>1
      <4>. QED  BY <1>5, <1>6, <3>1, <4>1
    <3>2. CASE i # n
      <4>1. i \in 1 .. n - 1 /\ i + 1 \in 1 .. n
        BY <1>3, <3>2
      <4>2. Depth(i + 1) <= Depth(i) + 1
        BY <1>0, <1>1, <4>1 DEF Nested
      <4>. QED  BY <1>5, <4>1, <4>2
    <3>. QED  BY <3>1, <3>2
  <2>4. Len(stack') - 1 = n
    BY <1>3, <1>4
  <2>. QED  BY <1>4, <2>1, <2>2, <2>3, <2>4 DEF Nested
<1>. QED  BY <1>8, <1>9 DEF Place, PassedUp

LEMMA HeaderDonePlace == ASSUME IInv, OrderInv, Place, HeaderDone PROVE Place'
<1>. DEFINE n == Len(stack)
<1>1. /\ epc = "done" /\ epc' = "await" /\ UNCHANGED <<stack, next, arg>>
      /\ accepted' = Append(accepted, arg[1]) /\ Calls /\ Nested
      /\ stack # <<>> /\ arg = <<Top>>
  BY DEF HeaderDone, Place, Running, OrderInv, Handed
<1>2. accepted' = Append(accepted, Top)
  BY <1>1
<1>3. /\ accepted \in Seq(Header) /\ n \in 1 .. n /\ Top = stack[n]
      /\ \A i \in 1 .. n : stack[i] \in Header /\ Depth(i) \in Nat
  BY <1>1, HeaderStack, ProperIsHeader DEF Top
<1>4. Listed' = Listed
  <2>1. accepted \o arg = accepted \o <<Top>>
    BY <1>1
  <2>2. Append(accepted, Top) = accepted \o <<Top>>
    BY <1>3
  <2>. QED  BY <1>1, <1>2, <2>1, <2>2 DEF Listed
<1>5. Calls'
  <2>. SUFFICES ASSUME ~ Repeats(Listed), NEW i \in 1 .. n PROVE Latest(accepted', stack[i])
    BY <1>1, <1>4 DEF Calls
  <2>1. CASE i = n
    BY <1>2, <1>3, <2>1, LatestAppend
  <2>2. CASE i # n
    <3>1. i \in 1 .. n - 1 /\ i < n
      BY <1>3, <2>2
    <3>2. Latest(accepted, stack[i]) /\ Depth(i) < Len(Top.path)
      BY <1>1, <3>1 DEF Calls
    <3>3. Top.path # stack[i].path
      BY <1>3, <3>2 DEF Depth
    <3>. QED  BY <1>2, <1>3, <3>2, <3>3, LatestAppend
  <2>. QED  BY <2>1, <2>2
<1>6. Nested'
  BY <1>1 DEF Nested, Depth
<1>. QED  BY <1>1, <1>5, <1>6 DEF Place, PassedUp

LEMMA ReceivePlace == ASSUME IInv, OrderInv, Place, Receive PROVE Place'
<1>. SUFFICES ASSUME epc' = "loop" PROVE Place'
  BY DEF Receive, Place, Running
<1>1. epc = "await" /\ UNCHANGED <<stack, arg, accepted>> /\ Calls /\ Nested
  BY DEF Receive, Place, Running
<1>2. Listed' = Listed /\ Top' = Top /\ Last' = Last
  BY <1>1 DEF Listed, Top, Last
<1>3. stack # <<>> /\ Top.path = Last
  BY <1>1 DEF IInv, HeadersReady, OrderInv, Told
<1>4. Calls' /\ Nested'
  BY <1>1, <1>2 DEF Calls, Nested, Depth
<1>5. PassedUp'
  BY <1>1, <1>2, <1>3 DEF PassedUp
<1>. QED  BY <1>4, <1>5 DEF Place

LEMMA RootPrefix == ASSUME NEW q \in Seq(Strings) PROVE IsPrefixOf(<<>>, q)
<1>1. ASSUME NEW e \in Seq(Strings), Len(e) = 0 PROVE IsPrefixOf(e, q)
  <2>1. Len(e) <= Len(q) /\ \A i \in 1 .. Len(e) : e[i] = q[i]
    BY <1>1
  <2>. QED  BY <2>1, PrefixIs
<1>2. <<>> \in Seq(Strings) /\ Len(<<>>) = 0
  OBVIOUS
<1>. QED  BY <1>1, <1>2

LEMMA PrefixOfLength ==
  ASSUME NEW p \in Seq(Strings), NEW q \in Seq(Strings), IsPrefixOf(p, q), Len(p) = Len(q)
  PROVE  p = q
<1>1. \A i \in 1 .. Len(p) : p[i] = q[i]
  BY PrefixIs
<1>. QED  BY <1>1, SeqEqual

\* What the emitter knows of the header it passes up.
LEMMA PassedHeader ==
  ASSUME IInv, OrderInv, arg \in Seq(PlainHeader), epc \in {"loop", "return"}, next # Nil
  PROVE  /\ arg = <<next[1]>> /\ next[1] \in PlainHeader /\ next[1] \in Header
         /\ next[1].path \in Seq(Strings) /\ Proper(next[1].path) /\ Plain(next[1].path)
<1>1. next = arg /\ cpc = "select" /\ Len(arg) = 1
  BY DEF OrderInv, Handed, IInv, HeadersReady
<1>2. arg[1] \in PlainHeader /\ arg = <<arg[1]>>
  BY <1>1, OneElement
<1>3. arg[1] \in ProperHeader /\ Plain(arg[1].path)
  BY <1>2 DEF PlainHeader
<1>. QED  BY <1>1, <1>2, <1>3, ProperIsHeader

LEMMA LeavePlace ==
  ASSUME IInv, OrderInv, Place, arg \in Seq(PlainHeader), Leave
  PROVE  Place'
<1>. SUFFICES ASSUME epc' = "return" PROVE Place'
  BY DEF Leave, Writing, Fail, Place, Running
<1>. DEFINE q == next[1].path
<1>0. PICK n \in Nat : n = Len(stack)
  BY HeaderStack
<1>1. /\ epc = "loop" /\ stack' = Pop /\ UNCHANGED <<next, arg, accepted>>
      /\ Calls /\ Nested /\ PassedUp /\ stack # <<>>
      /\ next # Nil => LeavesDirectory(Top.path, q)
  BY DEF Leave, Writing, Fail, caller, Place, Running, IInv, HeadersReady
<1>2. /\ n \in 1 .. n /\ Top = stack[n] /\ Len(stack') = n - 1
      /\ \A i \in 1 .. n - 1 : stack'[i] = stack[i]
      /\ \A i \in 1 .. n : stack[i].path \in Seq(Strings) /\ Depth(i) \in Nat
  BY <1>0, <1>1, TopOf, HeaderStack, ProperIsHeader DEF OrderInv, Top
<1>3. \A i \in 1 .. n - 1 : i \in 1 .. n /\ Depth(i)' = Depth(i)
  BY <1>2 DEF Depth
<1>4. Listed' = Listed /\ Last' = Last
  BY <1>1 DEF Listed, Last
<1>5. Calls'
  <2>. SUFFICES ASSUME ~ Repeats(Listed), NEW i \in 1 .. n - 1 PROVE Latest(accepted, stack[i])
    BY <1>1, <1>2, <1>4 DEF Calls
  <2>. QED  BY <1>0, <1>1, <1>3 DEF Calls
<1>6. Nested'
  <2>1. stack' # <<>> => stack'[1].path = <<>>
    <3>. SUFFICES ASSUME stack' # <<>> PROVE stack'[1].path = <<>>
      OBVIOUS
    <3>1. stack' \in Seq(ProperHeader)
      BY <1>1, TopOf DEF OrderInv
    <3>2. 1 \in 1 .. n - 1
      BY <1>2, <3>1
    <3>. QED  BY <1>1, <1>2, <3>2 DEF Nested
  <2>2. \A i, j \in 1 .. n - 1 : i <= j => Depth(i)' <= Depth(j)'
    BY <1>0, <1>1, <1>3 DEF Nested
  <2>3. ASSUME NEW i \in 1 .. (n - 1) - 1 PROVE Depth(i + 1)' <= Depth(i)' + 1
    <3>1. i \in 1 .. n - 1 /\ i + 1 \in 1 .. n - 1
      OBVIOUS
    <3>2. Depth(i + 1) <= Depth(i) + 1
      BY <1>0, <1>1, <3>1 DEF Nested
    <3>. QED  BY <1>3, <3>1, <3>2
  <2>. QED  BY <1>2, <2>1, <2>2, <2>3 DEF Nested
<1>7. PassedUp'
  <2>. SUFFICES ASSUME next # Nil
                PROVE  /\ stack' # <<>>
                       /\ \/ Top'.path = Last
                          \/ ~ IsPrefixOf(SubSeq(Last, 1, Len(Top'.path) + 1), q)
    BY <1>1, <1>4 DEF PassedUp
  <2>1. /\ q \in Seq(Strings) /\ Plain(q) /\ accepted # <<>>
        /\ Top.path \in Seq(Strings) /\ Last \in Seq(Strings) /\ IsPrefixOf(Top.path, Last)
    BY <1>1, PassedHeader, TopOf, LastIs DEF OrderInv, Told
  <2>2. ~ IsPrefixOf(Top.path, q)
    BY <1>1, <2>1, PlainLeaves
  <2>3. n # 1
    <3>. SUFFICES ASSUME n = 1 PROVE FALSE
      OBVIOUS
    <3>1. Top.path = <<>> /\ <<>> \in Seq(Strings)
      BY <1>1, <1>2 DEF Nested
    <3>2. IsPrefixOf(<<>>, q)
      <4>. HIDE DEF q
      <4>. QED  BY <2>1, RootPrefix
    <3>. QED  BY <2>2, <3>1, <3>2
  <2>4. n - 1 \in 1 .. n /\ n - 1 \in 1 .. n - 1
    BY <1>2, <2>3
  <2>5. stack' # <<>>
    <3>1. Len(stack') # 0
      BY <1>2, <2>3
    <3>. QED  BY <3>1
  <2>6. Top' = stack[n - 1]
    BY <1>2, <2>4 DEF Top
  <2>. DEFINE u == Top'.path
  <2>7. /\ Len(u) \in Nat /\ u \in Seq(Strings)
        /\ IsPrefixOf(u, Top.path) /\ Len(Top.path) <= Len(u) + 1 /\ Len(u) <= Len(Top.path)
    <3>1. IsPrefixOf(stack[n - 1].path, stack[(n - 1) + 1].path)
      BY <1>0, <1>1, <2>4 DEF OrderInv, Told
    <3>2. Depth((n - 1) + 1) <= Depth(n - 1) + 1
      BY <1>0, <1>1, <2>4 DEF Nested
    <3>3. (n - 1) + 1 = n
      OBVIOUS
    <3>. QED  BY <1>2, <2>4, <2>6, <3>1, <3>2, <3>3 DEF Depth, IsPrefixOf
  <2>. HIDE DEF u, q
  <2>8. CASE Len(Top.path) = Len(u)
    <3>1. u = Top.path
      BY <2>1, <2>7, <2>8, PrefixOfLength
    <3>. QED  BY <1>1, <2>5, <3>1 DEF PassedUp, u, q
  <2>9. CASE Len(Top.path) = Len(u) + 1
    <3>1. SubSeq(Last, 1, Len(u) + 1) = Top.path
      BY <2>1, <2>9 DEF IsPrefixOf
    <3>. QED  BY <2>2, <2>5, <3>1 DEF u, q
  <2>10. Len(Top.path) \in Nat
    BY <2>1
  <2>. QED  BY <2>7, <2>8, <2>9, <2>10
<1>. QED  BY <1>5, <1>6, <1>7 DEF Place

\* A header is never the directory of the last one, or above it.
LEMMA NotAbove ==
  ASSUME NEW l \in Seq(Strings), NEW q \in Seq(Strings), Proper(l), IsPrefixOf(q, l), q # l
  PROVE  ~ PathIsLexicographicallyOrdered(PathString(l), PathString(q))
<1>1. Len(q) <= Len(l) /\ \A i \in 1 .. Len(q) : q[i] = l[i]
  BY PrefixIs
<1>2. Len(q) < Len(l)
  <2>1. Len(q) \in Nat /\ Len(l) \in Nat
    OBVIOUS
  <2>2. Len(q) # Len(l)
    <3>. SUFFICES ASSUME Len(q) = Len(l) PROVE FALSE
      OBVIOUS
    <3>. QED  BY <1>1
  <2>. QED  BY <1>1, <2>1, <2>2
<1>3. SameNames(l, q, Len(q))
  BY <1>1 DEF SameNames
<1>. QED  BY <1>2, <1>3, NoWayBack

LEMMA EnterPlace ==
  ASSUME IInv, OrderInv, Place, arg \in Seq(PlainHeader), Enter
  PROVE  Place'
<1>. SUFFICES ASSUME epc' = "emit" PROVE Place'
  BY DEF Enter, Writing, Fail, Place, Running
<1>. DEFINE h == next[1]
<1>0. PICK n \in Nat : n = Len(stack)
  BY HeaderStack
<1>1. /\ epc = "loop" /\ next # Nil /\ UNCHANGED <<stack, next, arg, accepted>>
      /\ IsSingleName(Top.path, h.path)
      /\ Calls /\ Nested /\ stack # <<>>
  BY DEF Enter, Writing, Fail, caller, Place, Running, IInv, HeadersReady
<1>2. /\ h \in Header /\ h.path \in Seq(Strings) /\ Proper(h.path) /\ arg = <<h>>
      /\ Len(h.path) \in Nat
  BY <1>1, PassedHeader
<1>. HIDE DEF h
<1>3. /\ n \in 1 .. n /\ Top = stack[n] /\ Top.path \in Seq(Strings)
      /\ \A i \in 1 .. n : Depth(i) \in Nat
      /\ accepted \in Seq(Header) /\ accepted # <<>> /\ Last \in Seq(Strings) /\ Proper(Last)
  BY <1>0, <1>1, TopOf, HeaderStack, LastIs DEF OrderInv, Told, Top
<1>4. Len(Top.path) <= Len(h.path) /\ Len(h.path) <= Len(Top.path) + 1
      /\ IsPrefixOf(Top.path, h.path)
  BY <1>1 DEF IsSingleName, IsPrefixOf
<1>5. ASSUME ~ Repeats(Listed') PROVE ~ Repeats(Listed) /\ Len(Top.path) < Len(h.path)
  <2>1. Listed' = accepted \o <<h>> /\ Listed = accepted
    BY <1>1, <1>2 DEF Listed
  <2>2. ~ Repeats(accepted) /\ LastOf(accepted) # h.path
    BY <1>2, <1>3, <1>5, <2>1, RepeatsNot
  <2>3. ASSUME Len(Top.path) = Len(h.path) PROVE FALSE
    <3>1. h.path = Top.path
      BY <1>2, <1>3, <1>4, <2>3, PrefixOfLength
    <3>2. Top.path # Last
      BY <2>2, <3>1 DEF Last
    <3>3. /\ PathIsLexicographicallyOrdered(PathString(Last), PathString(h.path))
          /\ IsPrefixOf(h.path, Last)
      BY <1>1, <3>1, <3>2 DEF OrderInv, Told, h
    <3>. QED  BY <1>2, <1>3, <3>1, <3>2, <3>3, NotAbove
  <2>4. Len(Top.path) \in Nat
    BY <1>3
  <2>. QED  BY <1>2, <1>4, <2>1, <2>2, <2>3, <2>4
<1>6. ASSUME NEW i \in 1 .. n PROVE Depth(i) <= Len(Top.path)
  <2>1. Depth(i) <= Depth(n)
    BY <1>0, <1>1, <1>3 DEF Nested
  <2>. QED  BY <1>3, <2>1 DEF Depth
<1>7. Len(Top.path) \in Nat
  BY <1>3
<1>8. Calls'
  <2>. SUFFICES ASSUME ~ Repeats(Listed')
                PROVE  \A i \in 1 .. n : Latest(accepted, stack[i]) /\ Depth(i) < Len(h.path)
    BY <1>0, <1>1 DEF Calls, Depth, h
  <2>1. \A i \in 1 .. n : Latest(accepted, stack[i])
    BY <1>0, <1>1, <1>5 DEF Calls
  <2>2. ASSUME NEW i \in 1 .. n PROVE Depth(i) < Len(h.path)
    BY <1>2, <1>3, <1>5, <1>6, <1>7
  <2>. QED  BY <2>1, <2>2
<1>9. Nested'
  <2>1. Top' = Top
    BY <1>1 DEF Top
  <2>. QED  BY <1>1, <1>4, <2>1 DEF Nested, Depth, h
<1>. QED  BY <1>8, <1>9 DEF Place, PassedUp

LEMMA ReturnPlace == ASSUME IInv, OrderInv, Place, Return PROVE Place'
<1>. SUFFICES ASSUME epc' = "loop" PROVE Place'
  BY DEF Return, Writing, Fail, Place, Running
<1>1. epc = "return" /\ UNCHANGED <<stack, next, arg, accepted>> /\ Calls /\ Nested /\ PassedUp
  BY DEF Return, Writing, Fail, caller, Place, Running
<1>2. Listed' = Listed /\ Top' = Top /\ Last' = Last
  BY <1>1 DEF Listed, Top, Last
<1>3. Calls' /\ Nested' /\ PassedUp'
  BY <1>1, <1>2 DEF Calls, Nested, PassedUp, Depth
<1>. QED  BY <1>3 DEF Place

LEMMA CallerPlace ==
  ASSUME IInv, OrderInv, Place,
         \/ \E h \in ProperHeader : WriteHeader(h)
         \/ Writes \/ Close \/ TakeError \/ CloseReturns \/ UNCHANGED vars
  PROVE  Place'
<1>1. CASE TakeError
  BY <1>1 DEF TakeError, Place, Running
<1>2. CASE ~ TakeError
  <2>1. /\ UNCHANGED <<stack, next, accepted, epc>>
        /\ arg' = arg \/ cpc = "idle"
    BY <1>2 DEF WriteHeader, Writes, Close, CloseReturns, vars, emitter, caller
  <2>2. epc \in {"emit", "done"} => arg' = arg
    BY <2>1 DEF OrderInv, Handed
  <2>3. Listed' = Listed /\ Top' = Top /\ Last' = Last
    BY <2>1, <2>2 DEF Listed, Top, Last
  <2>4. Running => Calls' /\ Nested' /\ PassedUp'
    BY <2>1, <2>3 DEF Place, Calls, Nested, PassedUp, Depth
  <2>. QED  BY <2>1, <2>4 DEF Place, Running
<1>. QED  BY <1>1, <1>2

LEMMA StepPlace ==
  ASSUME IInv, OrderInv, Place, arg \in Seq(PlainHeader), CleanStep
  PROVE  Place'
<1>1. ASSUME Reject PROVE Place'
  BY <1>1 DEF Reject, Fail, Place, Running
<1>. QED  BY <1>1, FirstPlace, EmitNodePlace, HeaderDonePlace, ReceivePlace, LeavePlace, EnterPlace,
             ReturnPlace, CallerPlace DEF CleanStep, Library

LEMMA InitPlace == Init => Place
<1>. SUFFICES ASSUME Init PROVE Place
  OBVIOUS
<1>1. stack = <<>> /\ Len(stack) = 0 /\ epc = "first"
  BY DEF Init
<1>. QED  BY <1>1 DEF Place, Calls, Nested, PassedUp

-----------------------------------------------------------------------------
(* Every header of an archive goes on with those before it.                *)

\* The header k + 1 is an entry of a directory that k is, or is below.
FollowsAt(hs, k) ==
  /\ TreeLeq(hs[k].path, hs[k + 1].path) /\ hs[k].path # hs[k + 1].path
  /\ \E m \in 1 .. k :
       /\ hs[m].type = "directory" /\ IsPrefixOf(hs[m].path, hs[k].path)
       /\ \E n \in Strings : hs[k + 1].path = Append(hs[m].path, n)
       /\ \A j \in m + 1 .. k : hs[j].path # hs[m].path

\* All but the first are below the first.
BelowFirst(hs) ==
  \A i \in 1 .. Len(hs) :
    IsPrefixOf(hs[1].path, hs[i].path) /\ (i # 1 => Len(hs[1].path) < Len(hs[i].path))

Orderly(hs) == BelowFirst(hs) /\ \A k \in 1 .. Len(hs) - 1 : FollowsAt(hs, k)

OrderlyNodes == {x \in WholeNodes : Orderly(x[2])}

LEMMA SingleOrderly == ASSUME NEW h \in Header PROVE Orderly(<<h>>)
<1>1. Len(<<h>>) = 1 /\ <<h>>[1] = h /\ h.path \in Seq(Strings)
  BY DEF Header
<1>2. IsPrefixOf(h.path, h.path)
  BY <1>1, PrefixItself
<1>. QED  BY <1>1, <1>2 DEF Orderly, BelowFirst

LEMMA EntryOrderly ==
  ASSUME NEW hs \in Seq(Header), hs # <<>>, Orderly(hs), hs[1].type = "directory",
         NEW es \in Seq(Header), es # <<>>, Orderly(es), EntryOf(hs, es[1])
  PROVE  Orderly(hs \o es)
<1>. DEFINE g == hs \o es
            n == Len(hs)
            e == Len(es)
<1>1. /\ g \in Seq(Header) /\ Len(g) = n + e /\ n \in Nat \ {0} /\ e \in Nat \ {0}
      /\ \A i \in 1 .. n : g[i] = hs[i]
      /\ \A i \in 1 .. e : g[n + i] = es[i]
  <2>1. g \in Seq(Header) /\ Len(g) = n + e
    OBVIOUS
  <2>2. n \in Nat \ {0} /\ e \in Nat \ {0}
    OBVIOUS
  <2>3. \A i \in 1 .. n : g[i] = hs[i]
    OBVIOUS
  <2>4. \A i \in 1 .. e : g[n + i] = es[i]
    BY <2>2
  <2>. QED  BY <2>1, <2>2, <2>3, <2>4
<1>2. /\ \A i \in 1 .. n : hs[i].path \in Seq(Strings)
      /\ \A i \in 1 .. e : es[i].path \in Seq(Strings) /\ Len(es[i].path) \in Nat
  <2>1. \A h \in Header : h.path \in Seq(Strings)
    BY DEF Header
  <2>2. \A i \in 1 .. n : hs[i] \in Header
    OBVIOUS
  <2>3. \A i \in 1 .. e : es[i] \in Header
    OBVIOUS
  <2>4. \A p \in Seq(Strings) : Len(p) \in Nat
    OBVIOUS
  <2>. HIDE DEF n, e
  <2>. QED  BY <2>1, <2>2, <2>3, <2>4
<1>3. LastOf(hs) = hs[n].path
  BY DEF LastOf
<1>. HIDE DEF g, n, e
<1>. DEFINE root == hs[1].path
<1>4. g[1] = hs[1] /\ root \in Seq(Strings) /\ Len(root) \in Nat
  BY <1>1, <1>2
<1>5. PICK s \in Strings : es[1].path = Append(root, s)
  BY DEF EntryOf
<1>. HIDE DEF root
<1>6. IsPrefixOf(root, es[1].path) /\ Len(es[1].path) = Len(root) + 1
  <2>1. /\ Len(es[1].path) = Len(root) + 1
        /\ \A i \in 1 .. Len(root) : root[i] = es[1].path[i]
    BY <1>4, <1>5
  <2>2. es[1].path \in Seq(Strings)
    BY <1>1, <1>2
  <2>. QED  BY <1>4, <2>1, <2>2, PrefixIs
<1>7. ASSUME NEW i \in 1 .. e PROVE IsPrefixOf(root, es[i].path) /\ Len(root) < Len(es[i].path)
  <2>1. IsPrefixOf(es[1].path, es[i].path) /\ 1 \in 1 .. e
    BY <1>1 DEF Orderly, BelowFirst, e
  <2>2. Len(es[1].path) <= Len(es[i].path)
    BY <2>1 DEF IsPrefixOf
  <2>3. IsPrefixOf(root, es[i].path)
    BY <1>2, <1>4, <1>6, <2>1, PrefixTransitive
  <2>. QED  BY <1>2, <1>4, <1>6, <2>1, <2>2, <2>3
<1>11. n \in Nat \ {0} /\ e \in Nat \ {0}
  BY <1>1
<1>8. BelowFirst(g)
  <2>. SUFFICES ASSUME NEW i \in 1 .. n + e
                PROVE  IsPrefixOf(root, g[i].path) /\ (i # 1 => Len(root) < Len(g[i].path))
    BY <1>1, <1>4 DEF BelowFirst, root
  <2>1. CASE i \in 1 .. n
    BY <1>1, <2>1 DEF Orderly, BelowFirst, root, n
  <2>2. CASE i \notin 1 .. n
    <3>1. i - n \in 1 .. e /\ n + (i - n) = i
      BY <1>1, <2>2
    <3>2. g[n + (i - n)] = es[i - n]
      BY <1>1, <3>1
    <3>. QED  BY <1>7, <3>1, <3>2
  <2>. QED  BY <2>1, <2>2
<1>9. ASSUME NEW k \in 1 .. (n + e) - 1 PROVE FollowsAt(g, k)
  <2>1. CASE k < n
    <3>1. k \in 1 .. n - 1 /\ k \in 1 .. n /\ k + 1 \in 1 .. n
      BY <1>1, <2>1
    <3>2. FollowsAt(hs, k)
      BY <3>1 DEF Orderly, n
    <3>3. PICK m \in 1 .. k :
            /\ hs[m].type = "directory" /\ IsPrefixOf(hs[m].path, hs[k].path)
            /\ \E x \in Strings : hs[k + 1].path = Append(hs[m].path, x)
            /\ \A j \in m + 1 .. k : hs[j].path # hs[m].path
      BY <3>2 DEF FollowsAt
    <3>4. m \in 1 .. n /\ g[m] = hs[m] /\ g[k] = hs[k] /\ g[k + 1] = hs[k + 1]
      <4>1. m \in 1 .. n
        BY <1>11, <3>1
      <4>. QED  BY <1>1, <3>1, <4>1
    <3>5. \A j \in m + 1 .. k : j \in 1 .. n /\ g[j] = hs[j]
      <4>1. \A j \in m + 1 .. k : j \in 1 .. n
        BY <1>11, <3>1
      <4>. QED  BY <1>1, <4>1
    <3>. QED  BY <3>2, <3>3, <3>4, <3>5 DEF FollowsAt
  <2>2. CASE k = n
    <3>1. g[k] = hs[n] /\ g[k + 1] = es[1] /\ 1 \in 1 .. k /\ n \in 1 .. n
      <4>1. 1 \in 1 .. k /\ n \in 1 .. n /\ 1 \in 1 .. e
        BY <1>11, <2>2
      <4>2. g[n] = hs[n] /\ g[n + 1] = es[1]
        BY <1>1, <4>1
      <4>. QED  BY <2>2, <4>1, <4>2
    <3>2. TreeLeq(hs[n].path, es[1].path) /\ hs[n].path # es[1].path
      BY <1>3 DEF EntryOf
    <3>3. IsPrefixOf(root, hs[n].path)
      BY <3>1 DEF Orderly, BelowFirst, n, root
    <3>4. ASSUME NEW j \in 1 + 1 .. k PROVE g[j].path # root
      <4>1. j \in 1 .. n /\ j # 1
        BY <1>1, <2>2
      <4>2. Len(root) < Len(hs[j].path)
        BY <4>1 DEF Orderly, BelowFirst, n, root
      <4>. QED  BY <1>1, <1>4, <4>1, <4>2
    <3>. QED  BY <1>4, <1>5, <3>1, <3>2, <3>3, <3>4 DEF FollowsAt, root
  <2>3. CASE k > n
    <3>. DEFINE c == k - n
    <3>1. c \in 1 .. e - 1 /\ c \in 1 .. e /\ c + 1 \in 1 .. e /\ n + c = k /\ n + (c + 1) = k + 1
      BY <1>11, <2>3
    <3>. HIDE DEF c
    <3>2. FollowsAt(es, c)
      BY <3>1 DEF Orderly, e
    <3>3. PICK m \in 1 .. c :
            /\ es[m].type = "directory" /\ IsPrefixOf(es[m].path, es[c].path)
            /\ \E x \in Strings : es[c + 1].path = Append(es[m].path, x)
            /\ \A j \in m + 1 .. c : es[j].path # es[m].path
      BY <3>2 DEF FollowsAt
    <3>4. m \in 1 .. e /\ n + m \in 1 .. k
      BY <1>11, <3>1
    <3>5. g[n + m] = es[m] /\ g[k] = es[c] /\ g[k + 1] = es[c + 1]
      <4>1. g[n + m] = es[m] /\ g[n + c] = es[c] /\ g[n + (c + 1)] = es[c + 1]
        BY <1>1, <3>1, <3>4
      <4>. QED  BY <3>1, <4>1
    <3>6. ASSUME NEW j \in (n + m) + 1 .. k PROVE g[j].path # es[m].path
      <4>1. j - n \in m + 1 .. c /\ j - n \in 1 .. e /\ n + (j - n) = j
        BY <1>1, <3>1, <3>4
      <4>2. g[n + (j - n)] = es[j - n]
        BY <1>1, <4>1
      <4>. QED  BY <3>3, <4>1, <4>2
    <3>. QED  BY <3>2, <3>3, <3>4, <3>5, <3>6 DEF FollowsAt
  <2>. QED  BY <1>1, <2>1, <2>2, <2>3
<1>10. Len(g) - 1 = (n + e) - 1
  BY <1>1
<1>12. Orderly(g)
  BY <1>8, <1>9, <1>10 DEF Orderly
<1>. QED  BY <1>12 DEF g

LEMMA OrderlyGrammar == Grammar(OrderlyNodes)
<1>1. \A k, hs, o : <<k, hs, o>> \in OrderlyNodes <=> <<k, hs, o>> \in WholeNodes /\ Orderly(hs)
  BY DEF OrderlyNodes
<1>2. \A hs, o : <<"open", hs, o>> \in WholeNodes =>
        hs \in Seq(Header) /\ hs # <<>> /\ hs[1].type = "directory"
  BY DEF WholeNodes
<1>3. \A hs, o : <<"node", hs, o>> \in WholeNodes => hs \in Seq(Header) /\ hs # <<>>
  BY DEF WholeNodes
<1>4. \A hs, es, o, e :
        <<"open", hs, o>> \in OrderlyNodes /\ <<"node", es, e>> \in OrderlyNodes
          /\ EntryOf(hs, es[1])
        => Orderly(hs \o es)
  BY <1>1, <1>2, <1>3, EntryOrderly
<1>. QED  BY <1>1, <1>4, SingleOrderly, WholeGrammar DEF Grammar

LEMMA ArchivesAreOrderly ==
  ASSUME NEW hs, NEW o, IsArchive(hs, o)
  PROVE  hs \in Seq(Header) /\ hs # <<>> /\ Orderly(hs)
<1>1. <<"node", hs, o>> \in OrderlyNodes
  BY OrderlyGrammar DEF IsArchive
<1>2. <<"node", hs, o>> \in WholeNodes /\ Orderly(hs)
  BY <1>1 DEF OrderlyNodes
<1>. QED  BY <1>2, ArchivesAreWhole

\* Some archive has the headers hs at its beginning.
Begins(hs) == \E gs, o : IsArchive(gs, o) /\ gs[1].path = <<>> /\ IsPrefixOf(hs, gs)

LEMMA BeginsOrderly ==
  ASSUME NEW hs \in Seq(Header), hs # <<>>, Begins(hs)
  PROVE  hs[1].path = <<>> /\ \A k \in 1 .. Len(hs) - 1 : FollowsAt(hs, k)
<1>1. PICK gs, o : IsArchive(gs, o) /\ gs[1].path = <<>> /\ IsPrefixOf(hs, gs)
  BY DEF Begins
<1>2. gs \in Seq(Header) /\ Orderly(gs)
  BY <1>1, ArchivesAreOrderly
<1>3. Len(hs) <= Len(gs) /\ \A i \in 1 .. Len(hs) : hs[i] = gs[i]
  BY <1>1, <1>2, PrefixIs
<1>4. Len(hs) \in Nat \ {0} /\ Len(gs) \in Nat
  BY <1>2, EmptySeq
<1>5. ASSUME NEW k \in 1 .. Len(hs) - 1 PROVE FollowsAt(hs, k)
  <2>1. FollowsAt(gs, k)
    BY <1>2, <1>3, <1>4 DEF Orderly
  <2>2. k + 1 \in 1 .. Len(hs) /\ \A i \in 1 .. k : i \in 1 .. Len(hs)
    BY <1>4
  <2>3. hs[k + 1] = gs[k + 1] /\ \A i \in 1 .. k : hs[i] = gs[i]
    BY <1>3, <2>2
  <2>4. k \in 1 .. k /\ \A m \in 1 .. k : \A j \in m + 1 .. k : j \in 1 .. k
    OBVIOUS
  <2>. QED  BY <2>1, <2>3, <2>4 DEF FollowsAt
<1>. QED  BY <1>1, <1>3, <1>4, <1>5

\* A header that follows the last one is not rejected.
LEMMA RejectedNotNext ==
  ASSUME ArchiveInv, Place, arg \in Seq(PlainHeader), Reject, ~ Repeats(accepted),
         FollowsAt(accepted \o arg, Len(accepted))
  PROVE  FALSE
<1>. DEFINE h == next[1]
            q == h.path
            g == accepted \o <<h>>
            n == Len(accepted)
            u == Top.path
<1>1. /\ epc = "loop" /\ next # Nil /\ stack # <<>> /\ IInv /\ OrderInv
      /\ Calls /\ Nested /\ PassedUp
      /\ \/ ~ PathIsLexicographicallyOrdered(PathString(u), PathString(q))
         \/ ~ LeavesDirectory(u, q) /\ (Top.type # "directory" \/ ~ IsSingleName(u, q))
  BY DEF Reject, Place, Running, ArchiveInv, IInv, HeadersReady
<1>2. arg = <<h>> /\ h \in Header /\ q \in Seq(Strings) /\ Proper(q) /\ Plain(q)
  BY <1>1, PassedHeader
<1>. HIDE DEF h
<1>3. /\ accepted \in Seq(Header) /\ accepted # <<>> /\ n \in Nat \ {0}
      /\ Last \in Seq(Strings) /\ Proper(Last) /\ Last = accepted[n].path
      /\ u \in Seq(Strings) /\ Proper(u) /\ IsPrefixOf(u, Last)
      /\ Len(stack) \in 1 .. Len(stack) /\ Top = stack[Len(stack)]
  BY <1>1, HeaderStack, LastIs, TopOf, EmptySeq DEF OrderInv, Told, Last, LastOf, Top
<1>4. /\ g \in Seq(Header) /\ Len(g) = n + 1 /\ g[n + 1] = h /\ g # <<>>
      /\ \A i \in 1 .. n : g[i] = accepted[i]
  <2>1. g \in Seq(Header) /\ Len(g) = n + 1 /\ g[n + 1] = h
    BY <1>2, <1>3
  <2>2. \A i \in 1 .. n : g[i] = accepted[i]
    BY <1>2, <1>3
  <2>3. g # <<>>
    BY <1>3, <2>1, EmptySeq
  <2>. QED  BY <2>1, <2>2, <2>3
<1>5. FollowsAt(g, n)
  BY <1>2
<1>. HIDE DEF g, n
<1>6. ~ Repeats(accepted)
  OBVIOUS
<1>7. Latest(accepted, Top)
  BY <1>1, <1>3, <1>6 DEF Calls, Listed
<1>8. g[n] = accepted[n] /\ n \in 1 .. n
  BY <1>3, <1>4
<1>9. TreeLeq(Last, q) /\ Last # q
  BY <1>3, <1>4, <1>5, <1>8 DEF FollowsAt
<1>10. PICK m \in 1 .. n :
         /\ g[m].type = "directory" /\ IsPrefixOf(g[m].path, g[n].path)
         /\ \E s \in Strings : g[n + 1].path = Append(g[m].path, s)
         /\ \A j \in m + 1 .. n : g[j].path # g[m].path
  BY <1>5, <1>8 DEF FollowsAt
<1>. DEFINE d == accepted[m]
<1>11. d = g[m] /\ d \in Header /\ d.path \in Seq(Strings) /\ Len(d.path) \in Nat
  <2>1. d = g[m]
    BY <1>4
  <2>2. d \in Header
    BY <1>3, ElementOfSeq DEF n
  <2>. QED  BY <2>1, <2>2 DEF Header
<1>12. Latest(accepted, d)
  <2>1. m \in DOMAIN accepted
    BY <1>3 DEF n
  <2>2. ASSUME NEW j \in m + 1 .. n PROVE accepted[j].path # d.path
    <3>1. j \in 1 .. n
      BY <1>3
    <3>. QED  BY <1>4, <1>10, <1>11, <3>1
  <2>. QED  BY <2>1, <2>2 DEF Latest, n
<1>. HIDE DEF d
<1>13. PICK s \in Strings : q = Append(d.path, s)
  BY <1>4, <1>10, <1>11
<1>14. d.type = "directory" /\ IsPrefixOf(d.path, Last)
  BY <1>3, <1>8, <1>10, <1>11
<1>15. /\ Len(q) = Len(d.path) + 1 /\ Len(u) \in Nat /\ Len(Last) \in Nat
       /\ \A i \in 1 .. Len(d.path) : q[i] = d.path[i] /\ d.path[i] = Last[i]
       /\ \A i \in 1 .. Len(u) : u[i] = Last[i]
       /\ Len(u) <= Len(Last) /\ Len(d.path) <= Len(Last)
  <2>1. Len(q) = Len(d.path) + 1 /\ \A i \in 1 .. Len(d.path) : q[i] = d.path[i]
    BY <1>11, <1>13
  <2>2. Len(d.path) <= Len(Last) /\ \A i \in 1 .. Len(d.path) : d.path[i] = Last[i]
    BY <1>3, <1>11, <1>14, PrefixIs
  <2>3. Len(u) <= Len(Last) /\ \A i \in 1 .. Len(u) : u[i] = Last[i]
    <3>1. u \in Seq(Strings) /\ Last \in Seq(Strings) /\ IsPrefixOf(u, Last)
      BY <1>3
    <3>. HIDE DEF u
    <3>. QED  BY <3>1, PrefixIs
  <2>. HIDE DEF u, q
  <2>. QED  BY <1>3, <2>1, <2>2, <2>3
<1>. HIDE DEF u, q
<1>16. PathIsLexicographicallyOrdered(PathString(u), PathString(q))
  <2>1. TreeLeq(u, Last)
    <3>1. Parts(u, Last, Len(u))
      BY <1>15 DEF Parts, SameNames
    <3>. QED  BY <1>15, <3>1 DEF TreeLeq
  <2>2. TreeLeq(u, q)
    BY <1>2, <1>3, <1>9, <2>1, TreeTransitive DEF q
  <2>. QED  BY <1>2, <1>3, <2>2, TreeOrderAccepted DEF q
<1>17. ~ LeavesDirectory(u, q) /\ (Top.type # "directory" \/ ~ IsSingleName(u, q))
  BY <1>1, <1>16 DEF u, q
<1>18. ~ IsPrefixOf(q, Last)
  <2>1. PathIsLexicographicallyOrdered(PathString(Last), PathString(q))
    BY <1>2, <1>3, <1>9, TreeOrderAccepted DEF q
  <2>. QED  BY <1>2, <1>3, <1>9, <2>1, NotAbove DEF q
<1>19. q \in Seq(Strings) /\ Plain(q) /\ u \in Seq(Strings)
  BY <1>2, <1>3 DEF q, u
<1>20. IsPrefixOf(u, q)
  <2>. SUFFICES ASSUME ~ IsPrefixOf(u, q) PROVE FALSE
    OBVIOUS
  <2>1. IsPrefixOf(q, u)
    BY <1>17, <1>19, PlainLeaves
  <2>2. IsPrefixOf(u, Last)
    BY <1>3 DEF u
  <2>. QED  BY <1>3, <1>18, <1>19, <2>1, <2>2, PrefixTransitive
<1>21. Len(u) <= Len(q) /\ \A i \in 1 .. Len(u) : u[i] = q[i]
  BY <1>19, <1>20, PrefixIs
<1>22. Len(u) # Len(q)
  <2>. SUFFICES ASSUME Len(u) = Len(q) PROVE FALSE
    OBVIOUS
  <2>1. u = q
    BY <1>19, <1>20, PrefixOfLength
  <2>. QED  BY <1>3, <1>18, <2>1 DEF u
<1>23. Len(d.path) <= Len(u)
  <2>. SUFFICES ASSUME Len(u) < Len(d.path) PROVE FALSE
    BY <1>11, <1>15
  <2>1. u # Last
    BY <1>11, <1>15
  <2>2. ~ IsPrefixOf(SubSeq(Last, 1, Len(u) + 1), q)
    BY <1>1, <2>1 DEF PassedUp, u, q, h
  <2>. DEFINE v == SubSeq(Last, 1, Len(u) + 1)
  <2>3. Len(u) + 1 \in 0 .. Len(Last) /\ Len(u) + 1 \in Nat
    BY <1>11, <1>15
  <2>4. \A k \in Nat : Len(SubSeq(Last, 1, k)) = k
    BY <1>3
  <2>5. Len(v) = Len(u) + 1
    BY <2>3, <2>4, Zenon
  <2>6. v \in Seq(Strings) /\ \A i \in 1 .. Len(u) + 1 : v[i] = Last[i]
    BY <1>3, <2>3
  <2>. HIDE DEF v
  <2>7. ASSUME NEW i \in 1 .. Len(v) PROVE v[i] = q[i]
    <3>1. i \in 1 .. Len(d.path) /\ i \in 1 .. Len(u) + 1
      BY <1>11, <1>15, <2>5
    <3>. QED  BY <1>15, <2>6, <3>1
  <2>8. Len(v) <= Len(q)
    BY <1>11, <1>15, <2>5
  <2>9. IsPrefixOf(v, q)
    BY <1>19, <2>6, <2>7, <2>8, PrefixIs
  <2>. QED  BY <2>2, <2>9 DEF v
<1>24. Len(u) = Len(d.path)
  BY <1>11, <1>15, <1>21, <1>22, <1>23
<1>25. d.path = u
  <2>1. \A i \in 1 .. Len(u) : d.path[i] = u[i]
    BY <1>15, <1>24
  <2>. QED  BY <1>11, <1>19, <1>24, <2>1, SeqEqual
<1>26. d = Top
  BY <1>3, <1>7, <1>12, <1>25, LatestIsOne DEF u
<1>27. IsSingleName(u, q)
  BY <1>15, <1>20, <1>24 DEF IsSingleName
<1>. QED  BY <1>14, <1>17, <1>26, <1>27

LEMMA RejectedNotBegun ==
  ASSUME ArchiveInv, Place, arg \in Seq(PlainHeader), Reject, Begins(accepted \o arg)
  PROVE  FALSE
<1>. DEFINE g == accepted \o arg
            n == Len(accepted)
<1>1. accepted \in Seq(Header) /\ accepted # <<>> /\ n \in Nat \ {0}
  <2>1. epc = "loop"
    BY DEF Reject
  <2>2. accepted \in Seq(Header) /\ accepted # <<>>
    BY <2>1, HeaderStack DEF ArchiveInv, OrderInv, Told
  <2>. QED  BY <2>2, EmptySeq
<1>2. arg \in Seq(Header) /\ Len(arg) = 1
  <2>1. epc = "loop" /\ next # Nil
    BY DEF Reject
  <2>. QED  BY <2>1 DEF ArchiveInv, OrderInv, Handed, IInv, TypeOK, HeadersReady
<1>3. /\ g \in Seq(Header) /\ Len(g) = n + 1
      /\ \A i \in 1 .. n : g[i] = accepted[i]
  <2>1. PICK h \in Header : arg = <<h>>
    BY <1>2, OneElement
  <2>2. g \in Seq(Header) /\ Len(g) = n + 1
    BY <1>1, <2>1
  <2>3. \A i \in 1 .. n : g[i] = accepted[i]
    BY <1>1, <2>1
  <2>. QED  BY <2>2, <2>3
<1>4. Begins(g)
  OBVIOUS
<1>. HIDE DEF g
<1>5. g # <<>>
  BY <1>1, <1>3, EmptySeq
<1>6. \A k \in 1 .. Len(g) - 1 : FollowsAt(g, k)
  BY <1>3, <1>4, <1>5, BeginsOrderly
<1>. HIDE DEF n
<1>7. \A k \in 1 .. n : FollowsAt(g, k)
  BY <1>1, <1>3, <1>6
<1>8. ~ Repeats(accepted)
  <2>. SUFFICES ASSUME NEW i \in 2 .. n PROVE accepted[i].path # accepted[i - 1].path
    BY DEF Repeats, n
  <2>1. i - 1 \in 1 .. n /\ i \in 1 .. n /\ (i - 1) + 1 = i
    BY <1>1
  <2>2. g[i - 1].path # g[(i - 1) + 1].path
    BY <1>7, <2>1 DEF FollowsAt
  <2>. QED  BY <1>3, <2>1, <2>2
<1>9. FollowsAt(g, n)
  BY <1>1, <1>7
<1>. QED  BY <1>8, <1>9, RejectedNotNext DEF g, n

LEMMA RefusedNotBegun ==
  ASSUME ArchiveInv, Place, arg \in Seq(PlainHeader), Refuse
  PROVE  ~ Begins(accepted \o arg)
<1>. SUFFICES ASSUME Begins(accepted \o arg) PROVE FALSE
  OBVIOUS
<1>1. CASE First
  <2>1. /\ epc = "first" /\ accepted = <<>> /\ cpc = "sendHeader" /\ arg[1].path # <<>>
    <3>1. epc = "first" /\ accepted = <<>>
      BY <1>1 DEF First, ArchiveInv, OrderInv, Told
    <3>2. ~ (closed /\ UNCHANGED cpc)
      BY <3>1 DEF Refuse, ArchiveInv, OrderInv, Handed
    <3>. QED  BY <1>1, <3>1, <3>2 DEF First, Refuse
  <2>2. arg \in Seq(Header) /\ Len(arg) = 1
    BY <2>1 DEF ArchiveInv, IInv, TypeOK, HeadersReady
  <2>3. accepted \o arg = arg /\ arg # <<>>
    BY <2>1, <2>2
  <2>. QED  BY <2>1, <2>2, <2>3, BeginsOrderly
<1>2. CASE stack = <<>> /\ Return
  BY <1>2 DEF Refuse, Return, Place, Running, PassedUp
<1>. QED  BY <1>1, <1>2, RejectedNotBegun DEF Refuse

\* No name of the caller's paths starts with two dots.
Undotted == \A h \in Headers : Plain(h.path)

\* The headers of a tree, written in its order, are never refused.
RefusedOnlyStrangers == [][Refuse => ~ Begins(accepted \o arg)]_vars

\* WriteHeader refuses a header only if no archive goes on with it: a caller
\* that passes the headers of a tree in its order, directories first, gets an
\* error only for a write that failed, or for the bytes of a file it still
\* owes.  Without the hypothesis it is false (finding NarWriterDots).
THEOREM TreesAreAccepted ==
  ASSUME CleanPaths, Undotted
  PROVE  Spec => RefusedOnlyStrangers
<1>. DEFINE PlainArg == arg \in Seq(PlainHeader)
<1>1. Init => PlainArg
  BY DEF Init, Nil
<1>2. PlainArg /\ IInv /\ [Next]_vars => PlainArg'
  <2>. SUFFICES ASSUME PlainArg, IInv, [Next]_vars PROVE PlainArg'
    OBVIOUS
  <2>1. arg' = arg \/ \E h \in Headers : arg' = <<h>>
    BY DEF Next, Library, First, EmitNode, HeaderDone, Receive, Leave, Reject, Enter, Return,
           TakeError, CloseReturns, WriteHeader, Write, Close, vars, caller
  <2>2. Headers \subseteq PlainHeader
    BY NarWriterAssumption DEF CleanPaths, Undotted, PlainHeader, ProperHeader
  <2>3. ASSUME NEW h \in Headers, arg' = <<h>> PROVE PlainArg'
    <3>1. h \in PlainHeader
      BY <2>2
    <3>. QED  BY <2>3, <3>1
  <2>4. CASE arg' = arg
    BY <2>4
  <2>. QED  BY <2>1, <2>3, <2>4
<1>3. ArchiveInv /\ Place /\ PlainArg /\ [Next]_vars => Place'
  <2>1. ArchiveInv => IInv /\ OrderInv /\ TypeOK
    BY DEF ArchiveInv, IInv
  <2>. QED  BY <2>1, NextIsClean, StepPlace
<1>4. ArchiveInv => IInv
  BY DEF ArchiveInv
<1>5. ArchiveInv /\ Place /\ PlainArg => (Refuse => ~ Begins(accepted \o arg))
  BY RefusedNotBegun
<1>. QED  BY InitPlace, ArchiveInvariance, <1>1, <1>2, <1>3, <1>4, <1>5, PTL
          DEF Spec, RefusedOnlyStrangers
-----------------------------------------------------------------------------
(* DumpPath.  Only Close ends the emitter without a header, and it is      *)
(* called once: behind it the walk only waits, and comes back when the     *)
(* emitter has ended.  WalkInv says so of every point behind the call.     *)

Waiting == cpc = "closing" /\ dpc = "close"
Over == cpc = "idle" /\ epc = "exited"

WalkInv ==
  /\ cpc = "closing" => dpc = "close"
  /\ dpc \in {"close", "returned"} => Waiting \/ Over
\* The goroutine is in its end for good, and no step of the library but the
\* return of Close is taken then; the library never calls Close itself.
LEMMA LibrarySteps ==
  ASSUME Library
  PROVE  /\ epc = "exited" => cpc = "closing" /\ cpc' = "idle" /\ epc' = "exited"
         /\ cpc' = "closing" => cpc = "closing"
         /\ cpc = "closing" /\ cpc' # "closing" => cpc' = "idle" /\ epc' = "exited"
         /\ cpc = "idle" => cpc' = "idle"
  <1>1. CASE First   BY <1>1 DEF First
  <1>2. CASE EmitNode   BY <1>2 DEF EmitNode, caller
  <1>3. CASE HeaderDone   BY <1>3 DEF HeaderDone
  <1>4. CASE Receive   BY <1>4 DEF Receive
  <1>5. CASE Leave   BY <1>5 DEF Leave, caller
  <1>6. CASE Reject   BY <1>6 DEF Reject, caller
  <1>7. CASE Enter   BY <1>7 DEF Enter, caller
  <1>8. CASE Return   BY <1>8 DEF Return, caller
  <1>9. CASE TakeError   BY <1>9 DEF TakeError
  <1>10. CASE CloseReturns   BY <1>10 DEF CloseReturns, emitter
  <1> QED  BY <1>1, <1>2, <1>3, <1>4, <1>5, <1>6, <1>7, <1>8, <1>9, <1>10 DEF Library

LEMMA WalkInit == DumpInit => WalkInv
  BY DEF DumpInit, Init, WalkInv

LEMMA WalkNext ==
  ASSUME WalkInv, [DumpNext]_dumpVars
  PROVE  WalkInv'
  <1> USE DEF WalkInv, Waiting, Over
  <1>1. CASE Lstat   BY <1>1 DEF Lstat, Breaks, Abort, At, vars
  <1>2. CASE SendHeader
    BY <1>2 DEF SendHeader, WriteHeader, Breaks, Abort, At, vars, emitter
  <1>3. CASE HeaderSent   BY <1>3 DEF HeaderSent, Abort, At, vars
  <1>4. CASE List   BY <1>4 DEF List, Breaks, Abort, At, vars
  <1>5. CASE Open   BY <1>5 DEF Open, Breaks, Abort, At, vars
  <1>6. CASE Copy   BY <1>6 DEF Copy, Breaks, Abort, At, dump, caller
  <1>7. CASE CloseWriter   BY <1>7 DEF CloseWriter, Close
  <1>8. CASE DumpReturn   BY <1>8 DEF DumpReturn, At, vars
  <1>9. CASE Emitter
    BY <1>9, LibrarySteps DEF Emitter, dump
  <1>10. CASE Change   BY <1>10 DEF Change, vars, dump
  <1>11. CASE UNCHANGED dumpVars   BY <1>11 DEF dumpVars, vars, dump
  <1> QED
    BY <1>1, <1>2, <1>3, <1>4, <1>5, <1>6, <1>7, <1>8, <1>9, <1>10, <1>11 DEF DumpNext, Walk

\* When DumpPath returns, with an error or without, wherever the walk was
\* broken off, the goroutine that NewWriter started has ended.
THEOREM Stopped == DumpSpec => []GoroutineStopped
  <1>1. WalkInv => GoroutineStopped
    BY DEF WalkInv, Waiting, Over, GoroutineStopped
  <1> QED
    BY WalkInit, WalkNext, <1>1, PTL DEF DumpSpec

-----------------------------------------------------------------------------
(* DumpPath.  The walk sends no path twice, so that without an error it    *)
(* leaves an archive.  What is still to be dumped is never above or below  *)
(* what was sent last, nor is one of the paths above another.              *)

ProperPath == {p \in Seq(Strings) : Proper(p)}

Apart(s) == \A i, j \in 1 .. Len(s) : i # j => ~ IsPrefixOf(s[i], s[j])
Beside(s, l) == \A i \in 1 .. Len(s) : ~ IsPrefixOf(s[i], l)

Sending == cpc \in {"sendHeader", "select"}

DumpType ==
  /\ fs \in FileSystems
  /\ todo \in Seq(ProperPath)
  /\ dpc \in {"node", "sent", "list", "open", "copy"} =>
       node \in Node /\ node.type \in Types /\ todo # <<>>
  /\ opened \in Nat

\* An error of the Writer reaches the caller of DumpPath.
Honest ==
  /\ Sending => dpc = "sent" /\ arg[1].path = Head(todo)
  /\ result # "none" => dpc \in {"close", "returned"}
  /\ result = "ok" => dpc = "returned" /\ ~ refused
  /\ refused => \/ dpc = "sent" /\ outcome = "error" /\ cpc = "idle"
                \/ dpc = "abort" \/ result = "error"
                \/ dpc = "close" /\ outcome = "error" /\ cpc = "idle"
  /\ dpc \in {"close", "returned"} => closed

Fresh ==
  /\ Apart(todo)
  /\ (dpc \in {"walk", "node"} \/ Sending) /\ accepted # <<>> => Beside(todo, Last)
  /\ dpc \in {"list", "open", "copy"} \/ (dpc = "sent" /\ cpc = "idle" /\ outcome = "ok") =>
       accepted # <<>> /\ Last = Head(todo)
  /\ ~ Repeats(accepted)

DumpInv == ArchiveInv /\ WalkInv /\ DumpType /\ Honest /\ Fresh

LEMMA ApartTail ==
  ASSUME NEW s \in Seq(ProperPath), s # <<>>, Apart(s)
  PROVE  /\ Tail(s) \in Seq(ProperPath) /\ Apart(Tail(s))
         /\ Head(s) \in ProperPath /\ Beside(Tail(s), Head(s))
         /\ \A l : Beside(s, l) => Beside(Tail(s), l)
<1>. DEFINE r == Tail(s)
            n == Len(s)
<1>1. /\ r \in Seq(ProperPath) /\ Len(r) = n - 1 /\ n \in Nat \ {0}
      /\ Head(s) = s[1] /\ Head(s) \in ProperPath
  OBVIOUS
<1>2. \A i \in 1 .. n - 1 : r[i] = s[i + 1] /\ i + 1 \in 1 .. n /\ i + 1 # 1
  BY <1>1
<1>. HIDE DEF r
<1>3. Apart(r)
  <2>. SUFFICES ASSUME NEW i \in 1 .. n - 1, NEW j \in 1 .. n - 1, i # j
                PROVE  ~ IsPrefixOf(r[i], r[j])
    BY <1>1 DEF Apart
  <2>1. i + 1 # j + 1
    OBVIOUS
  <2>. QED  BY <1>2, <2>1 DEF Apart
<1>4. Beside(r, Head(s))
  <2>1. 1 \in 1 .. n
    BY <1>1
  <2>. QED  BY <1>1, <1>2, <2>1 DEF Apart, Beside
<1>5. \A l : Beside(s, l) => Beside(r, l)
  BY <1>1, <1>2 DEF Beside
<1>. QED  BY <1>1, <1>3, <1>4, <1>5 DEF r

\* The entries of a directory take its place.
LEMMA ApartEntries ==
  ASSUME NEW s \in Seq(ProperPath), s # <<>>, Apart(s),
         NEW c \in Seq(ProperPath),
         \A i \in 1 .. Len(c) : Len(c[i]) = Len(Head(s)) + 1 /\ IsPrefixOf(Head(s), c[i]),
         \A i, j \in 1 .. Len(c) : i # j => c[i] # c[j]
  PROVE  /\ c \o Tail(s) \in Seq(ProperPath) /\ Apart(c \o Tail(s))
         /\ Beside(c \o Tail(s), Head(s))
<1>. DEFINE r == Tail(s)
            p == Head(s)
            g == c \o r
            k == Len(c)
<1>1. r \in Seq(ProperPath) /\ Apart(r) /\ p \in ProperPath /\ Beside(r, p)
  BY ApartTail
<1>2. \A i \in 1 .. Len(r) : r[i] = s[i + 1] /\ i + 1 \in 1 .. Len(s) /\ i + 1 # 1
  OBVIOUS
<1>3. p = s[1] /\ 1 \in 1 .. Len(s)
  OBVIOUS
<1>4. p \in Seq(Strings) /\ Len(p) \in Nat /\ k \in Nat /\ Len(r) \in Nat
  BY <1>1 DEF ProperPath
<1>5. \A i \in 1 .. Len(r) : ~ IsPrefixOf(p, r[i]) /\ ~ IsPrefixOf(r[i], p)
  BY <1>1, <1>2, <1>3 DEF Apart, Beside
<1>. HIDE DEF r, p
<1>6. /\ g \in Seq(ProperPath) /\ Len(g) = k + Len(r)
      /\ \A i \in 1 .. k : g[i] = c[i]
      /\ \A i \in 1 .. Len(g) : i \in 1 .. k \/ (i - k \in 1 .. Len(r) /\ g[i] = r[i - k])
  <2>1. g \in Seq(ProperPath) /\ Len(g) = k + Len(r)
    BY <1>1
  <2>2. \A i \in 1 .. k : g[i] = c[i]
    BY <1>1
  <2>3. \A i \in 1 .. Len(g) : i \in 1 .. k \/ (i - k \in 1 .. Len(r) /\ g[i] = r[i - k])
    BY <1>1, <1>4
  <2>. QED  BY <2>1, <2>2, <2>3
<1>. HIDE DEF g
<1>7. /\ \A i \in 1 .. k : c[i] \in Seq(Strings) /\ Len(c[i]) = Len(p) + 1 /\ IsPrefixOf(p, c[i])
      /\ \A i \in 1 .. Len(r) : r[i] \in Seq(Strings)
  <2>1. \A i \in 1 .. k : c[i] \in ProperPath
    BY ElementOf
  <2>2. \A i \in 1 .. Len(r) : r[i] \in ProperPath
    BY <1>1, ElementOf
  <2>. QED  BY <2>1, <2>2 DEF ProperPath, p
<1>8. ASSUME NEW i \in 1 .. k, NEW j \in 1 .. k, i # j, IsPrefixOf(c[i], c[j]) PROVE FALSE
  <2>. DEFINE x == c[i]
              y == c[j]
  <2>1. x \in Seq(Strings) /\ y \in Seq(Strings) /\ Len(x) = Len(y) /\ IsPrefixOf(x, y)
    BY <1>7, <1>8
  <2>. HIDE DEF x, y
  <2>2. \A m \in 1 .. Len(x) : x[m] = y[m]
    BY <2>1, PrefixIs
  <2>3. x = y
    BY <2>1, <2>2, SeqEqual
  <2>. QED  BY <1>8, <2>3 DEF x, y
<1>9. ASSUME NEW i \in 1 .. k, NEW j \in 1 .. Len(r), IsPrefixOf(c[i], r[j]) PROVE FALSE
  BY <1>4, <1>5, <1>7, <1>9, PrefixTransitive
<1>10. ASSUME NEW i \in 1 .. Len(r), NEW j \in 1 .. k, IsPrefixOf(r[i], c[j]) PROVE FALSE
  <2>. DEFINE x == r[i]
              y == c[j]
  <2>1. x \in Seq(Strings) /\ y \in Seq(Strings) /\ IsPrefixOf(p, y) /\ Len(y) = Len(p) + 1
        /\ IsPrefixOf(x, y) /\ ~ IsPrefixOf(p, x) /\ ~ IsPrefixOf(x, p)
    BY <1>5, <1>7, <1>10
  <2>. HIDE DEF x, y
  <2>2. /\ Len(x) \in Nat /\ Len(x) <= Len(p) + 1
        /\ \A m \in 1 .. Len(x) : x[m] = y[m]
        /\ \A m \in 1 .. Len(p) : p[m] = y[m]
    BY <1>4, <2>1, PrefixIs
  <2>3. CASE Len(x) <= Len(p)
    <3>1. \A m \in 1 .. Len(x) : x[m] = p[m]
      BY <1>4, <2>2, <2>3
    <3>. QED  BY <1>4, <2>1, <2>3, <3>1, PrefixIs
  <2>4. CASE Len(x) = Len(p) + 1
    <3>1. Len(p) <= Len(x) /\ \A m \in 1 .. Len(p) : p[m] = x[m]
      BY <1>4, <2>2, <2>4
    <3>. QED  BY <1>4, <2>1, <3>1, PrefixIs
  <2>. QED  BY <1>4, <2>2, <2>3, <2>4
<1>11. Apart(g)
  <2>. SUFFICES ASSUME NEW i \in 1 .. Len(g), NEW j \in 1 .. Len(g), i # j, IsPrefixOf(g[i], g[j])
                PROVE  FALSE
    BY DEF Apart
  <2>1. CASE i \in 1 .. k /\ j \in 1 .. k
    BY <1>6, <1>8, <2>1
  <2>2. CASE i \in 1 .. k /\ j \notin 1 .. k
    <3>1. j - k \in 1 .. Len(r) /\ g[j] = r[j - k] /\ g[i] = c[i]
      BY <1>6, <2>2
    <3>. QED  BY <1>9, <2>2, <3>1
  <2>3. CASE i \notin 1 .. k /\ j \in 1 .. k
    <3>1. i - k \in 1 .. Len(r) /\ g[i] = r[i - k] /\ g[j] = c[j]
      BY <1>6, <2>3
    <3>. QED  BY <1>10, <2>3, <3>1
  <2>4. CASE i \notin 1 .. k /\ j \notin 1 .. k
    <3>1. i - k \in 1 .. Len(r) /\ g[i] = r[i - k] /\ j - k \in 1 .. Len(r) /\ g[j] = r[j - k]
      BY <1>6, <2>4
    <3>2. i - k # j - k
      BY <1>4
    <3>. QED  BY <1>1, <3>1, <3>2 DEF Apart
  <2>. QED  BY <2>1, <2>2, <2>3, <2>4
<1>12. Beside(g, p)
  <2>. SUFFICES ASSUME NEW i \in 1 .. Len(g), IsPrefixOf(g[i], p) PROVE FALSE
    BY DEF Beside
  <2>1. CASE i \in 1 .. k
    <3>1. Len(g[i]) = Len(p) + 1 /\ Len(g[i]) <= Len(p)
      BY <1>6, <1>7, <2>1 DEF IsPrefixOf
    <3>. QED  BY <1>4, <3>1
  <2>2. CASE i \notin 1 .. k
    BY <1>5, <1>6, <2>2
  <2>. QED  BY <2>1, <2>2
<1>. QED  BY <1>6, <1>11, <1>12 DEF g, r, p

\* What ReadDir returns: the entries of p, each once.
LEMMA EntriesOf ==
  ASSUME CleanFiles, fs \in FileSystems, NEW p \in ProperPath,
         NEW c \in Seqs!SetToSeqs(Children(p))
  PROVE  /\ c \in Seq(ProperPath)
         /\ \A i \in 1 .. Len(c) : Len(c[i]) = Len(p) + 1 /\ IsPrefixOf(p, c[i])
         /\ \A i, j \in 1 .. Len(c) : i # j => c[i] # c[j]
<1>. DEFINE C == Children(p)
            n == Cardinality(C)
<1>1. n \in Nat
  <2>1. IsFiniteSet(DOMAIN fs)
    BY DumpPathAssumption
  <2>2. C \subseteq DOMAIN fs
    BY DEF Children
  <2>. HIDE DEF C
  <2>3. IsFiniteSet(C)
    BY <2>1, <2>2, FS_Subset
  <2>. QED  BY <2>3, FS_CardinalityType
<1>2. c \in [1 .. n -> C] /\ \A i, j \in 1 .. n : i # j => c[i] # c[j]
  <2>1. Seqs!Cardinality(C) = n
    BY DEF Seqs!Cardinality, Cardinality
  <2>. HIDE DEF C, n
  <2>2. c \in Seqs!SetToSeqs(C)
    BY DEF C
  <2>. QED  BY <2>1, <2>2 DEF Seqs!SetToSeqs
<1>3. \A q \in C : q \in ProperPath /\ Len(q) = Len(p) + 1 /\ IsPrefixOf(p, q)
  BY DumpPathAssumption DEF Children, CleanFiles, ProperPath
<1>. HIDE DEF C, n
<1>4. c \in Seq(C) /\ Len(c) = n
  BY <1>1, <1>2
<1>5. C \subseteq ProperPath
  BY <1>3
<1>6. c \in Seq(ProperPath)
  <2>1. \A i \in 1 .. n : c[i] \in ProperPath
    BY <1>2, <1>5
  <2>2. c \in [1 .. n -> ProperPath]
    BY <1>2, <2>1
  <2>. QED  BY <1>1, <2>2
<1>. QED  BY <1>2, <1>3, <1>4, <1>6

LEMMA RepeatsGrows ==
  ASSUME NEW hs \in Seq(Header), NEW h \in Header, ~ Repeats(hs),
         hs # <<>> => LastOf(hs) # h.path
  PROVE  ~ Repeats(Append(hs, h))
<1>. DEFINE g == Append(hs, h)
            n == Len(hs)
<1>1. /\ Len(g) = n + 1 /\ g[n + 1] = h /\ \A i \in 1 .. n : g[i] = hs[i]
      /\ n \in Nat
  OBVIOUS
<1>. HIDE DEF g
<1>2. ASSUME NEW i \in 2 .. n + 1 PROVE g[i].path # g[i - 1].path
  <2>1. CASE i \in 2 .. n
    <3>1. i \in 1 .. n /\ i - 1 \in 1 .. n
      BY <1>1, <2>1
    <3>. QED  BY <1>1, <2>1, <3>1 DEF Repeats
  <2>2. CASE i = n + 1
    <3>1. hs # <<>> /\ i - 1 = n /\ n \in 1 .. n
      BY <1>1, <2>2
    <3>. QED  BY <1>1, <2>2, <3>1 DEF LastOf
  <2>. QED  BY <1>1, <2>1, <2>2
<1>. QED  BY <1>1, <1>2 DEF Repeats, g

-----------------------------------------------------------------------------
(* The steps of DumpPath, as the Writer sees them. *)

LEMMA HeaderSentIsProper ==
  ASSUME DumpType, dpc = "node", NEW h,
         h = HeaderOf(Head(todo), node)
  PROVE  h \in ProperHeader /\ h.path = Head(todo)
<1>1. todo \in Seq(ProperPath) /\ todo # <<>> /\ node \in Node /\ node.type \in Types
  BY DEF DumpType
<1>2. Head(todo) \in ProperPath
  BY <1>1
<1>3. node.size \in Nat /\ node.exec \in BOOLEAN
  BY <1>1 DEF Node
<1>4. (IF node.type = "regular" THEN node.size ELSE 0) \in Nat
  BY <1>3
<1>5. (node.type = "regular" /\ node.exec) \in BOOLEAN
  BY <1>3
<1>. QED  BY <1>1, <1>2, <1>4, <1>5 DEF ProperPath, ProperHeader, Header, HeaderOf

LEMMA CopyWrites ==
  ASSUME TypeOK, DumpType, Copy
  PROVE  Writes
<1>1. /\ cpc = "idle" /\ UNCHANGED <<out, stack, epc, next, caller>>
      /\ opened \in Nat /\ body \in [total : Nat, written : Nat]
  BY DEF Copy, At, DumpType, TypeOK
<1>2. \/ body' = body
      \/ \E n \in 1 .. opened - body.written : body' = [body EXCEPT !.written = @ + n]
  BY DEF Copy
<1>3. ASSUME NEW n \in 1 .. opened - body.written, body' = [body EXCEPT !.written = @ + n]
      PROVE  body' \in [total : Nat, written : Nat]
  <2>1. body.written \in Nat
    BY <1>1
  <2>2. n \in Nat
    BY <1>1, <2>1
  <2>3. body.written + n \in Nat
    BY <2>1, <2>2
  <2>. QED  BY <1>1, <1>3, <2>3
<1>. QED  BY <1>1, <1>2, <1>3 DEF Writes

LEMMA DumpIsClean ==
  ASSUME TypeOK, DumpType, [DumpNext]_dumpVars
  PROVE  CleanStep
<1>1. CASE SendHeader
  <2>1. UNCHANGED vars \/ \E h \in ProperHeader : WriteHeader(h)
    BY <1>1, HeaderSentIsProper DEF SendHeader, At
  <2>. QED  BY <2>1 DEF CleanStep
<1>2. CASE Copy
  BY <1>2, CopyWrites DEF CleanStep
<1>3. CASE Emitter \/ CloseWriter
  BY <1>3 DEF Emitter, CloseWriter, CleanStep
<1>4. CASE Lstat \/ HeaderSent \/ List \/ Open \/ DumpReturn \/ Change \/ UNCHANGED dumpVars
  BY <1>4 DEF Lstat, HeaderSent, List, Open, DumpReturn, Change, dumpVars, CleanStep
<1>. QED  BY <1>1, <1>2, <1>3, <1>4 DEF DumpNext, Walk

\* What the emitter does to the caller.
LEMMA LibraryCaller ==
  ASSUME Library
  PROVE  /\ UNCHANGED <<arg, closed>>
         /\ cpc = "idle" => cpc' = "idle"
         /\ Sending' => Sending
         /\ cpc = cpc' \/ cpc # "idle"
         /\ \/ /\ cpc = "select" /\ cpc' = "idle" /\ accepted' = Append(accepted, arg[1])
               /\ outcome' = "ok" /\ UNCHANGED refused
            \/ /\ cpc \in {"select", "closing"} /\ cpc' = "idle" /\ outcome' = "error"
               /\ refused' = TRUE /\ UNCHANGED accepted
            \/ /\ cpc = "closing" /\ cpc' = "idle" /\ UNCHANGED <<accepted, refused>>
            \/ /\ UNCHANGED <<accepted, refused, outcome>>
               /\ cpc' = cpc \/ (cpc = "sendHeader" /\ cpc' = "select")
<1>. USE DEF Sending
<1>1. CASE First   BY <1>1 DEF First
<1>2. CASE EmitNode   BY <1>2 DEF EmitNode, caller
<1>3. CASE HeaderDone   BY <1>3 DEF HeaderDone
<1>4. CASE Receive   BY <1>4 DEF Receive
<1>5. CASE Leave   BY <1>5 DEF Leave, caller
<1>6. CASE Reject   BY <1>6 DEF Reject, caller
<1>7. CASE Enter   BY <1>7 DEF Enter, caller
<1>8. CASE Return   BY <1>8 DEF Return, caller
<1>9. CASE TakeError   BY <1>9 DEF TakeError
<1>10. CASE CloseReturns   BY <1>10 DEF CloseReturns, emitter
<1>. QED  BY <1>1, <1>2, <1>3, <1>4, <1>5, <1>6, <1>7, <1>8, <1>9, <1>10 DEF Library

LEMMA EmitterDump ==
  ASSUME DumpInv, Emitter, accepted' \in Seq(ProperHeader)
  PROVE  DumpType' /\ Honest' /\ Fresh'
<1>1. Library /\ UNCHANGED <<fs, opened, omit, todo, dpc, node, result>>
  BY DEF Emitter, dump
<1>2. DumpType'
  BY <1>1 DEF DumpInv, DumpType
<1>. DEFINE h == arg[1]
            Done == /\ cpc = "select" /\ cpc' = "idle" /\ accepted' = Append(accepted, h)
                    /\ outcome' = "ok" /\ UNCHANGED refused
            Erred == /\ cpc \in {"select", "closing"} /\ cpc' = "idle" /\ outcome' = "error"
                     /\ refused' = TRUE /\ UNCHANGED accepted
            Back == cpc = "closing" /\ cpc' = "idle" /\ UNCHANGED <<accepted, refused>>
            Inner_ == /\ UNCHANGED <<accepted, refused, outcome>>
                      /\ cpc' = cpc \/ (cpc = "sendHeader" /\ cpc' = "select")
<1>3. UNCHANGED <<arg, closed>> /\ (Done \/ Erred \/ Back \/ Inner_)
  BY <1>1, LibraryCaller
<1>4. /\ Sending => dpc = "sent" /\ h.path = Head(todo)
      /\ cpc = "closing" => dpc = "close"
      /\ result # "none" => dpc \in {"close", "returned"}
      /\ result = "ok" => dpc = "returned" /\ ~ refused /\ cpc = "idle"
      /\ refused => \/ dpc = "sent" /\ outcome = "error" /\ cpc = "idle"
                    \/ dpc = "abort" \/ result = "error"
                    \/ dpc = "close" /\ outcome = "error" /\ cpc = "idle"
      /\ dpc \in {"close", "returned"} => closed
  BY DEF DumpInv, Honest, WalkInv, Waiting, Over
<1>5. /\ Apart(todo) /\ ~ Repeats(accepted)
      /\ (dpc \in {"walk", "node"} \/ Sending) /\ accepted # <<>> => Beside(todo, Last)
      /\ dpc \in {"list", "open", "copy"} \/ (dpc = "sent" /\ cpc = "idle" /\ outcome = "ok") =>
           accepted # <<>> /\ Last = Head(todo)
  BY DEF DumpInv, Fresh
<1>6. CASE Done
  <2>1. Honest'
    BY <1>1, <1>3, <1>4, <1>6 DEF Honest, Sending
  <2>2. /\ accepted \in Seq(ProperHeader) /\ accepted \in Seq(Header)
        /\ todo \in Seq(ProperPath) /\ todo # <<>>
    BY <1>4, <1>6 DEF DumpInv, ArchiveInv, OrderInv, ProperType, IInv, TypeOK, DumpType, Sending
  <2>3. dpc = "sent" /\ h.path = Head(todo)
    BY <1>4, <1>6 DEF Sending
  <2>4. h \in Header
    <3>1. arg \in Seq(Header) /\ Len(arg) = 1
      BY <1>6 DEF DumpInv, ArchiveInv, IInv, TypeOK, HeadersReady
    <3>. QED  BY <3>1, OneElement
  <2>5. accepted # <<>> => Last # h.path
    <3>. SUFFICES ASSUME accepted # <<>>, Last = h.path PROVE FALSE
      OBVIOUS
    <3>1. Beside(todo, Last)
      BY <1>5, <1>6 DEF Sending
    <3>2. 1 \in 1 .. Len(todo) /\ todo[1] = Head(todo)
      BY <2>2
    <3>3. Last \in Seq(Strings)
      BY LastIs DEF DumpInv, ArchiveInv, OrderInv
    <3>4. ~ IsPrefixOf(Last, Last)
      BY <2>3, <3>1, <3>2 DEF Beside
    <3>. QED  BY <3>3, <3>4, PrefixItself
  <2>6. ~ Repeats(accepted')
    BY <1>5, <1>6, <2>2, <2>4, <2>5, RepeatsGrows DEF Last
  <2>7. accepted' # <<>> /\ Last' = Head(todo)
    <3>1. Len(accepted') = Len(accepted) + 1 /\ accepted'[Len(accepted) + 1] = h
      BY <1>6, <2>2, <2>4
    <3>2. accepted' # <<>>
      BY <1>6, <2>2, <2>4, AppendProperties
    <3>. QED  BY <2>3, <3>1, <3>2 DEF Last, LastOf
  <2>8. Fresh'
    BY <1>1, <1>5, <1>6, <2>3, <2>6, <2>7 DEF Fresh, Sending
  <2>. QED  BY <1>2, <2>1, <2>8
<1>7. CASE ~ Done
  <2>1. UNCHANGED accepted
    BY <1>3, <1>7
  <2>2. Last' = Last
    BY <2>1 DEF Last
  <2>3. Honest'
    BY <1>1, <1>3, <1>4, <1>7 DEF Honest, Sending
  <2>4. Fresh'
    BY <1>1, <1>3, <1>4, <1>5, <1>7, <2>1, <2>2 DEF Fresh, Sending
  <2>. QED  BY <1>2, <2>3, <2>4
<1>. QED  BY <1>6, <1>7

\* The steps of the walk, and the changes of the files.
LEMMA LstatDump ==
  ASSUME DumpInv, Lstat
  PROVE  DumpType' /\ Honest' /\ Fresh'
<1>1. /\ dpc = "walk" /\ cpc = "idle" /\ todo # <<>>
      /\ UNCHANGED <<vars, fs, opened, result>>
      /\ \/ todo' = Tail(todo) /\ UNCHANGED <<dpc, node>>
         \/ node' = fs[Head(todo)] /\ node'.type \in Types /\ Head(todo) \in DOMAIN fs
            /\ dpc' = "node" /\ UNCHANGED todo
         \/ dpc' = "abort" /\ UNCHANGED <<todo, node>>
  BY DEF Lstat, At, Breaks, Abort
<1>2. UNCHANGED <<cpc, arg, closed, accepted, refused, outcome>>
  BY <1>1 DEF vars
<1>3. todo \in Seq(ProperPath) /\ Apart(todo) /\ fs \in FileSystems
  BY DEF DumpInv, DumpType, Fresh
<1>4. /\ Tail(todo) \in Seq(ProperPath) /\ Apart(Tail(todo))
      /\ \A l : Beside(todo, l) => Beside(Tail(todo), l)
  BY <1>1, <1>3, ApartTail
<1>5. DumpType'
  <2>1. \A p \in DOMAIN fs : fs[p] \in Node
    BY <1>3, DumpPathAssumption
  <2>. QED  BY <1>1, <1>3, <1>4, <2>1 DEF DumpInv, DumpType
<1>6. Honest'
  BY <1>1, <1>2 DEF DumpInv, Honest, Sending
<1>7. Last' = Last
  BY <1>2 DEF Last
<1>8. Fresh'
  BY <1>1, <1>2, <1>3, <1>4, <1>7 DEF DumpInv, Fresh, Sending
<1>. QED  BY <1>5, <1>6, <1>8

LEMMA SendHeaderDump ==
  ASSUME DumpInv, SendHeader
  PROVE  DumpType' /\ Honest' /\ Fresh'
<1>1. /\ dpc = "node" /\ cpc = "idle" /\ UNCHANGED <<fs, opened, todo, node, result>>
      /\ \/ dpc' = "sent" /\ \E h \in ProperHeader : h.path = Head(todo) /\ WriteHeader(h)
         \/ dpc' = "abort" /\ UNCHANGED vars
  <2>1. DumpType
    BY DEF DumpInv
  <2>. QED  BY <2>1, HeaderSentIsProper DEF SendHeader, At, Breaks, Abort
<1>2. DumpType'
  BY <1>1 DEF DumpInv, DumpType
<1>3. ~ refused /\ result = "none"
  BY <1>1 DEF DumpInv, Honest
<1>4. Beside(todo, Last) \/ accepted = <<>>
  BY <1>1 DEF DumpInv, Fresh
<1>5. CASE dpc' = "abort" /\ UNCHANGED vars
  <2>1. UNCHANGED <<cpc, arg, closed, accepted, refused, outcome>>
    BY <1>5 DEF vars
  <2>2. Honest' /\ Last' = Last
    BY <1>1, <1>5, <2>1 DEF DumpInv, Honest, Sending, Last
  <2>3. Fresh'
    BY <1>1, <1>5, <2>1, <2>2 DEF DumpInv, Fresh, Sending
  <2>. QED  BY <1>2, <2>2, <2>3
<1>6. CASE dpc' = "sent" /\ \E h \in ProperHeader : h.path = Head(todo) /\ WriteHeader(h)
  <2>1. PICK h \in ProperHeader : h.path = Head(todo) /\ WriteHeader(h)
    BY <1>6
  <2>2. /\ UNCHANGED <<closed, accepted, refused>>
        /\ \/ cpc' = "sendHeader" /\ arg' = <<h>>
           \/ cpc' = "idle" /\ outcome' = "error"
    BY <2>1 DEF WriteHeader
  <2>3. arg' = <<h>> => arg'[1].path = Head(todo)
    BY <2>1
  <2>4. Honest'
    BY <1>1, <1>3, <1>6, <2>2, <2>3 DEF Honest, Sending
  <2>5. Last' = Last
    BY <2>2 DEF Last
  <2>6. Fresh'
    BY <1>1, <1>4, <1>6, <2>2, <2>5 DEF DumpInv, Fresh, Sending
  <2>. QED  BY <1>2, <2>4, <2>6
<1>. QED  BY <1>1, <1>5, <1>6

LEMMA HeaderSentDump ==
  ASSUME DumpInv, HeaderSent
  PROVE  DumpType' /\ Honest' /\ Fresh'
<1>1. /\ dpc = "sent" /\ cpc = "idle" /\ UNCHANGED <<vars, fs, opened, node, result>>
      /\ \/ outcome = "error" /\ dpc' = "abort" /\ UNCHANGED todo
         \/ outcome = "ok" /\ dpc' = "walk" /\ todo' = Tail(todo)
         \/ outcome = "ok" /\ dpc' \in {"list", "open"} /\ UNCHANGED todo
  BY DEF HeaderSent, At, Abort
<1>2. UNCHANGED <<cpc, arg, closed, accepted, refused, outcome>>
  BY <1>1 DEF vars
<1>3. todo \in Seq(ProperPath) /\ Apart(todo) /\ todo # <<>>
  BY <1>1 DEF DumpInv, DumpType, Fresh
<1>4. /\ Tail(todo) \in Seq(ProperPath) /\ Apart(Tail(todo))
      /\ Beside(Tail(todo), Head(todo))
  BY <1>3, ApartTail
<1>5. DumpType'
  BY <1>1, <1>3, <1>4 DEF DumpInv, DumpType
<1>6. Honest'
  BY <1>1, <1>2 DEF DumpInv, Honest, Sending
<1>7. Last' = Last
  BY <1>2 DEF Last
<1>8. Fresh'
  BY <1>1, <1>2, <1>3, <1>4, <1>7 DEF DumpInv, Fresh, Sending
<1>. QED  BY <1>5, <1>6, <1>8

LEMMA ListDump ==
  ASSUME CleanFiles, DumpInv, List
  PROVE  DumpType' /\ Honest' /\ Fresh'
<1>. DEFINE p == Head(todo)
<1>1. /\ dpc = "list" /\ cpc = "idle" /\ UNCHANGED <<vars, fs, opened, node, result>>
      /\ \/ /\ dpc' = "walk"
            /\ \E s \in Seqs!SetToSeqs(Children(p)) : todo' = s \o Tail(todo)
         \/ dpc' = "abort" /\ UNCHANGED todo
  BY DEF List, At, Breaks, Abort
<1>2. UNCHANGED <<cpc, arg, closed, accepted, refused, outcome>>
  BY <1>1 DEF vars
<1>3. todo \in Seq(ProperPath) /\ Apart(todo) /\ todo # <<>> /\ fs \in FileSystems
  BY <1>1 DEF DumpInv, DumpType, Fresh
<1>4. accepted # <<>> /\ Last = p
  BY <1>1 DEF DumpInv, Fresh
<1>5. ASSUME dpc' = "walk"
      PROVE  todo' \in Seq(ProperPath) /\ Apart(todo') /\ Beside(todo', p)
  <2>1. PICK s \in Seqs!SetToSeqs(Children(p)) : todo' = s \o Tail(todo)
    BY <1>1, <1>5
  <2>2. p \in ProperPath
    BY <1>3
  <2>3. /\ s \in Seq(ProperPath)
        /\ \A i \in 1 .. Len(s) : Len(s[i]) = Len(p) + 1 /\ IsPrefixOf(p, s[i])
        /\ \A i, j \in 1 .. Len(s) : i # j => s[i] # s[j]
    BY <1>3, <2>2, EntriesOf
  <2>. QED  BY <1>3, <2>1, <2>3, ApartEntries
<1>6. DumpType'
  BY <1>1, <1>3, <1>5 DEF DumpInv, DumpType
<1>7. Honest'
  BY <1>1, <1>2 DEF DumpInv, Honest, Sending
<1>8. Last' = Last
  BY <1>2 DEF Last
<1>9. Fresh'
  BY <1>1, <1>2, <1>3, <1>4, <1>5, <1>8 DEF DumpInv, Fresh, Sending
<1>. QED  BY <1>6, <1>7, <1>9

LEMMA OpenDump ==
  ASSUME DumpInv, Open
  PROVE  DumpType' /\ Honest' /\ Fresh'
<1>1. /\ dpc = "open" /\ cpc = "idle" /\ dpc' \in {"copy", "abort"}
      /\ UNCHANGED <<vars, fs, todo, node, result>>
  BY DEF Open, At, Breaks, Abort
<1>2. UNCHANGED <<cpc, arg, closed, accepted, refused, outcome>>
  BY <1>1 DEF vars
<1>3. opened' \in Nat
  <2>1. \A q \in DOMAIN fs : fs[q].size \in Nat
    <3>1. \A q \in DOMAIN fs : fs[q] \in Node
      BY DumpPathAssumption DEF DumpInv, DumpType
    <3>. QED  BY <3>1 DEF Node
  <2>2. 0 .. MaxSize \subseteq Nat
    BY DumpPathAssumption
  <2>. QED  BY <2>1, <2>2 DEF Open, DumpInv, DumpType
<1>4. DumpType'
  BY <1>1, <1>3 DEF DumpInv, DumpType
<1>5. Honest' /\ Last' = Last
  BY <1>1, <1>2 DEF DumpInv, Honest, Sending, Last
<1>6. Fresh'
  BY <1>1, <1>2, <1>5 DEF DumpInv, Fresh, Sending
<1>. QED  BY <1>4, <1>5, <1>6

LEMMA CopyDump ==
  ASSUME DumpInv, Copy
  PROVE  DumpType' /\ Honest' /\ Fresh'
<1>1. /\ dpc = "copy" /\ cpc = "idle"
      /\ UNCHANGED <<caller, fs, opened, node, result>>
      /\ \/ todo' = Tail(todo) /\ dpc' = "walk"
         \/ UNCHANGED todo /\ dpc' \in {"copy", "abort"}
  BY DEF Copy, At, Breaks, Abort, dump
<1>2. UNCHANGED <<cpc, arg, closed, accepted, refused, outcome>>
  BY <1>1 DEF caller
<1>3. todo \in Seq(ProperPath) /\ Apart(todo) /\ todo # <<>>
  BY <1>1 DEF DumpInv, DumpType, Fresh
<1>4. /\ Tail(todo) \in Seq(ProperPath) /\ Apart(Tail(todo))
      /\ Beside(Tail(todo), Head(todo))
  BY <1>3, ApartTail
<1>5. DumpType'
  BY <1>1, <1>3, <1>4 DEF DumpInv, DumpType
<1>6. Honest' /\ Last' = Last
  BY <1>1, <1>2 DEF DumpInv, Honest, Sending, Last
<1>7. Fresh'
  BY <1>1, <1>2, <1>3, <1>4, <1>6 DEF DumpInv, Fresh, Sending
<1>. QED  BY <1>5, <1>6, <1>7

LEMMA CloseWriterDump ==
  ASSUME DumpInv, CloseWriter
  PROVE  DumpType' /\ Honest' /\ Fresh'
<1>1. /\ dpc \in {"walk", "abort"} /\ cpc = "idle" /\ dpc' = "close" /\ cpc' = "closing" /\ closed'
      /\ UNCHANGED <<fs, opened, todo, node, arg, accepted, refused, outcome>>
      /\ (dpc = "walk" /\ UNCHANGED result) \/ result' = "error"
  BY DEF CloseWriter, Close, At
<1>2. DumpType'
  BY <1>1 DEF DumpInv, DumpType
<1>3. Honest' /\ Last' = Last
  BY <1>1 DEF DumpInv, Honest, Sending, Last
<1>4. Fresh'
  BY <1>1, <1>3 DEF DumpInv, Fresh, Sending
<1>. QED  BY <1>2, <1>3, <1>4

LEMMA OtherDump ==
  ASSUME DumpInv, DumpReturn \/ Change \/ UNCHANGED dumpVars
  PROVE  DumpType' /\ Honest' /\ Fresh'
<1>1. UNCHANGED <<cpc, arg, closed, accepted, refused, outcome, todo, node>>
  BY DEF DumpReturn, Change, dumpVars, vars, dump
<1>2. CASE DumpReturn
  <2>1. /\ dpc = "close" /\ cpc = "idle" /\ dpc' = "returned" /\ UNCHANGED <<fs, opened>>
        /\ result' = IF result = "error" THEN result ELSE outcome
    BY <1>2 DEF DumpReturn, At
  <2>2. DumpType' /\ Honest' /\ Last' = Last
    BY <1>1, <2>1 DEF DumpInv, DumpType, Honest, Sending, Last
  <2>3. Fresh'
    BY <1>1, <2>1, <2>2 DEF DumpInv, Fresh, Sending
  <2>. QED  BY <2>2, <2>3
<1>3. CASE Change \/ UNCHANGED dumpVars
  <2>1. /\ fs' \in FileSystems /\ UNCHANGED <<dpc, result>>
        /\ opened' \in 0 .. MaxSize \/ opened' = opened
    BY <1>3 DEF Change, dumpVars, dump, DumpInv, DumpType
  <2>2. opened' \in Nat
    BY <2>1, DumpPathAssumption DEF DumpInv, DumpType
  <2>3. DumpType' /\ Honest' /\ Last' = Last
    BY <1>1, <2>1, <2>2 DEF DumpInv, DumpType, Honest, Sending, Last
  <2>4. Fresh'
    BY <1>1, <2>1, <2>3 DEF DumpInv, Fresh, Sending
  <2>. QED  BY <2>3, <2>4
<1>. QED  BY <1>2, <1>3

LEMMA DumpStep ==
  ASSUME CleanFiles, DumpInv, [DumpNext]_dumpVars
  PROVE  DumpInv'
<1>1. ArchiveInv'
  BY DumpIsClean, ArchiveStep DEF DumpInv, ArchiveInv, IInv
<1>2. WalkInv'
  BY WalkNext DEF DumpInv
<1>3. accepted' \in Seq(ProperHeader)
  BY <1>1 DEF ArchiveInv, OrderInv, ProperType
<1>4. DumpType' /\ Honest' /\ Fresh'
  BY <1>3, LstatDump, SendHeaderDump, HeaderSentDump, ListDump, OpenDump, CopyDump,
     CloseWriterDump, OtherDump, EmitterDump DEF DumpNext, Walk
<1>. QED  BY <1>1, <1>2, <1>4 DEF DumpInv

LEMMA DumpInitInv == DumpInit => DumpInv
<1>. SUFFICES ASSUME DumpInit PROVE DumpInv
  OBVIOUS
<1>1. Init /\ fs \in FileSystems /\ todo = <<<<>>>> /\ dpc = "walk" /\ opened = 0 /\ result = "none"
  BY DEF DumpInit
<1>2. ArchiveInv /\ WalkInv
  BY <1>1, ArchiveInit, WalkInit
<1>3. cpc = "idle" /\ accepted = <<>> /\ ~ refused
  BY <1>1 DEF Init
<1>4. <<>> \in ProperPath
  BY DEF ProperPath, Proper
<1>5. todo \in Seq(ProperPath) /\ Len(todo) = 1
  BY <1>1, <1>4
<1>6. DumpType
  BY <1>1, <1>5 DEF DumpType
<1>7. Honest
  BY <1>1, <1>3 DEF Honest, Sending
<1>8. Apart(todo)
  <2>1. \A i, j \in 1 .. 1 : i = j
    OBVIOUS
  <2>. QED  BY <1>5, <2>1 DEF Apart
<1>9. ~ Repeats(accepted)
  BY <1>3 DEF Repeats
<1>10. Fresh
  BY <1>1, <1>3, <1>8, <1>9 DEF Fresh, Sending
<1>. QED  BY <1>2, <1>6, <1>7, <1>10 DEF DumpInv

\* The invariant of DumpPath, for file systems with clean names.
THEOREM DumpInvariance == ASSUME CleanFiles PROVE DumpSpec => []DumpInv
<1>1. DumpInv /\ [DumpNext]_dumpVars => DumpInv'
  BY DumpStep
<1>. QED  BY DumpInitInv, <1>1, PTL DEF DumpSpec

\* However the files change under the walk, whatever is omitted and whatever
\* fails: when DumpPath returns no error, it has written one whole archive.
DumpLeavesArchive ==
  result = "ok" => IsArchive(accepted, out) /\ accepted # <<>> /\ accepted[1].path = <<>>

\* A DumpPath without an error leaves an archive.
THEOREM DumpedIsArchive == ASSUME CleanFiles PROVE DumpSpec => []DumpLeavesArchive
<1>1. DumpInv => DumpLeavesArchive
  <2>. SUFFICES ASSUME DumpInv, result = "ok"
                PROVE  IsArchive(accepted, out) /\ accepted # <<>> /\ accepted[1].path = <<>>
    BY DEF DumpLeavesArchive
  <2>1. epc = "exited" /\ ~ refused
    BY DEF DumpInv, Honest, WalkInv, Waiting, Over
  <2>2. ~ Repeats(accepted)
    BY DEF DumpInv, Fresh
  <2>3. IsArchive(accepted, out)
    BY <2>1, <2>2, ExitedIsArchive DEF DumpInv
  <2>4. accepted # <<>> /\ accepted[1].path = <<>>
    BY <2>1 DEF DumpInv, ArchiveInv, OrderInv, Told
  <2>. QED  BY <2>3, <2>4
<1>. QED  BY DumpInvariance, <1>1, PTL

-----------------------------------------------------------------------------
(* The order of the walk.  Queue says that todo is in the order of the     *)
(* tree, and that every path in it is an entry of a directory that the     *)
(* Writer has still open; the next header can then not be refused.         *)

FilePath == {p \in ProperPath : Plain(p) /\ \A i \in 1 .. Len(p) : p[i] \in FileNames}

Dir(p) == SubSeq(p, 1, Len(p) - 1)

\* The order in which the walk comes to the paths s: that of the tree, each
\* but the first an entry of a directory that is above the one before it.
Lined(s) ==
  /\ \A i, j \in 1 .. Len(s) : i < j => IsPrefixOf(Dir(s[j]), s[i])
  /\ \A i \in 1 .. Len(s) - 1 : TreeLeq(s[i], s[i + 1])

LEMMA FilePathIs ==
  /\ FilePath \subseteq ProperPath
  /\ \A p \in FilePath : p \in Seq(Strings) /\ Proper(p) /\ Plain(p) /\ Len(p) \in Nat
BY DEF FilePath, ProperPath

LEMMA DirAppend ==
  ASSUME NEW d \in Seq(Strings), NEW n \in Strings
  PROVE  Dir(Append(d, n)) = d
<1>. DEFINE q == Append(d, n)
            r == Dir(q)
<1>1. q \in Seq(Strings) /\ Len(q) = Len(d) + 1 /\ Len(d) \in Nat /\ \A i \in 1 .. Len(d) : q[i] = d[i]
  OBVIOUS
<1>2. r = SubSeq(q, 1, Len(d))
  BY <1>1 DEF Dir
<1>. HIDE DEF q
<1>3. Len(d) \in 0 .. Len(q)
  BY <1>1
<1>4. r \in Seq(Strings) /\ \A i \in 1 .. Len(d) : r[i] = q[i]
  BY <1>1, <1>2, <1>3
<1>5. \A m \in Nat : Len(SubSeq(q, 1, m)) = m
  BY <1>1
<1>6. Len(r) = Len(d)
  BY <1>1, <1>2, <1>5, Zenon
<1>. HIDE DEF r
<1>7. r = d
  BY <1>1, <1>4, <1>6, SeqEqual
<1>. QED  BY <1>7 DEF r, q

\* A path that is one longer than its directory.
LEMMA DirOf ==
  ASSUME NEW p \in Seq(Strings), NEW q \in Seq(Strings), IsPrefixOf(p, q), Len(q) = Len(p) + 1
  PROVE  Dir(q) = p /\ q[Len(q)] \in Strings /\ q = Append(p, q[Len(q)])
<1>1. Len(p) \in Nat /\ \A i \in 1 .. Len(p) : p[i] = q[i]
  BY PrefixIs
<1>. DEFINE n == q[Len(p) + 1]
            a == Append(p, n)
<1>2. n \in Strings
  BY <1>1
<1>3. a \in Seq(Strings) /\ Len(a) = Len(q) /\ \A i \in 1 .. Len(q) : a[i] = q[i]
  BY <1>1, <1>2
<1>. HIDE DEF a
<1>4. a = q
  BY <1>3, SeqEqual
<1>5. Dir(a) = p
  BY <1>2, DirAppend DEF a
<1>. QED  BY <1>2, <1>4, <1>5 DEF a

LEMMA PrefixLeq ==
  ASSUME NEW p \in Seq(Strings), NEW q \in Seq(Strings), IsPrefixOf(p, q)
  PROVE  TreeLeq(p, q)
<1>1. Len(p) \in Nat /\ Len(p) <= Len(q) /\ \A i \in 1 .. Len(p) : p[i] = q[i]
  BY PrefixIs
<1>2. Parts(p, q, Len(p))
  BY <1>1 DEF Parts, SameNames
<1>. QED  BY <1>1, <1>2 DEF TreeLeq

\* What is below p comes where p does, but for what is below p itself.
LEMMA BelowLeq ==
  ASSUME NamesAreBytes, NEW p \in FilePath, NEW q \in FilePath, NEW c \in Seq(Strings),
         TreeLeq(p, q), IsPrefixOf(p, c), ~ IsPrefixOf(p, q)
  PROVE  TreeLeq(c, q)
<1>1. p \in Seq(Strings) /\ q \in Seq(Strings) /\ Len(p) \in Nat /\ Len(q) \in Nat
  BY FilePathIs
<1>2. Len(p) <= Len(c) /\ \A i \in 1 .. Len(p) : p[i] = c[i]
  BY <1>1, PrefixIs
<1>3. PICK k \in Nat : Parts(p, q, k)
  BY DEF TreeLeq
<1>4. CASE k < Len(p)
  <2>1. /\ k + 1 \in 1 .. Len(p) /\ \A i \in 1 .. k : i \in 1 .. Len(p)
        /\ k <= Len(c) /\ Len(c) \in Nat
    BY <1>1, <1>2, <1>4
  <2>2. Parts(c, q, k)
    BY <1>2, <1>3, <1>4, <2>1 DEF Parts, SameNames
  <2>. QED  BY <2>2 DEF TreeLeq
<1>5. CASE ~ (k < Len(p))
  <2>1. k = Len(p) /\ Len(p) <= Len(q) /\ SameNames(p, q, Len(p))
    BY <1>1, <1>3, <1>5 DEF Parts
  <2>2. ASSUME NEW i \in 1 .. Len(p) PROVE p[i] = q[i]
    <3>1. Bytes[p[i]] = Bytes[q[i]]
      BY <2>1 DEF SameNames
    <3>2. p[i] \in FileNames /\ q[i] \in FileNames
      BY <1>1, <2>1 DEF FilePath
    <3>. QED  BY <3>1, <3>2 DEF NamesAreBytes
  <2>. QED  BY <1>1, <2>1, <2>2, PrefixIs
<1>. QED  BY <1>4, <1>5

\* The order of ReadDir is the one of the tree.
LEMMA SiblingLeq ==
  ASSUME NEW p \in Seq(Strings), NEW c \in Seq(Strings), NEW e \in Seq(Strings),
         IsPrefixOf(p, c), Len(c) = Len(p) + 1, IsPrefixOf(p, e), Len(e) = Len(p) + 1,
         NameLess(c, e)
  PROVE  TreeLeq(c, e)
<1>1. /\ Len(p) \in Nat /\ \A i \in 1 .. Len(p) : p[i] = c[i]
      /\ \A i \in 1 .. Len(p) : p[i] = e[i]
  BY PrefixIs
<1>2. StringLeq(Bytes[c[Len(p) + 1]], Bytes[e[Len(p) + 1]])
  BY DEF NameLess
<1>3. CASE Bytes[c[Len(p) + 1]] # Bytes[e[Len(p) + 1]]
  <2>1. Parts(c, e, Len(p))
    BY <1>1, <1>2, <1>3 DEF Parts, SameNames
  <2>. QED  BY <1>1, <2>1 DEF TreeLeq
<1>4. CASE Bytes[c[Len(p) + 1]] = Bytes[e[Len(p) + 1]]
  <2>1. Parts(c, e, Len(p) + 1)
    BY <1>1, <1>4 DEF Parts, SameNames
  <2>. QED  BY <1>1, <2>1 DEF TreeLeq
<1>. QED  BY <1>3, <1>4

LEMMA LinedTail ==
  ASSUME NEW s \in Seq(FilePath), s # <<>>, Lined(s)
  PROVE  /\ Tail(s) \in Seq(FilePath) /\ Lined(Tail(s)) /\ Head(s) \in FilePath
         /\ Tail(s) # <<>> => TreeLeq(Head(s), Head(Tail(s)))
         /\ \A i \in 1 .. Len(Tail(s)) : IsPrefixOf(Dir(Tail(s)[i]), Head(s))
<1>. DEFINE r == Tail(s)
<1>1. PICK n \in Nat \ {0} : n = Len(s)
  OBVIOUS
<1>2. r \in Seq(FilePath) /\ Len(r) = n - 1 /\ Head(s) = s[1] /\ Head(s) \in FilePath
  BY <1>1
<1>3. \A i \in 1 .. n - 1 : r[i] = s[i + 1]
  BY <1>1
<1>4. r # <<>> => Head(r) = r[1] /\ n >= 2
  BY <1>1, <1>2
<1>. HIDE DEF r
<1>5. \A i, j \in 1 .. n : i < j => IsPrefixOf(Dir(s[j]), s[i])
  BY <1>1 DEF Lined
<1>6. \A i \in 1 .. n - 1 : TreeLeq(s[i], s[i + 1])
  BY <1>1 DEF Lined
<1>7. ASSUME NEW i \in 1 .. n - 1, NEW j \in 1 .. n - 1, i < j PROVE IsPrefixOf(Dir(r[j]), r[i])
  <2>1. i + 1 \in 1 .. n /\ j + 1 \in 1 .. n /\ i + 1 < j + 1
    BY <1>7
  <2>. QED  BY <1>3, <1>5, <2>1
<1>8. ASSUME NEW i \in 1 .. (n - 1) - 1 PROVE TreeLeq(r[i], r[i + 1])
  <2>1. i + 1 \in 1 .. n - 1 /\ i \in 1 .. n - 1
    OBVIOUS
  <2>2. r[i] = s[i + 1] /\ r[i + 1] = s[(i + 1) + 1]
    BY <1>3, <2>1
  <2>. QED  BY <1>6, <2>1, <2>2
<1>9. Lined(r)
  BY <1>2, <1>7, <1>8 DEF Lined
<1>10. r # <<>> => TreeLeq(Head(s), Head(r))
  <2>1. r # <<>> => 1 \in 1 .. n - 1 /\ Head(r) = s[1 + 1]
    BY <1>3, <1>4
  <2>. QED  BY <1>2, <1>6, <2>1
<1>11. ASSUME NEW i \in 1 .. n - 1 PROVE IsPrefixOf(Dir(r[i]), Head(s))
  <2>1. 1 \in 1 .. n /\ i + 1 \in 1 .. n /\ 1 < i + 1
    OBVIOUS
  <2>. QED  BY <1>2, <1>3, <1>5, <2>1
<1>. QED  BY <1>2, <1>9, <1>10, <1>11 DEF r

\* The entries of a directory take its place in the order.
LEMMA LinedEntries ==
  ASSUME NamesAreBytes, NEW s \in Seq(FilePath), s # <<>>, Apart(s), Lined(s),
         NEW c \in Seq(FilePath),
         \A i \in 1 .. Len(c) : Len(c[i]) = Len(Head(s)) + 1 /\ IsPrefixOf(Head(s), c[i]),
         \A i \in 1 .. Len(c) - 1 : NameLess(c[i], c[i + 1])
  PROVE  /\ c \o Tail(s) \in Seq(FilePath) /\ Lined(c \o Tail(s))
         /\ c \o Tail(s) # <<>> => TreeLeq(Head(s), Head(c \o Tail(s)))
<1>. DEFINE r == Tail(s)
            p == Head(s)
            g == c \o r
<1>1. /\ r \in Seq(FilePath) /\ Lined(r) /\ p \in FilePath
      /\ r # <<>> => TreeLeq(p, Head(r))
      /\ \A i \in 1 .. Len(r) : IsPrefixOf(Dir(r[i]), p)
  BY LinedTail
<1>2. PICK k \in Nat : k = Len(c)
  OBVIOUS
<1>3. PICK l \in Nat : l = Len(r)
  <2>1. r \in Seq(FilePath)
    BY <1>1
  <2>. HIDE DEF r
  <2>2. Len(r) \in Nat
    BY <2>1
  <2>. QED  BY <2>2
<1>4. ASSUME NEW i \in 1 .. l PROVE ~ IsPrefixOf(p, r[i])
  <2>1. p = s[1] /\ r[i] = s[i + 1] /\ i + 1 \in 1 .. Len(s) /\ 1 \in 1 .. Len(s) /\ 1 # i + 1
    BY <1>3
  <2>. QED  BY <2>1 DEF Apart
<1>5. p \in Seq(Strings) /\ Len(p) \in Nat
  BY <1>1, FilePathIs
<1>6. \A i \in 1 .. k : Len(c[i]) = Len(p) + 1 /\ IsPrefixOf(p, c[i])
  BY <1>2
<1>7. \A i \in 1 .. k - 1 : NameLess(c[i], c[i + 1])
  BY <1>2
<1>8. /\ \A i \in 1 .. k : c[i] \in FilePath /\ c[i] \in Seq(Strings)
      /\ \A i \in 1 .. l : r[i] \in FilePath /\ r[i] \in Seq(Strings)
  <2>1. \A i \in 1 .. k : c[i] \in FilePath
    BY <1>2, ElementOf
  <2>2. \A i \in 1 .. l : r[i] \in FilePath
    BY <1>1, <1>3, ElementOf
  <2>. QED  BY <2>1, <2>2, FilePathIs
<1>. HIDE DEF r, p
<1>9. /\ g \in Seq(FilePath) /\ Len(g) = k + l
      /\ \A i \in 1 .. k : g[i] = c[i]
      /\ \A i \in 1 .. l : g[k + i] = r[i]
      /\ g # <<>> => Head(g) = g[1] /\ k + l >= 1
      /\ r # <<>> => Head(r) = r[1]
  <2>1. g \in Seq(FilePath) /\ Len(g) = k + l
    BY <1>1, <1>2, <1>3
  <2>2. \A i \in 1 .. k : g[i] = c[i]
    BY <1>1, <1>2
  <2>3. \A i \in 1 .. l : g[k + i] = r[i]
    BY <1>1, <1>2, <1>3
  <2>4. g # <<>> => Head(g) = g[1] /\ k + l >= 1
    <3>. HIDE DEF g
    <3>. QED  BY <2>1
  <2>5. r # <<>> => Head(r) = r[1]
    <3>1. \A x \in Seq(FilePath) : x # <<>> => Head(x) = x[1]
      OBVIOUS
    <3>. QED  BY <1>1, <3>1
  <2>. QED  BY <2>1, <2>2, <2>3, <2>4, <2>5
<1>. HIDE DEF g
<1>10. \A i \in 1 .. k : Dir(c[i]) = p
  BY <1>5, <1>6, <1>8, DirOf
<1>11. ASSUME NEW i \in 1 .. k + l, NEW j \in 1 .. k + l, i < j PROVE IsPrefixOf(Dir(g[j]), g[i])
  <2>1. CASE j \in 1 .. k
    <3>1. i \in 1 .. k
      BY <1>11, <2>1
    <3>. QED  BY <1>6, <1>9, <1>10, <2>1, <3>1
  <2>2. CASE j \notin 1 .. k
    <3>. DEFINE b == j - k
    <3>1. b \in 1 .. l /\ k + b = j
      BY <2>2
    <3>. HIDE DEF b
    <3>2. g[j] = r[b] /\ IsPrefixOf(Dir(r[b]), p)
      BY <1>1, <1>3, <1>9, <3>1
    <3>3. CASE i \in 1 .. k
      <4>1. r[b] \in Seq(Strings) /\ c[i] \in Seq(Strings) /\ IsPrefixOf(p, c[i])
        BY <1>6, <1>8, <3>1, <3>3
      <4>2. Dir(r[b]) \in Seq(Strings)
        <5>. DEFINE x == r[b]
        <5>1. x \in Seq(Strings)
          BY <4>1
        <5>. HIDE DEF x
        <5>2. SubSeq(x, 1, Len(x) - 1) \in Seq(Strings)
          BY <5>1
        <5>. QED  BY <5>2 DEF Dir, x
      <4>3. IsPrefixOf(Dir(r[b]), c[i])
        BY <1>5, <3>2, <4>1, <4>2, PrefixTransitive
      <4>. QED  BY <1>9, <3>2, <3>3, <4>3
    <3>4. CASE i \notin 1 .. k
      <4>. DEFINE a == i - k
      <4>1. a \in 1 .. l /\ k + a = i
        BY <3>4
      <4>. HIDE DEF a
      <4>2. a < b
        BY <1>11, <3>1, <4>1
      <4>3. IsPrefixOf(Dir(r[b]), r[a])
        BY <1>1, <1>3, <3>1, <4>1, <4>2 DEF Lined
      <4>. QED  BY <1>9, <3>2, <4>1, <4>3
    <3>. QED  BY <3>3, <3>4
  <2>. QED  BY <2>1, <2>2
<1>12. ASSUME NEW i \in 1 .. (k + l) - 1 PROVE TreeLeq(g[i], g[i + 1])
  <2>1. CASE i < k
    <3>1. i \in 1 .. k - 1 /\ i \in 1 .. k /\ i + 1 \in 1 .. k
      BY <2>1
    <3>2. TreeLeq(c[i], c[i + 1])
      BY <1>5, <1>6, <1>7, <1>8, <3>1, SiblingLeq
    <3>. QED  BY <1>9, <3>1, <3>2
  <2>2. CASE i = k
    <3>1. k \in 1 .. k /\ 1 \in 1 .. l /\ i + 1 = k + 1
      BY <2>2
    <3>2. g[i] = c[k] /\ g[i + 1] = r[1]
      BY <1>9, <2>2, <3>1
    <3>3. TreeLeq(p, r[1])
      <4>1. r # <<>>
        <5>1. l # 0
          BY <3>1
        <5>2. Len(<<>>) = 0
          OBVIOUS
        <5>. QED  BY <1>3, <5>1, <5>2
      <4>. QED  BY <1>1, <1>9, <4>1
    <3>4. TreeLeq(c[k], r[1])
      BY <1>1, <1>4, <1>6, <1>8, <3>1, <3>3, BelowLeq
    <3>. QED  BY <3>2, <3>4
  <2>3. CASE i > k
    <3>. DEFINE a == i - k
    <3>1. a \in 1 .. l - 1 /\ a \in 1 .. l /\ a + 1 \in 1 .. l /\ k + a = i /\ k + (a + 1) = i + 1
      BY <2>3
    <3>. HIDE DEF a
    <3>2. TreeLeq(r[a], r[a + 1])
      BY <1>1, <1>3, <3>1 DEF Lined
    <3>3. g[k + a] = r[a] /\ g[k + (a + 1)] = r[a + 1]
      BY <1>9, <3>1
    <3>. QED  BY <3>1, <3>2, <3>3
  <2>. QED  BY <2>1, <2>2, <2>3
<1>13. Lined(g)
  BY <1>9, <1>11, <1>12 DEF Lined
<1>14. g # <<>> => TreeLeq(p, Head(g))
  <2>. SUFFICES ASSUME g # <<>> PROVE TreeLeq(p, g[1])
    BY <1>9
  <2>1. CASE k > 0
    <3>1. 1 \in 1 .. k
      BY <2>1
    <3>2. IsPrefixOf(p, c[1]) /\ g[1] = c[1] /\ c[1] \in Seq(Strings)
      BY <1>6, <1>8, <1>9, <3>1
    <3>. QED  BY <1>5, <3>2, PrefixLeq
  <2>2. CASE k = 0
    <3>1. 1 \in 1 .. l /\ k + 1 = 1
      BY <1>9, <2>2
    <3>2. g[1] = r[1]
      <4>1. g[k + 1] = r[1]
        BY <1>9, <3>1
      <4>. QED  BY <3>1, <4>1
    <3>3. r # <<>>
      <4>1. l # 0
        BY <3>1
      <4>2. Len(<<>>) = 0
        OBVIOUS
      <4>. QED  BY <1>3, <4>1, <4>2
    <3>. QED  BY <1>1, <1>9, <3>2, <3>3
  <2>. QED  BY <2>1, <2>2
<1>. QED  BY <1>9, <1>13, <1>14 DEF g, r, p

\* Every entry is among what ReadDir returns.
LEMMA AllEntries ==
  ASSUME fs \in FileSystems, NEW p, NEW c \in Seqs!SetToSeqs(Children(p))
  PROVE  /\ \A i \in 1 .. Len(c) : c[i] \in Children(p)
         /\ \A q \in Children(p) : \E i \in 1 .. Len(c) : c[i] = q
<1>. DEFINE C == Children(p)
            n == Cardinality(C)
<1>1. n \in Nat /\ IsFiniteSet(C)
  <2>1. IsFiniteSet(DOMAIN fs)
    BY DumpPathAssumption
  <2>2. C \subseteq DOMAIN fs
    BY DEF Children
  <2>. HIDE DEF C
  <2>3. IsFiniteSet(C)
    BY <2>1, <2>2, FS_Subset
  <2>. QED  BY <2>3, FS_CardinalityType
<1>2. c \in [1 .. n -> C] /\ \A i, j \in 1 .. n : i # j => c[i] # c[j]
  <2>1. Seqs!Cardinality(C) = n
    BY DEF Seqs!Cardinality, Cardinality
  <2>. HIDE DEF C, n
  <2>2. c \in Seqs!SetToSeqs(C)
    BY DEF C
  <2>. QED  BY <2>1, <2>2 DEF Seqs!SetToSeqs
<1>. HIDE DEF C
<1>3. Cardinality(1 .. n) = n
  <2>. HIDE DEF n
  <2>. QED  BY <1>1, FS_Interval
<1>4. c \in Injection(1 .. n, C)
  BY <1>2 DEF Injection, IsInjective
<1>5. c \in Surjection(1 .. n, C)
  BY <1>1, <1>3, <1>4, FS_Injection
<1>. HIDE DEF n
<1>6. Len(c) = n
  BY <1>1, <1>2
<1>. QED  BY <1>2, <1>5, <1>6 DEF Surjection, C

-----------------------------------------------------------------------------
(* DumpPath is never refused a header.                                     *)

\* The emitter rests while the caller is not in a call.
Busy ==
  /\ cpc \in {"idle", "sendHeader"} => epc \in {"first", "await", "exited"}
  /\ epc \in {"loop", "return"} /\ next = Nil => closed

LEMMA StepBusy == ASSUME IInv, OrderInv, Busy, CleanStep PROVE Busy'
<1>1. /\ closed => cpc = "closing" \/ epc = "exited"
      /\ epc \in {"emit", "done"} => cpc = "select"
      /\ epc \in {"loop", "return"} /\ next # Nil => cpc = "select"
      /\ cpc \in {"sendHeader", "select"} => Len(arg) = 1
  BY DEF OrderInv, Handed, IInv, HeadersReady
<1>2. arg # Nil \/ cpc \notin {"sendHeader", "select"}
  <2>1. Len(Nil) = 0
    BY DEF Nil
  <2>. QED  BY <1>1, <2>1
<1>3. CASE First
  BY <1>1, <1>2, <1>3 DEF First, Busy
<1>4. CASE EmitNode \/ HeaderDone \/ TakeError \/ CloseReturns
  BY <1>1, <1>4 DEF EmitNode, Fail, HeaderDone, TakeError, CloseReturns, Busy, emitter, caller
<1>5. CASE Receive
  BY <1>1, <1>2, <1>5 DEF Receive, Busy
<1>6. CASE Leave \/ Reject \/ Enter \/ Return
  BY <1>1, <1>6 DEF Leave, Reject, Enter, Return, Writing, Fail, Busy, caller
<1>7. CASE (\E h \in ProperHeader : WriteHeader(h)) \/ Writes \/ Close \/ UNCHANGED vars
  BY <1>1, <1>7 DEF WriteHeader, Writes, Close, Busy, emitter, caller, vars
<1>. QED  BY <1>3, <1>4, <1>5, <1>6, <1>7 DEF CleanStep, Library

\* q is the last path that was sent, or an entry of a directory above it that
\* the Writer has still open.
InDirectory(q) ==
  \E d \in Header :
    /\ Latest(accepted, d) /\ d.type = "directory" /\ IsPrefixOf(d.path, Last)
    /\ \E n \in Strings : q = Append(d.path, n)

Queue ==
  /\ todo \in Seq(FilePath) /\ Lined(todo)
  /\ accepted = <<>> => \A i \in 1 .. Len(todo) : todo[i] = <<>>
  /\ accepted # <<>> => \A i \in 1 .. Len(todo) : todo[i] = Last \/ InDirectory(todo[i])
  /\ accepted # <<>> /\ todo # <<>> => TreeLeq(Last, Head(todo))

\* The walk is at the node whose header was the last one.
AtEntry ==
  \/ dpc \in {"list", "open", "copy"}
  \/ dpc = "sent" /\ cpc = "idle" /\ outcome = "ok"

Passed ==
  /\ Sending => arg = <<HeaderOf(Head(todo), node)>>
  /\ AtEntry => accepted[Len(accepted)] = HeaderOf(Head(todo), node)
  /\ dpc = "list" => node.type = "directory"
  /\ dpc \in {"open", "copy"} => node.type = "regular"

LEMMA QueueTail ==
  ASSUME OrderInv, Queue, todo # <<>>, todo' = Tail(todo), UNCHANGED accepted
  PROVE  Queue'
<1>1. todo \in Seq(FilePath) /\ Lined(todo)
  BY DEF Queue
<1>. DEFINE r == Tail(todo)
<1>2. /\ r \in Seq(FilePath) /\ Lined(r) /\ Head(todo) \in FilePath
      /\ r # <<>> => TreeLeq(Head(todo), Head(r))
  BY <1>1, LinedTail
<1>3. \A i \in 1 .. Len(r) : r[i] = todo[i + 1] /\ i + 1 \in 1 .. Len(todo)
  BY <1>1
<1>4. r # <<>> => Head(r) \in FilePath
  BY <1>2
<1>5. Last' = Last /\ \A q : InDirectory(q)' <=> InDirectory(q)
  BY DEF Last, InDirectory
<1>6. accepted # <<>> => Last \in Seq(Strings)
  BY LastIs DEF OrderInv
<1>. HIDE DEF r
<1>7. accepted # <<>> /\ r # <<>> => TreeLeq(Last, Head(r))
  BY <1>2, <1>4, <1>6, FilePathIs, TreeTransitive DEF Queue
<1>8. accepted = <<>> => \A i \in 1 .. Len(r) : r[i] = <<>>
  BY <1>3 DEF Queue
<1>9. accepted # <<>> => \A i \in 1 .. Len(r) : r[i] = Last \/ InDirectory(r[i])
  BY <1>3 DEF Queue
<1>10. todo' = r
  BY DEF r
<1>. QED  BY <1>2, <1>5, <1>7, <1>8, <1>9, <1>10 DEF Queue

LEMMA QueueStays ==
  ASSUME Queue, UNCHANGED <<todo, accepted>>
  PROVE  Queue'
<1>1. Last' = Last /\ \A q : InDirectory(q)' <=> InDirectory(q)
  BY DEF Last, InDirectory
<1>. QED  BY <1>1 DEF Queue

LEMMA EntriesAreFiles ==
  ASSUME CleanFiles, PlainFiles, fs \in FileSystems, NEW p \in ProperPath,
         NEW c \in Seqs!SetToSeqs(Children(p))
  PROVE  c \in Seq(FilePath)
<1>1. c \in Seq(ProperPath)
  BY EntriesOf
<1>2. PICK n \in Nat : n = Len(c)
  BY <1>1
<1>3. ASSUME NEW i \in 1 .. n PROVE c[i] \in FilePath
  <2>1. c[i] \in ProperPath
    BY <1>1, <1>2, ElementOf
  <2>2. c[i] \in DOMAIN fs
    BY <1>2, AllEntries DEF Children
  <2>. DEFINE q == c[i]
  <2>3. q \in Seq(Strings) /\ q \in DOMAIN fs /\ q \in ProperPath /\ Plain(q)
    BY <2>1, <2>2 DEF ProperPath, PlainFiles
  <2>. HIDE DEF q
  <2>4. ASSUME NEW j \in 1 .. Len(q) PROVE q[j] \in FileNames
    <3>1. q[j] \in Strings /\ j \in DOMAIN q
      BY <2>3
    <3>. QED  BY <2>3, <3>1 DEF FileNames
  <2>. QED  BY <2>3, <2>4 DEF FilePath, q
<1>4. c \in [1 .. n -> FilePath]
  <2>1. c \in [1 .. n -> ProperPath]
    BY <1>1, <1>2
  <2>. QED  BY <1>3, <2>1
<1>. QED  BY <1>4

\* The last header is the latest with its path.
LEMMA LastIsLatest ==
  ASSUME NEW hs \in Seq(Header), hs # <<>>
  PROVE  Latest(hs, hs[Len(hs)]) /\ hs[Len(hs)] \in Header
<1>1. PICK n \in Nat \ {0} : n = Len(hs)
  OBVIOUS
<1>2. n \in DOMAIN hs /\ n + 1 .. n = {} /\ hs[n] \in Header
  BY <1>1
<1>. QED  BY <1>1, <1>2 DEF Latest

LEMMA QueueList ==
  ASSUME CleanFiles, PlainFiles, NamesAreBytes, DumpInv, Queue, Passed, List, dpc' = "walk"
  PROVE  Queue'
<1>. DEFINE p == Head(todo)
<1>1. /\ dpc = "list" /\ UNCHANGED vars
      /\ \E s \in Seqs!SetToSeqs(Children(p)) :
           /\ \A i \in 1 .. Len(s) - 1 : NameLess(s[i], s[i + 1])
           /\ todo' = s \o Tail(todo)
  BY DEF List, At, Breaks, Abort
<1>2. PICK c \in Seqs!SetToSeqs(Children(p)) :
        /\ \A i \in 1 .. Len(c) - 1 : NameLess(c[i], c[i + 1])
        /\ todo' = c \o Tail(todo)
  BY <1>1
<1>3. /\ todo \in Seq(FilePath) /\ todo # <<>> /\ Lined(todo) /\ Apart(todo)
      /\ fs \in FileSystems /\ accepted # <<>> /\ Last = p
  BY <1>1 DEF Queue, DumpInv, DumpType, Fresh
<1>4. p \in FilePath
  BY <1>3, LinedTail
<1>5. p \in ProperPath /\ p \in Seq(Strings)
  BY <1>4, FilePathIs
<1>6. c \in Seq(FilePath) /\ \A i \in 1 .. Len(c) : Len(c[i]) = Len(p) + 1 /\ IsPrefixOf(p, c[i])
  BY <1>3, <1>5, EntriesAreFiles, EntriesOf
<1>. DEFINE r == Tail(todo)
            g == c \o r
<1>7. /\ g \in Seq(FilePath) /\ Lined(g) /\ (g # <<>> => TreeLeq(p, Head(g)))
      /\ r \in Seq(FilePath)
  BY <1>2, <1>3, <1>6, LinedEntries, LinedTail
<1>8. accepted' = accepted /\ Last' = Last /\ \A q : InDirectory(q)' <=> InDirectory(q)
  BY <1>1 DEF vars, Last, InDirectory
<1>. DEFINE d == accepted[Len(accepted)]
<1>9. Latest(accepted, d) /\ d \in Header /\ d.path = p /\ d.type = "directory"
  <2>1. accepted \in Seq(Header)
    BY HeaderStack DEF DumpInv, ArchiveInv
  <2>2. Latest(accepted, d) /\ d \in Header
    BY <1>3, <2>1, LastIsLatest
  <2>3. d.type = "directory"
    BY <1>1 DEF Passed, AtEntry, HeaderOf
  <2>. QED  BY <1>3, <2>2, <2>3 DEF Last, LastOf
<1>10. ASSUME NEW i \in 1 .. Len(c) PROVE InDirectory(c[i])
  <2>1. c[i] \in Seq(Strings) /\ IsPrefixOf(p, c[i]) /\ Len(c[i]) = Len(p) + 1
    BY <1>6, ElementOf, FilePathIs
  <2>2. \E n \in Strings : c[i] = Append(d.path, n)
    BY <1>5, <1>9, <2>1, DirOf
  <2>3. IsPrefixOf(d.path, Last)
    BY <1>3, <1>5, <1>9, PrefixItself
  <2>. QED  BY <1>9, <2>2, <2>3 DEF InDirectory
<1>11. ASSUME NEW i \in 1 .. Len(r) PROVE r[i] = Last \/ InDirectory(r[i])
  <2>1. r[i] = todo[i + 1] /\ i + 1 \in 1 .. Len(todo)
    BY <1>3
  <2>. QED  BY <1>3, <2>1 DEF Queue
<1>12. ASSUME NEW i \in 1 .. Len(g) PROVE g[i] = Last \/ InDirectory(g[i])
  <2>1. \/ i \in 1 .. Len(c) /\ g[i] = c[i]
        \/ i - Len(c) \in 1 .. Len(r) /\ g[i] = r[i - Len(c)]
    <3>1. c \in Seq(FilePath) /\ r \in Seq(FilePath)
      BY <1>6, <1>7
    <3>. HIDE DEF r
    <3>. QED  BY <3>1
  <2>. QED  BY <1>10, <1>11, <2>1
<1>13. todo' = g
  BY <1>2
<1>. HIDE DEF g
<1>. QED  BY <1>3, <1>7, <1>8, <1>12, <1>13 DEF Queue

LEMMA QueueSent ==
  ASSUME DumpInv, Queue, Passed, Emitter, HeaderDone
  PROVE  Queue'
<1>. DEFINE h == arg[1]
<1>1. /\ UNCHANGED todo /\ accepted' = Append(accepted, h) /\ cpc = "select"
  BY DEF Emitter, dump, HeaderDone
<1>2. /\ todo \in Seq(FilePath) /\ todo # <<>> /\ Lined(todo) /\ Apart(todo)
      /\ h.path = Head(todo)
      /\ accepted # <<>> => Beside(todo, Last)
  BY <1>1 DEF Queue, DumpInv, DumpType, Fresh, Honest, Sending
<1>3. accepted \in Seq(Header) /\ h \in Header
  <2>1. accepted \in Seq(Header)
    BY HeaderStack DEF DumpInv, ArchiveInv
  <2>2. arg \in Seq(Header) /\ Len(arg) = 1
    BY <1>1 DEF DumpInv, ArchiveInv, IInv, TypeOK, HeadersReady
  <2>. QED  BY <2>1, <2>2, OneElement
<1>4. Head(todo) \in FilePath /\ Head(todo) \in Seq(Strings) /\ Head(todo) = todo[1]
      /\ 1 \in 1 .. Len(todo)
  <2>1. Head(todo) \in FilePath
    BY <1>2, LinedTail
  <2>. QED  BY <1>2, <2>1, FilePathIs
<1>. HIDE DEF h
<1>5. accepted' # <<>> /\ Last' = Head(todo)
  <2>1. Len(accepted') = Len(accepted) + 1 /\ accepted'[Len(accepted) + 1] = h
    BY <1>1, <1>3
  <2>2. accepted' # <<>>
    BY <1>1, <1>3, AppendProperties
  <2>. QED  BY <1>2, <2>1, <2>2 DEF Last, LastOf
<1>6. ASSUME NEW i \in 1 .. Len(todo), i # 1, accepted # <<>> PROVE InDirectory(todo[i])'
  <2>. DEFINE q == todo[i]
  <2>1. q \in FilePath /\ q \in Seq(Strings)
    BY <1>2, ElementOf, FilePathIs
  <2>2. q # Last
    <3>1. ~ IsPrefixOf(q, Last)
      BY <1>2, <1>6 DEF Beside
    <3>. QED  BY <2>1, <3>1, PrefixItself
  <2>3. InDirectory(q)
    BY <1>6, <2>2 DEF Queue
  <2>4. PICK d \in Header : /\ Latest(accepted, d) /\ d.type = "directory"
                            /\ \E n \in Strings : q = Append(d.path, n)
    BY <2>3 DEF InDirectory
  <2>5. PICK n \in Strings : q = Append(d.path, n)
    BY <2>4
  <2>6. d.path \in Seq(Strings)
    BY DEF Header
  <2>7. IsPrefixOf(d.path, Head(todo))
    <3>1. IsPrefixOf(Dir(q), todo[1])
      BY <1>2, <1>4, <1>6 DEF Lined
    <3>2. Dir(q) = d.path
      BY <2>5, <2>6, DirAppend
    <3>. QED  BY <1>4, <3>1, <3>2
  <2>8. h.path # d.path
    <3>. SUFFICES ASSUME h.path = d.path PROVE FALSE
      OBVIOUS
    <3>1. ~ IsPrefixOf(todo[1], q)
      BY <1>2, <1>4, <1>6 DEF Apart
    <3>2. IsPrefixOf(d.path, q)
      <4>. DEFINE e == d.path
      <4>1. e \in Seq(Strings) /\ q = Append(e, n)
        BY <2>5, <2>6
      <4>. HIDE DEF e, q
      <4>2. Len(e) <= Len(q) /\ \A j \in 1 .. Len(e) : e[j] = q[j]
        BY <4>1
      <4>. QED  BY <2>1, <4>1, <4>2, PrefixIs DEF e
    <3>. QED  BY <1>2, <1>4, <3>1, <3>2
  <2>9. Latest(accepted', d)
    BY <1>1, <1>3, <2>4, <2>8, LatestAppend
  <2>10. IsPrefixOf(d.path, Last')
    BY <1>5, <2>7
  <2>11. InDirectory(q)'
    BY <1>1, <2>4, <2>9, <2>10 DEF InDirectory
  <2>. QED  BY <1>1, <2>11
<1>7. ASSUME NEW i \in 1 .. Len(todo), i # 1, accepted = <<>> PROVE todo[i] = Last'
  BY <1>4, <1>5, <1>7 DEF Queue
<1>8. TreeLeq(Last', Head(todo))
  BY <1>4, <1>5, TreeReflexive
<1>9. \A i \in 1 .. Len(todo) : (todo[i] = Last \/ InDirectory(todo[i]))'
  BY <1>1, <1>4, <1>5, <1>6, <1>7
<1>. QED  BY <1>1, <1>2, <1>5, <1>8, <1>9 DEF Queue

LEMMA StepQueue ==
  ASSUME CleanFiles, PlainFiles, NamesAreBytes, DumpInv, Queue, Passed, [DumpNext]_dumpVars
  PROVE  Queue'
<1>1. OrderInv
  BY DEF DumpInv, ArchiveInv
<1>2. CASE List
  <2>1. dpc' = "walk" \/ UNCHANGED <<todo, accepted>>
    BY <1>2 DEF List, Breaks, Abort, vars
  <2>. QED  BY <1>2, <2>1, QueueList, QueueStays
<1>3. CASE Lstat \/ HeaderSent \/ Copy
  <2>1. accepted' = accepted
    BY <1>3 DEF Lstat, HeaderSent, Copy, vars, caller
  <2>2. todo' = todo \/ (todo # <<>> /\ todo' = Tail(todo))
    BY <1>3 DEF Lstat, HeaderSent, Copy, Breaks, Abort, dump, At, DumpInv, DumpType
  <2>. QED  BY <1>1, <2>1, <2>2, QueueTail, QueueStays
<1>4. CASE SendHeader \/ Open \/ CloseWriter \/ DumpReturn \/ Change \/ UNCHANGED dumpVars
  <2>1. UNCHANGED <<todo, accepted>>
    BY <1>4 DEF SendHeader, WriteHeader, Open, CloseWriter, Close, DumpReturn, Change, dumpVars,
                Breaks, Abort, dump, vars
  <2>. QED  BY <2>1, QueueStays
<1>5. CASE Emitter
  <2>1. UNCHANGED todo /\ Library
    BY <1>5 DEF Emitter, dump
  <2>2. CASE HeaderDone
    BY <1>5, <2>2, QueueSent
  <2>3. CASE ~ HeaderDone
    <3>1. UNCHANGED accepted
      BY <2>1, <2>3 DEF Library, First, EmitNode, Receive, Leave, Reject, Enter, Return, TakeError,
                        CloseReturns, caller
    <3>. QED  BY <2>1, <3>1, QueueStays
  <2>. QED  BY <2>2, <2>3
<1>. QED  BY <1>2, <1>3, <1>4, <1>5 DEF DumpNext, Walk

LEMMA StepPassed ==
  ASSUME DumpInv, Passed, [DumpNext]_dumpVars
  PROVE  Passed'
<1>. DEFINE n == HeaderOf(Head(todo), node)
<1>1. /\ Sending => dpc = "sent" /\ arg = <<n>>
      /\ AtEntry => accepted[Len(accepted)] = n
      /\ dpc = "list" => node.type = "directory"
      /\ dpc \in {"open", "copy"} => node.type = "regular"
      /\ cpc = "closing" => dpc = "close"
      /\ dpc \in {"node", "sent"} => node.type \in {"regular", "symlink", "directory"}
  BY DEF DumpInv, Honest, WalkInv, DumpType, Types, Passed
<1>2. CASE SendHeader
  <2>1. Validate(n)
    BY DEF Validate, HeaderOf
  <2>2. /\ UNCHANGED <<todo, node>> /\ dpc = "node" /\ cpc = "idle"
        /\ \/ dpc' = "sent" /\ cpc' = "sendHeader" /\ arg' = <<n>>
           \/ dpc' = "abort" /\ cpc' = "idle"
    BY <1>2, <2>1 DEF SendHeader, WriteHeader, Breaks, Abort, At, vars
  <2>. QED  BY <2>2 DEF Passed, Sending, AtEntry
<1>3. CASE HeaderSent
  <2>1. /\ UNCHANGED <<node, accepted, cpc, arg>> /\ dpc = "sent" /\ cpc = "idle"
        /\ \/ dpc' = "abort"
           \/ outcome = "ok" /\ dpc' = "walk"
           \/ /\ outcome = "ok" /\ UNCHANGED todo /\ node.type # "symlink"
              /\ dpc' = IF node.type = "directory" THEN "list" ELSE "open"
    BY <1>3 DEF HeaderSent, Abort, At, vars
  <2>. QED  BY <1>1, <2>1 DEF Passed, Sending, AtEntry
<1>4. CASE Open \/ Copy
  <2>1. /\ UNCHANGED <<node, accepted, cpc, arg>> /\ dpc \in {"open", "copy"} /\ cpc = "idle"
        /\ dpc' \in {"walk", "abort"} \/ (dpc' = "copy" /\ UNCHANGED todo)
    BY <1>4 DEF Open, Copy, Breaks, Abort, At, vars, caller, dump
  <2>. QED  BY <1>1, <2>1 DEF Passed, Sending, AtEntry
<1>5. CASE Lstat \/ List \/ CloseWriter \/ DumpReturn
  <2>1. dpc' \in {"walk", "node", "abort", "close", "returned"} /\ ~ Sending'
    BY <1>5 DEF Lstat, List, CloseWriter, Close, DumpReturn, Breaks, Abort, At, vars, Sending
  <2>. QED  BY <2>1 DEF Passed, AtEntry
<1>6. CASE Change \/ UNCHANGED dumpVars
  <2>1. UNCHANGED <<todo, node, dpc, cpc, arg, accepted, outcome>>
    BY <1>6 DEF Change, dumpVars, dump, vars
  <2>. QED  BY <1>1, <2>1 DEF Passed, Sending, AtEntry
<1>7. CASE Emitter
  <2>1. UNCHANGED <<todo, node, dpc>> /\ Library
    BY <1>7 DEF Emitter, dump
  <2>2. /\ UNCHANGED arg
        /\ \/ /\ cpc = "select" /\ cpc' = "idle" /\ accepted' = Append(accepted, arg[1])
              /\ outcome' = "ok"
           \/ /\ cpc \in {"select", "closing"} /\ cpc' = "idle" /\ outcome' = "error"
              /\ UNCHANGED accepted
           \/ cpc = "closing" /\ cpc' = "idle" /\ UNCHANGED accepted
           \/ /\ UNCHANGED <<accepted, outcome>>
              /\ cpc' = cpc \/ (cpc = "sendHeader" /\ cpc' = "select")
    BY <2>1, LibraryCaller
  <2>3. CASE cpc = "select" /\ cpc' = "idle" /\ accepted' = Append(accepted, arg[1])
    <3>1. arg[1] = n /\ dpc = "sent"
      BY <1>1, <2>3 DEF Sending
    <3>2. accepted \in Seq(Header) /\ arg[1] \in Header
      <4>1. accepted \in Seq(Header)
        BY HeaderStack DEF DumpInv, ArchiveInv
      <4>2. arg \in Seq(Header) /\ Len(arg) = 1
        BY <2>3 DEF DumpInv, ArchiveInv, IInv, TypeOK, HeadersReady
      <4>. QED  BY <4>1, <4>2, OneElement
    <3>3. accepted'[Len(accepted')] = arg[1]
      BY <2>3, <3>2
    <3>. QED  BY <2>1, <2>3, <3>1, <3>3 DEF Passed, Sending, AtEntry
  <2>4. CASE ~ (cpc = "select" /\ cpc' = "idle" /\ accepted' = Append(accepted, arg[1]))
    BY <1>1, <2>1, <2>2, <2>4 DEF Passed, Sending, AtEntry
  <2>. QED  BY <2>3, <2>4
<1>. QED  BY <1>2, <1>3, <1>4, <1>5, <1>6, <1>7 DEF DumpNext, Walk

PlainArg == arg \in Seq(PlainHeader)

LEMMA StepPlainArg ==
  ASSUME DumpInv, Queue, PlainArg, [DumpNext]_dumpVars
  PROVE  PlainArg'
<1>1. CASE SendHeader
  <2>. DEFINE h == HeaderOf(Head(todo), node)
  <2>1. dpc = "node" /\ (arg' = arg \/ arg' = <<h>>)
    BY <1>1 DEF SendHeader, WriteHeader, At, vars
  <2>2. DumpType /\ todo \in Seq(FilePath) /\ todo # <<>>
    BY <2>1 DEF DumpInv, DumpType, Queue
  <2>3. Plain(Head(todo))
    <3>1. Head(todo) \in FilePath
      BY <2>2
    <3>. QED  BY <3>1, FilePathIs
  <2>4. h \in ProperHeader /\ h.path = Head(todo)
    BY <2>1, <2>2, HeaderSentIsProper
  <2>5. h \in PlainHeader
    BY <2>3, <2>4 DEF PlainHeader
  <2>. HIDE DEF h
  <2>6. <<h>> \in Seq(PlainHeader)
    BY <2>5
  <2>7. CASE arg' = arg
    BY <2>7 DEF PlainArg
  <2>8. CASE arg' = <<h>>
    BY <2>6, <2>8 DEF PlainArg
  <2>. QED  BY <2>1, <2>7, <2>8
<1>2. CASE ~ SendHeader
  <2>1. CASE Emitter
    BY <2>1, LibraryCaller DEF Emitter, PlainArg
  <2>2. CASE ~ Emitter
    <3>1. arg' = arg
      BY <1>2, <2>2 DEF DumpNext, Walk, Lstat, HeaderSent, List, Open, Copy, CloseWriter, Close,
                        DumpReturn, Change, dumpVars, vars, caller
    <3>. QED  BY <3>1 DEF PlainArg
  <2>. QED  BY <2>1, <2>2
<1>. QED  BY <1>1, <1>2

-----------------------------------------------------------------------------
(* No header of the walk is refused.                                       *)

\* What the walk sends goes on with what it has sent.
LEMMA SentFollows ==
  ASSUME DumpInv, Queue, Sending
  PROVE  /\ accepted = <<>> => arg[1].path = <<>>
         /\ accepted # <<>> => FollowsAt(accepted \o arg, Len(accepted))
<1>. DEFINE h == arg[1]
            q == Head(todo)
            n == Len(accepted)
            g == accepted \o arg
<1>1. dpc = "sent" /\ h.path = q /\ todo # <<>> /\ todo \in Seq(FilePath)
  BY DEF DumpInv, Honest, DumpType, Queue
<1>2. q \in FilePath /\ q = todo[1] /\ 1 \in 1 .. Len(todo)
  BY <1>1
<1>3. q \in Seq(Strings)
  BY <1>2, FilePathIs
<1>4. arg = <<h>> /\ h \in Header
  <2>1. arg \in Seq(Header) /\ Len(arg) = 1
    BY DEF Sending, DumpInv, ArchiveInv, IInv, TypeOK, HeadersReady
  <2>. QED  BY <2>1, OneElement
<1>5. accepted = <<>> => q = <<>>
  BY <1>2 DEF Queue
<1>. HIDE DEF h
<1>6. ASSUME accepted # <<>> PROVE FollowsAt(g, n)
  <2>1. /\ accepted \in Seq(Header) /\ n \in Nat \ {0}
        /\ Last \in Seq(Strings) /\ Last = accepted[n].path
    BY <1>6, HeaderStack, LastIs, EmptySeq DEF DumpInv, ArchiveInv, OrderInv, Last, LastOf
  <2>2. g[n + 1] = h /\ \A i \in 1 .. n : g[i] = accepted[i]
    BY <1>4, <2>1
  <2>. HIDE DEF g, n
  <2>3. n \in 1 .. n /\ g[n] = accepted[n]
    BY <2>1, <2>2
  <2>4. q # Last
    <3>1. ~ IsPrefixOf(q, Last)
      BY <1>2, <1>6 DEF DumpInv, Fresh, Beside
    <3>. QED  BY <1>3, <3>1, PrefixItself
  <2>5. TreeLeq(Last, q)
    BY <1>1, <1>6 DEF Queue
  <2>6. InDirectory(q)
    BY <1>2, <1>6, <2>4 DEF Queue
  <2>7. PICK d \in Header : /\ Latest(accepted, d) /\ d.type = "directory"
                            /\ IsPrefixOf(d.path, Last)
                            /\ \E s \in Strings : q = Append(d.path, s)
    BY <2>6 DEF InDirectory
  <2>8. PICK m \in 1 .. n : accepted[m] = d /\ \A j \in m + 1 .. n : accepted[j].path # d.path
    <3>1. DOMAIN accepted = 1 .. n
      BY <2>1 DEF n
    <3>. QED  BY <2>7, <3>1 DEF Latest, n
  <2>9. g[m] = d /\ \A j \in m + 1 .. n : g[j].path # d.path
    <3>1. \A j \in m + 1 .. n : j \in 1 .. n
      BY <2>1
    <3>. QED  BY <2>2, <2>8, <3>1
  <2>. QED  BY <1>1, <2>1, <2>2, <2>3, <2>4, <2>5, <2>7, <2>9 DEF FollowsAt
<1>. QED  BY <1>1, <1>5, <1>6 DEF h, g, n

LEMMA WalkNotRefused ==
  ASSUME DumpInv, Queue, Place, PlainArg
  PROVE  ~ Refuse
<1>. SUFFICES ASSUME Refuse PROVE FALSE
  OBVIOUS
<1>1. CASE First
  <2>1. /\ epc = "first" /\ accepted = <<>> /\ cpc = "sendHeader" /\ arg[1].path # <<>>
    <3>1. epc = "first" /\ accepted = <<>>
      BY <1>1 DEF First, DumpInv, ArchiveInv, OrderInv, Told
    <3>2. ~ (closed /\ UNCHANGED cpc)
      BY <3>1 DEF Refuse, DumpInv, ArchiveInv, OrderInv, Handed
    <3>. QED  BY <1>1, <3>1, <3>2 DEF First, Refuse
  <2>. QED  BY <2>1, SentFollows DEF Sending
<1>2. CASE stack = <<>> /\ Return
  BY <1>2 DEF Refuse, Return, Place, Running, PassedUp
<1>3. CASE Reject
  <2>1. ArchiveInv /\ ~ Repeats(accepted)
    BY DEF DumpInv, Fresh
  <2>2. cpc = "select" /\ accepted # <<>>
    BY <1>3 DEF Reject, DumpInv, ArchiveInv, OrderInv, Handed, Told
  <2>. QED  BY <1>3, <2>1, <2>2, RejectedNotNext, SentFollows DEF Sending, PlainArg
<1>. QED  BY <1>1, <1>2, <1>3 DEF Refuse

QueueInv == DumpInv /\ Busy /\ Queue /\ Passed /\ PlainArg /\ Place

LEMMA QueueInit == DumpInit => QueueInv
<1>. SUFFICES ASSUME DumpInit PROVE QueueInv
  OBVIOUS
<1>1. Init /\ todo = <<<<>>>> /\ dpc = "walk"
  BY DEF DumpInit
<1>2. DumpInv /\ Place
  BY <1>1, DumpInitInv, InitPlace
<1>3. cpc = "idle" /\ epc = "first" /\ accepted = <<>> /\ arg = <<>>
  BY <1>1 DEF Init, Nil
<1>4. Busy /\ Passed
  BY <1>1, <1>3 DEF Busy, Passed, Sending, AtEntry
<1>5. PlainArg
  BY <1>3 DEF PlainArg
<1>6. Queue
  <2>1. <<>> \in FilePath
    BY DEF FilePath, ProperPath, Proper, Plain
  <2>2. todo \in Seq(FilePath) /\ Len(todo) = 1 /\ todo[1] = <<>>
    BY <1>1, <2>1
  <2>3. \A i, j \in 1 .. 1 : ~ (i < j)
    OBVIOUS
  <2>4. 1 .. 1 - 1 = {}
    OBVIOUS
  <2>5. Lined(todo)
    BY <2>2, <2>3, <2>4 DEF Lined
  <2>. QED  BY <1>3, <2>2, <2>5 DEF Queue
<1>. QED  BY <1>2, <1>4, <1>5, <1>6 DEF QueueInv

LEMMA QueueStep ==
  ASSUME CleanFiles, PlainFiles, NamesAreBytes, QueueInv, [DumpNext]_dumpVars
  PROVE  QueueInv'
<1>1. DumpInv /\ Busy /\ Queue /\ Passed /\ PlainArg /\ Place
  BY DEF QueueInv
<1>2. IInv /\ OrderInv /\ TypeOK /\ DumpType
  BY <1>1 DEF DumpInv, ArchiveInv, IInv
<1>3. CleanStep
  BY <1>2, DumpIsClean
<1>4. DumpInv' /\ Queue' /\ Passed' /\ PlainArg'
  BY <1>1, DumpStep, StepQueue, StepPassed, StepPlainArg
<1>5. Busy' /\ Place'
  BY <1>1, <1>2, <1>3, StepBusy, StepPlace DEF PlainArg
<1>. QED  BY <1>4, <1>5 DEF QueueInv

LEMMA QueueInvariance ==
  ASSUME CleanFiles, PlainFiles, NamesAreBytes PROVE DumpSpec => []QueueInv
<1>1. QueueInv /\ [DumpNext]_dumpVars => QueueInv'
  BY QueueStep
<1>. QED  BY QueueInit, <1>1, PTL DEF DumpSpec

\* However the files change under the walk, the Writer refuses none of the
\* headers that DumpPath passes to it: an error is never one of order.
NeverRefused == [][~ Refuse]_dumpVars

\* DumpPath never passes a header that the Writer refuses.  The names of the
\* files must not start with two dots: see NarWriterDots.
THEOREM WalkIsNeverRefused ==
  ASSUME CleanFiles, PlainFiles, NamesAreBytes PROVE DumpSpec => NeverRefused
<1>1. QueueInv => ~ Refuse
  BY WalkNotRefused DEF QueueInv
<1>. QED  BY QueueInvariance, <1>1, PTL DEF NeverRefused

-----------------------------------------------------------------------------
(* A dump that nothing disturbs.  The content of a file is complete        *)
(* whenever the walk goes on, so that the Writer never refuses it either.  *)

Bodies ==
  /\ epc = "done" => body = [total |-> arg[1].size, written |-> 0]
  /\ epc \in {"first", "emit", "loop", "return"} => Complete
  /\ AtEntry /\ dpc # "copy" => body = [total |-> HeaderOf(Head(todo), node).size, written |-> 0]
  /\ dpc = "copy" => body.total = node.size /\ body.written <= body.total
  /\ \/ dpc \in {"walk", "node"}
     \/ Sending /\ epc # "done"
     \/ dpc = "close" /\ result # "error" /\ epc \notin {"fail", "exited"}
     => Complete

\* Where the walk and the emitter are while the other one moves.
LEMMA Places ==
  ASSUME DumpInv, Busy
  PROVE  /\ Sending => dpc = "sent" /\ todo # <<>>
         /\ cpc = "closing" => dpc = "close"
         /\ cpc \in {"idle", "sendHeader", "select", "closing"}
         /\ epc \in {"first", "emit", "done", "await", "loop", "return", "fail", "exited"}
         /\ cpc = "idle" => epc \in {"first", "await", "exited"}
         /\ epc \in {"emit", "done"} => cpc = "select" /\ (epc = "emit" => next = arg)
         /\ dpc \in {"list", "open", "copy"} => epc # "first"
         /\ closed => cpc = "closing" \/ epc = "exited"
         /\ epc \in {"loop", "return"} /\ next # Nil => cpc = "select"
         /\ epc \in {"loop", "return"} /\ next = Nil => closed
  BY DEF DumpInv, Honest, WalkInv, ArchiveInv, IInv, TypeOK, OrderInv, Handed, Told, Busy, Fresh,
         DumpType, Sending

LEMMA StepBodies ==
  ASSUME DumpInv, Busy, Passed, Bodies, [DumpNext]_dumpVars
  PROVE  Bodies'
<1>. USE Places
<1>1. CASE Lstat
  <2>1. /\ dpc = "walk" /\ cpc = "idle" /\ UNCHANGED vars /\ UNCHANGED result
        /\ dpc' \in {"walk", "node", "abort"}
    BY <1>1 DEF Lstat, Breaks, Abort, At
  <2>. QED  BY <2>1 DEF Bodies, vars, Complete, Sending, AtEntry
<1>2. CASE SendHeader
  <2>1. /\ dpc = "node" /\ cpc = "idle" /\ UNCHANGED <<body, epc, result>>
        /\ \/ dpc' = "abort" /\ cpc' = "idle"
           \/ dpc' = "sent" /\ cpc' = "sendHeader"
    <3>. DEFINE h == HeaderOf(Head(todo), node)
    <3>1. Validate(h)
      BY DEF Validate, HeaderOf
    <3>. HIDE DEF h
    <3>2. CASE WriteHeader(h) /\ dpc' = "sent" /\ UNCHANGED result
      BY <1>2, <3>1, <3>2 DEF SendHeader, WriteHeader, At, emitter
    <3>3. CASE Breaks /\ UNCHANGED vars
      BY <1>2, <3>3 DEF SendHeader, Breaks, Abort, At, vars
    <3>. QED  BY <1>2, <3>2, <3>3 DEF SendHeader, h
  <2>. QED  BY <2>1 DEF Bodies, Complete, Sending, AtEntry
<1>3. CASE HeaderSent
  <2>1. /\ dpc = "sent" /\ cpc = "idle" /\ UNCHANGED <<vars, node, result>>
        /\ \/ dpc' = "abort"
           \/ outcome = "ok" /\ node.type = "symlink" /\ dpc' = "walk"
           \/ outcome = "ok" /\ dpc' \in {"list", "open"} /\ UNCHANGED todo
    BY <1>3 DEF HeaderSent, Abort, At
  <2>2. outcome = "ok" => body = [total |-> HeaderOf(Head(todo), node).size, written |-> 0]
    BY <2>1 DEF Bodies, AtEntry
  <2>3. node.type = "symlink" => HeaderOf(Head(todo), node).size = 0
    BY DEF HeaderOf
  <2>4. outcome = "ok" /\ node.type = "symlink" => Complete
    BY <2>2, <2>3 DEF Complete
  <2>. QED  BY <2>1, <2>2, <2>4 DEF Bodies, vars, Complete, Sending, AtEntry
<1>4. CASE List
  <2>1. /\ dpc = "list" /\ cpc = "idle" /\ UNCHANGED <<vars, result>>
        /\ dpc' \in {"walk", "abort"}
    BY <1>4 DEF List, Breaks, Abort, At
  <2>2. Complete
    <3>1. body = [total |-> HeaderOf(Head(todo), node).size, written |-> 0]
      BY <2>1 DEF Bodies, AtEntry
    <3>2. HeaderOf(Head(todo), node).size = 0
      BY <2>1 DEF Passed, HeaderOf
    <3>. QED  BY <3>1, <3>2 DEF Complete
  <2>. QED  BY <2>1, <2>2 DEF Bodies, vars, Complete, Sending, AtEntry
<1>5. CASE Open
  <2>1. /\ dpc = "open" /\ cpc = "idle" /\ UNCHANGED <<vars, node, result>>
        /\ dpc' \in {"copy", "abort"}
    BY <1>5 DEF Open, Breaks, Abort, At
  <2>2. body.total = node.size /\ body.written = 0
    <3>1. body = [total |-> HeaderOf(Head(todo), node).size, written |-> 0]
      BY <2>1 DEF Bodies, AtEntry
    <3>2. HeaderOf(Head(todo), node).size = node.size
      BY <2>1 DEF Passed, HeaderOf
    <3>. QED  BY <3>1, <3>2
  <2>3. node.size \in Nat
    BY <2>1 DEF DumpInv, DumpType, Node
  <2>. QED  BY <2>1, <2>2, <2>3 DEF Bodies, vars, Complete, Sending, AtEntry
<1>6. CASE Copy
  <2>1. /\ dpc = "copy" /\ cpc = "idle" /\ UNCHANGED <<epc, cpc, arg, outcome, node, result>>
        /\ body \in [total : Nat, written : Nat]
        /\ body.total = node.size
    BY <1>6 DEF Copy, At, dump, Abort, Breaks, caller, Bodies, DumpInv, ArchiveInv, IInv, TypeOK
  <2>2. \/ dpc' = "walk" /\ UNCHANGED body /\ body.written = node.size
        \/ dpc' = "abort" /\ UNCHANGED body
        \/ dpc' = "copy" /\ body'.total = body.total /\ body'.written <= body.total
    <3>1. CASE body.written >= opened /\ UNCHANGED body
                 /\ IF body.written = node.size THEN dpc' = "walk" ELSE Abort
      BY <3>1 DEF Abort
    <3>2. ASSUME NEW n \in 1 .. opened - body.written,
                 IF body.written + n <= body.total
                 THEN body' = [body EXCEPT !.written = @ + n] /\ UNCHANGED <<dump, calm>>
                 ELSE Abort /\ UNCHANGED <<body, calm>>
          PROVE  \/ dpc' = "abort" /\ UNCHANGED body
                 \/ dpc' = "copy" /\ body'.total = body.total /\ body'.written <= body.total
      <4>1. CASE body.written + n <= body.total
        <5>1. body' = [body EXCEPT !.written = @ + n] /\ dpc' = "copy"
          BY <2>1, <3>2, <4>1 DEF dump
        <5>. QED  BY <2>1, <4>1, <5>1
      <4>2. CASE ~ (body.written + n <= body.total)
        BY <3>2, <4>2 DEF Abort
      <4>. QED  BY <4>1, <4>2
    <3>3. CASE Breaks /\ UNCHANGED body
      BY <3>3 DEF Breaks, Abort
    <3>. QED  BY <1>6, <3>1, <3>2, <3>3 DEF Copy
  <2>. QED  BY <2>1, <2>2 DEF Bodies, Complete, Sending, AtEntry
<1>7. CASE CloseWriter \/ DumpReturn
  <2>1. /\ cpc = "idle" /\ UNCHANGED <<epc, body, arg>>
        /\ \/ dpc = "walk" /\ dpc' = "close" /\ cpc' = "closing" /\ result' = result
           \/ dpc = "abort" /\ dpc' = "close" /\ cpc' = "closing" /\ result' = "error"
           \/ dpc = "close" /\ dpc' = "returned" /\ cpc' = "idle"
    BY <1>7 DEF CloseWriter, Close, DumpReturn, At, vars, emitter
  <2>. QED  BY <2>1 DEF Bodies, Complete, Sending, AtEntry
<1>8. CASE Change \/ UNCHANGED dumpVars
  <2>1. UNCHANGED <<epc, cpc, body, arg, outcome, todo, node, dpc, result>>
    BY <1>8 DEF Change, dumpVars, dump, vars
  <2>. QED  BY <2>1 DEF Bodies, Complete, Sending, AtEntry
<1>9. CASE Emitter
  <2>1. Library /\ UNCHANGED <<todo, node, dpc, result>>
    BY <1>9 DEF Emitter, dump
  <2>2. CASE EmitNode
    <3>1. /\ epc = "emit" /\ cpc = "select" /\ UNCHANGED <<cpc, arg, outcome>>
          /\ \/ epc' = "done" /\ body' = [total |-> arg[1].size, written |-> 0]
             \/ epc' = "fail" /\ UNCHANGED body
      BY <2>2 DEF EmitNode, Fail, caller
    <3>. QED  BY <2>1, <3>1 DEF Bodies, Complete, Sending, AtEntry
  <2>3. CASE HeaderDone
    <3>1. /\ epc = "done" /\ cpc = "select" /\ dpc = "sent" /\ cpc' = "idle" /\ epc' = "await"
          /\ UNCHANGED <<body, arg>>
      BY <2>3 DEF HeaderDone, Sending
    <3>2. arg[1] = HeaderOf(Head(todo), node)
      BY <3>1 DEF Passed, Sending
    <3>. QED  BY <2>1, <3>1, <3>2 DEF Bodies, Complete, Sending, AtEntry
  <2>4. CASE First \/ Receive
    <3>1. /\ UNCHANGED <<body, arg, outcome>>
          /\ \/ epc = "first" /\ epc' \in {"emit", "fail"}
             \/ epc = "await" /\ epc' = "loop" /\ Complete
             \/ epc = "await" /\ epc' = "fail"
          /\ \/ cpc = "sendHeader" /\ cpc' = "select"
             \/ closed /\ UNCHANGED cpc
      BY <2>4 DEF First, Receive
    <3>. QED  BY <2>1, <3>1 DEF Bodies, Complete, Sending, AtEntry
  <2>5. CASE Leave \/ Reject \/ Enter \/ Return
    <3>1. /\ UNCHANGED <<body, arg, outcome, cpc>>
          /\ epc \in {"loop", "return"} /\ epc' \in {"loop", "return", "emit", "fail", "exited"}
      BY <2>5 DEF Leave, Reject, Enter, Return, Writing, Fail, caller
    <3>. QED  BY <2>1, <3>1 DEF Bodies, Complete, Sending, AtEntry
  <2>6. CASE TakeError \/ CloseReturns
    <3>1. /\ UNCHANGED <<body, arg>> /\ cpc \in {"select", "closing"} /\ cpc' = "idle"
          /\ epc' = "exited"
          /\ cpc = "select" => outcome' = "error"
      BY <2>6 DEF TakeError, CloseReturns, emitter
    <3>2. dpc \in {"sent", "close"} /\ (dpc = "sent" => cpc = "select")
      BY <3>1 DEF Sending
    <3>. QED  BY <2>1, <3>1, <3>2 DEF Bodies, Complete, Sending, AtEntry
  <2>. QED  BY <2>1, <2>2, <2>3, <2>4, <2>5, <2>6 DEF Library
<1>. QED  BY <1>1, <1>2, <1>3, <1>4, <1>5, <1>6, <1>7, <1>8, <1>9 DEF DumpNext, Walk

\* Why the walk is over.
Ends ==
  /\ result \in {"none", "ok", "error"}
  /\ closed => dpc \in {"close", "returned"}
  /\ dpc \in {"close", "returned"} /\ result # "error" => todo = <<>>
  /\ dpc = "close" /\ cpc = "idle" => outcome # "none"
  /\ dpc = "returned" => result # "none"

LEMMA StepEnds ==
  ASSUME DumpInv, Ends, [DumpNext]_dumpVars
  PROVE  Ends'
<1>1. /\ outcome \in {"none", "ok", "error"}
      /\ cpc = "closing" => dpc = "close"
      /\ Sending => dpc = "sent"
  BY DEF DumpInv, ArchiveInv, IInv, TypeOK, WalkInv, Honest
<1>2. CASE Lstat \/ HeaderSent \/ List \/ Open \/ Copy
  <2>1. /\ UNCHANGED <<closed, result>> /\ dpc \in {"walk", "sent", "list", "open", "copy"}
        /\ dpc' \in {"walk", "node", "abort", "list", "open", "copy"}
    BY <1>2 DEF Lstat, HeaderSent, List, Open, Copy, At, Breaks, Abort, vars, caller, dump
  <2>. QED  BY <2>1 DEF Ends
<1>3. CASE SendHeader
  <2>1. UNCHANGED <<closed, result>> /\ dpc = "node" /\ dpc' \in {"sent", "abort"}
    BY <1>3 DEF SendHeader, WriteHeader, At, Breaks, Abort, vars
  <2>. QED  BY <2>1 DEF Ends
<1>4. CASE CloseWriter
  <2>1. /\ dpc' = "close" /\ cpc' = "closing" /\ UNCHANGED todo
        /\ \/ todo = <<>> /\ result' = result
           \/ result' = "error"
    BY <1>4 DEF CloseWriter, Close
  <2>. QED  BY <2>1 DEF Ends
<1>5. CASE DumpReturn
  <2>1. /\ dpc = "close" /\ cpc = "idle" /\ dpc' = "returned" /\ UNCHANGED <<todo, closed>>
        /\ result' = IF result = "error" THEN result ELSE outcome
    BY <1>5 DEF DumpReturn, At, vars
  <2>. QED  BY <1>1, <2>1 DEF Ends
<1>6. CASE Change \/ UNCHANGED dumpVars
  <2>1. UNCHANGED <<closed, cpc, outcome, todo, dpc, result>>
    BY <1>6 DEF Change, dumpVars, dump, vars
  <2>. QED  BY <2>1 DEF Ends
<1>7. CASE Emitter
  <2>1. Library /\ UNCHANGED <<todo, dpc, result>>
    BY <1>7 DEF Emitter, dump
  <2>2. UNCHANGED closed
    BY <2>1, LibraryCaller
  <2>3. UNCHANGED <<cpc, outcome>> \/ cpc' # "idle" \/ outcome' \in {"ok", "error"}
    BY <2>1 DEF Library, First, EmitNode, HeaderDone, Receive, Leave, Reject, Enter, Return,
                TakeError, CloseReturns, caller
  <2>. QED  BY <2>1, <2>2, <2>3 DEF Ends
<1>. QED  BY <1>2, <1>3, <1>4, <1>5, <1>6, <1>7 DEF DumpNext, Walk

In(q, s) == \E i \in 1 .. Len(s) : s[i] = q

LEMMA InTail ==
  ASSUME NEW S, NEW s \in Seq(S), s # <<>>
  PROVE  /\ \A q : In(q, s) <=> q = Head(s) \/ In(q, Tail(s))
         /\ Tail(s) \in Seq(S) /\ Head(s) \in S
<1>. DEFINE r == Tail(s)
<1>1. PICK n \in Nat \ {0} : n = Len(s)
  OBVIOUS
<1>2. r \in Seq(S) /\ Len(r) = n - 1 /\ Head(s) = s[1] /\ Head(s) \in S
  BY <1>1
<1>3. \A i \in 1 .. n - 1 : r[i] = s[i + 1]
  BY <1>1
<1>. HIDE DEF r
<1>4. ASSUME NEW q, In(q, s) PROVE q = s[1] \/ In(q, r)
  <2>1. PICK i \in 1 .. n : s[i] = q
    BY <1>1, <1>4 DEF In
  <2>2. CASE i = 1
    BY <2>1, <2>2
  <2>3. CASE i # 1
    <3>1. i - 1 \in 1 .. n - 1 /\ (i - 1) + 1 = i
      BY <2>3
    <3>2. r[i - 1] = q
      BY <1>3, <2>1, <3>1
    <3>. QED  BY <1>2, <3>1, <3>2 DEF In
  <2>. QED  BY <2>2, <2>3
<1>5. ASSUME NEW q, In(q, r) PROVE In(q, s)
  <2>1. PICK i \in 1 .. n - 1 : r[i] = q
    BY <1>2, <1>5 DEF In
  <2>2. i + 1 \in 1 .. n
    OBVIOUS
  <2>. QED  BY <1>1, <1>3, <2>1, <2>2 DEF In
<1>6. In(s[1], s)
  <2>1. 1 \in 1 .. n
    OBVIOUS
  <2>. QED  BY <1>1, <2>1 DEF In
<1>. QED  BY <1>2, <1>4, <1>5, <1>6 DEF r

LEMMA InConcat ==
  ASSUME NEW S, NEW c \in Seq(S), NEW r \in Seq(S)
  PROVE  \A q : In(q, c \o r) <=> In(q, c) \/ In(q, r)
<1>. DEFINE g == c \o r
<1>1. PICK k \in Nat : k = Len(c)
  OBVIOUS
<1>2. PICK l \in Nat : l = Len(r)
  OBVIOUS
<1>3. Len(g) = k + l
  BY <1>1, <1>2
<1>4. \A i \in 1 .. k : g[i] = c[i]
  BY <1>1, <1>2
<1>5. \A i \in 1 .. l : g[k + i] = r[i]
  BY <1>1, <1>2
<1>. HIDE DEF g
<1>6. ASSUME NEW q, In(q, g) PROVE In(q, c) \/ In(q, r)
  <2>1. PICK i \in 1 .. k + l : g[i] = q
    BY <1>3, <1>6 DEF In
  <2>2. CASE i <= k
    <3>1. i \in 1 .. k
      BY <2>2
    <3>. QED  BY <1>1, <1>4, <2>1, <3>1 DEF In
  <2>3. CASE ~ (i <= k)
    <3>1. i - k \in 1 .. l /\ k + (i - k) = i
      BY <2>3
    <3>2. r[i - k] = q
      BY <1>5, <2>1, <3>1
    <3>. QED  BY <1>2, <3>1, <3>2 DEF In
  <2>. QED  BY <2>2, <2>3
<1>7. ASSUME NEW q, In(q, c) PROVE In(q, g)
  <2>1. PICK i \in 1 .. k : c[i] = q
    BY <1>1, <1>7 DEF In
  <2>2. i \in 1 .. k + l
    OBVIOUS
  <2>. QED  BY <1>3, <1>4, <2>1, <2>2 DEF In
<1>8. ASSUME NEW q, In(q, r) PROVE In(q, g)
  <2>1. PICK i \in 1 .. l : r[i] = q
    BY <1>2, <1>8 DEF In
  <2>2. k + i \in 1 .. k + l
    OBVIOUS
  <2>. QED  BY <1>3, <1>5, <2>1, <2>2 DEF In
<1>. QED  BY <1>6, <1>7, <1>8 DEF g

\* What List puts before the rest: the entries of the directory.
LEMMA ListedPaths ==
  ASSUME CleanFiles, PlainFiles, DumpInv, Queue, List, dpc' = "walk"
  PROVE  /\ UNCHANGED <<vars, fs, opened, omit, node, result, calm>>
         /\ \A q : In(q, todo') <=> q \in Children(Head(todo)) \/ In(q, Tail(todo))
         /\ \A q \in Children(Head(todo)) : q \in FilePath
         /\ todo # <<>> /\ Head(todo) \in FilePath /\ dpc = "list" /\ cpc = "idle"
<1>. DEFINE p == Head(todo)
<1>1. /\ dpc = "list" /\ cpc = "idle" /\ UNCHANGED <<vars, fs, opened, omit, node, result, calm>>
      /\ \E s \in Seqs!SetToSeqs(Children(p)) : todo' = s \o Tail(todo)
  BY DEF List, At, Breaks, Abort
<1>2. PICK c \in Seqs!SetToSeqs(Children(p)) : todo' = c \o Tail(todo)
  BY <1>1
<1>3. todo \in Seq(FilePath) /\ todo # <<>> /\ fs \in FileSystems
  BY <1>1 DEF Queue, DumpInv, DumpType
<1>4. Tail(todo) \in Seq(FilePath) /\ p \in FilePath
  BY <1>3, InTail
<1>5. p \in ProperPath
  BY <1>4, FilePathIs
<1>. HIDE DEF p
<1>6. c \in Seq(FilePath)
  BY <1>3, <1>5, EntriesAreFiles
<1>7. \A q : In(q, c) <=> q \in Children(p)
  BY <1>3, AllEntries DEF In
<1>8. \A q : In(q, todo') <=> In(q, c) \/ In(q, Tail(todo))
  BY <1>2, <1>4, <1>6, InConcat
<1>9. \A q \in Children(p) : q \in FilePath
  <2>1. \A i \in 1 .. Len(c) : c[i] \in FilePath
    BY <1>6, ElementOf
  <2>. QED  BY <1>7, <2>1 DEF In
<1>. QED  BY <1>1, <1>3, <1>4, <1>7, <1>8, <1>9 DEF p

\* A path that is still to be dumped is not above what was dumped, but for
\* the one that the walk is at.
Once ==
  /\ \A i \in 1 .. Len(accepted) : \A q : In(q, todo) /\ IsPrefixOf(q, accepted[i].path) =>
       i = Len(accepted) /\ q = Last
  /\ \A i, j \in 1 .. Len(accepted) : i # j => accepted[i].path # accepted[j].path

LEMMA OnceSent ==
  ASSUME DumpInv, Queue, Once, Emitter, HeaderDone
  PROVE  Once'
<1>. DEFINE h == arg[1]
            n == Len(accepted)
            g == Append(accepted, h)
<1>1. /\ UNCHANGED todo /\ accepted' = g /\ cpc = "select" /\ Sending
  BY DEF Emitter, dump, HeaderDone, Sending
<1>2. /\ todo \in Seq(FilePath) /\ todo # <<>> /\ Apart(todo)
      /\ h.path = Head(todo)
      /\ accepted # <<>> => Beside(todo, Last)
  BY <1>1 DEF Queue, DumpInv, DumpType, Fresh, Honest
<1>3. accepted \in Seq(Header) /\ h \in Header /\ n \in Nat
  <2>1. accepted \in Seq(Header)
    BY HeaderStack DEF DumpInv, ArchiveInv
  <2>2. arg \in Seq(Header) /\ Len(arg) = 1
    BY <1>1 DEF DumpInv, ArchiveInv, IInv, TypeOK, HeadersReady
  <2>. QED  BY <2>1, <2>2, OneElement
<1>4. g \in Seq(Header) /\ Len(g) = n + 1 /\ g[n + 1] = h /\ \A i \in 1 .. n : g[i] = accepted[i]
  BY <1>3
<1>5. ASSUME NEW q, In(q, todo) PROVE q \in Seq(Strings)
  <2>1. \A i \in 1 .. Len(todo) : todo[i] \in FilePath
    BY <1>2, ElementOf
  <2>. QED  BY <1>5, <2>1, FilePathIs DEF In
<1>6. In(Head(todo), todo)
  BY <1>2, InTail
<1>. HIDE DEF g, h
<1>7. ASSUME NEW i \in 1 .. n, NEW q, In(q, todo) PROVE ~ IsPrefixOf(q, accepted[i].path)
  <2>. SUFFICES ASSUME IsPrefixOf(q, accepted[i].path) PROVE FALSE
    OBVIOUS
  <2>1. q = Last
    BY <1>7 DEF Once
  <2>2. accepted # <<>>
    BY <1>3
  <2>3. ~ IsPrefixOf(q, Last)
    BY <1>2, <1>7, <2>2 DEF Beside, In
  <2>4. q \in Seq(Strings)
    BY <1>5, <1>7
  <2>. QED  BY <2>1, <2>3, <2>4, PrefixItself
<1>8. ASSUME NEW q, In(q, todo), IsPrefixOf(q, Head(todo)) PROVE q = Head(todo)
  <2>1. PICK k \in 1 .. Len(todo) : todo[k] = q
    BY <1>8 DEF In
  <2>2. Head(todo) = todo[1] /\ 1 \in 1 .. Len(todo)
    BY <1>2
  <2>3. k = 1
    BY <1>2, <1>8, <2>1, <2>2 DEF Apart
  <2>. QED  BY <2>1, <2>2, <2>3
<1>9. Len(accepted') = n + 1 /\ Last' = Head(todo)
  BY <1>1, <1>2, <1>4 DEF Last, LastOf
<1>10. ASSUME NEW i \in 1 .. n + 1, NEW q, In(q, todo), IsPrefixOf(q, g[i].path)
       PROVE  i = n + 1 /\ q = Head(todo)
  <2>1. CASE i \in 1 .. n
    BY <1>4, <1>7, <1>10, <2>1
  <2>2. CASE i \notin 1 .. n
    <3>1. i = n + 1
      BY <1>3, <2>2
    <3>. QED  BY <1>2, <1>4, <1>8, <1>10, <3>1
  <2>. QED  BY <2>1, <2>2
<1>11. ASSUME NEW i \in 1 .. n + 1, NEW j \in 1 .. n + 1, i # j PROVE g[i].path # g[j].path
  <2>1. \A k \in 1 .. n : g[k].path # Head(todo)
    <3>1. Head(todo) \in Seq(Strings) /\ IsPrefixOf(Head(todo), Head(todo))
      BY <1>5, <1>6, PrefixItself
    <3>. QED  BY <1>4, <1>6, <1>7, <3>1
  <2>2. CASE i \in 1 .. n /\ j \in 1 .. n
    BY <1>4, <1>11, <2>2 DEF Once
  <2>3. CASE i \notin 1 .. n
    <3>1. i = n + 1 /\ j \in 1 .. n
      BY <1>3, <1>11, <2>3
    <3>. QED  BY <1>2, <1>4, <2>1, <3>1
  <2>4. CASE j \notin 1 .. n
    <3>1. j = n + 1 /\ i \in 1 .. n
      BY <1>3, <1>11, <2>4
    <3>. QED  BY <1>2, <1>4, <2>1, <3>1
  <2>. QED  BY <2>2, <2>3, <2>4
<1>. QED  BY <1>1, <1>9, <1>10, <1>11 DEF Once

LEMMA StepOnce ==
  ASSUME CleanFiles, PlainFiles, DumpInv, Queue, Once, [DumpNext]_dumpVars
  PROVE  Once'
<1>. DEFINE Fewer == UNCHANGED accepted /\ \A q : In(q, todo') => In(q, todo)
<1>1. ASSUME Fewer PROVE Once'
  <2>1. Last' = Last
    BY <1>1 DEF Last
  <2>. QED  BY <1>1, <2>1 DEF Once
<1>2. CASE List
  <2>1. CASE dpc' = "walk"
    <3>. DEFINE p == Head(todo)
    <3>1. /\ UNCHANGED accepted /\ dpc = "list" /\ p \in FilePath
          /\ \A q : In(q, todo') <=> q \in Children(p) \/ In(q, Tail(todo))
          /\ \A q \in Children(p) : q \in FilePath
          /\ In(p, todo) /\ \A q : In(q, Tail(todo)) => In(q, todo)
      <4>1. todo \in Seq(FilePath)
        BY DEF Queue
      <4>. QED  BY <1>2, <2>1, <4>1, ListedPaths, InTail DEF vars
    <3>2. Last = p /\ accepted # <<>> /\ Last' = Last
      BY <3>1 DEF DumpInv, Fresh, Last
    <3>. HIDE DEF p
    <3>3. ASSUME NEW i \in 1 .. Len(accepted), NEW q \in Children(p),
                 IsPrefixOf(q, accepted[i].path)
          PROVE  FALSE
      <4>1. /\ q \in Seq(Strings) /\ p \in Seq(Strings) /\ IsPrefixOf(p, q)
            /\ Len(q) = Len(p) + 1 /\ Len(p) \in Nat
        BY <3>1, FilePathIs DEF Children
      <4>2. accepted[i].path \in Seq(Strings)
        <5>1. accepted \in Seq(Header)
          BY HeaderStack DEF DumpInv, ArchiveInv
        <5>2. accepted[i] \in Header
          BY <5>1, ElementOfSeq
        <5>. QED  BY <5>2 DEF Header
      <4>3. IsPrefixOf(p, accepted[i].path)
        BY <3>3, <4>1, <4>2, PrefixTransitive
      <4>4. accepted[i].path = p
        BY <3>1, <3>2, <4>3 DEF Once, Last, LastOf
      <4>. QED  BY <3>3, <4>1, <4>4 DEF IsPrefixOf
    <3>4. ASSUME NEW i \in 1 .. Len(accepted), NEW q, In(q, todo'), IsPrefixOf(q, accepted[i].path)
          PROVE  i = Len(accepted) /\ q = Last
      BY <3>1, <3>3, <3>4 DEF Once
    <3>. QED  BY <3>1, <3>2, <3>4 DEF Once
  <2>2. CASE dpc' # "walk"
    <3>1. UNCHANGED <<todo, accepted>>
      BY <1>2, <2>2 DEF List, Breaks, Abort, vars
    <3>. QED  BY <1>1, <3>1
  <2>. QED  BY <2>1, <2>2
<1>3. CASE Lstat \/ HeaderSent \/ Copy
  <2>1. accepted' = accepted
    BY <1>3 DEF Lstat, HeaderSent, Copy, vars, caller
  <2>2. todo' = todo \/ (todo # <<>> /\ todo' = Tail(todo))
    BY <1>3 DEF Lstat, HeaderSent, Copy, Breaks, Abort, dump, At, DumpInv, DumpType
  <2>3. todo \in Seq(FilePath)
    BY DEF Queue
  <2>4. \A q : In(q, todo') => In(q, todo)
    BY <2>2, <2>3, InTail
  <2>. QED  BY <1>1, <2>1, <2>4
<1>4. CASE SendHeader \/ Open \/ CloseWriter \/ DumpReturn \/ Change \/ UNCHANGED dumpVars
  <2>1. UNCHANGED <<todo, accepted>>
    BY <1>4 DEF SendHeader, WriteHeader, Open, CloseWriter, Close, DumpReturn, Change, dumpVars,
                Breaks, Abort, dump, vars
  <2>. QED  BY <1>1, <2>1
<1>5. CASE Emitter
  <2>1. UNCHANGED todo /\ Library
    BY <1>5 DEF Emitter, dump
  <2>2. CASE HeaderDone
    BY <1>5, <2>2, OnceSent
  <2>3. CASE ~ HeaderDone
    <3>1. UNCHANGED accepted
      BY <2>1, <2>3 DEF Library, First, EmitNode, Receive, Leave, Reject, Enter, Return, TakeError,
                        CloseReturns, caller
    <3>. QED  BY <1>1, <2>1, <3>1
  <2>. QED  BY <2>2, <2>3
<1>. QED  BY <1>2, <1>3, <1>4, <1>5 DEF DumpNext, Walk

LEMMA FilesAre ==
  ASSUME DumpInv
  PROVE  /\ fs \in FileSystems
         /\ \A p \in DOMAIN fs : p \in Seq(Strings) /\ Len(p) \in Nat /\ fs[p] \in Node
         /\ \A p : Met(p) => p \in DOMAIN fs
  BY DumpPathAssumption DEF DumpInv, DumpType, Met

\* A file below h is below an entry of it, and h is a directory.
LEMMA BelowIsEntry ==
  ASSUME FileTrees, DumpInv, NEW h \in Seq(Strings), NEW p \in DOMAIN fs, IsPrefixOf(h, p), h # p
  PROVE  /\ h \in DOMAIN fs /\ fs[h].type = "directory" /\ h = SubSeq(p, 1, Len(h))
         /\ Len(h) \in 0 .. Len(p) - 1
         /\ \E q \in Children(h) : IsPrefixOf(q, p)
<1>1. fs \in FileSystems /\ p \in Seq(Strings)
  BY FilesAre
<1>2. PICK n \in Nat : n = Len(h)
  OBVIOUS
<1>3. PICK m \in Nat : m = Len(p)
  BY <1>1
<1>4. h = SubSeq(p, 1, n) /\ n <= m
  BY <1>2, <1>3 DEF IsPrefixOf
<1>5. n # m
  <2>. SUFFICES ASSUME n = m PROVE FALSE
    OBVIOUS
  <2>. QED  BY <1>1, <1>2, <1>3, PrefixOfLength
<1>6. n \in 0 .. m - 1 /\ n + 1 \in 1 .. m /\ n + 1 \in 0 .. m
  BY <1>4, <1>5
<1>7. h \in DOMAIN fs /\ fs[h].type = "directory"
  BY <1>1, <1>3, <1>4, <1>6 DEF FileTrees
<1>. DEFINE q == SubSeq(p, 1, n + 1)
<1>8. q \in Seq(Strings) /\ \A i \in 1 .. n + 1 : q[i] = p[i]
  BY <1>1, <1>3, <1>6
<1>9. Len(q) = n + 1
  <2>1. \A k \in Nat : Len(SubSeq(p, 1, k)) = k
    BY <1>1
  <2>2. n + 1 \in Nat
    BY <1>2
  <2>. QED  BY <2>1, <2>2, Zenon
<1>10. q \in DOMAIN fs
  <2>1. CASE n + 1 = m
    <3>. HIDE DEF q
    <3>1. q = p
      BY <1>1, <1>3, <1>8, <1>9, <2>1, SeqEqual
    <3>. QED  BY <3>1
  <2>2. CASE n + 1 # m
    <3>1. n + 1 \in 0 .. m - 1
      BY <1>6, <2>2
    <3>. QED  BY <1>1, <1>3, <3>1 DEF FileTrees
  <2>. QED  BY <2>1, <2>2
<1>. HIDE DEF q
<1>11. \A i \in 1 .. n : h[i] = p[i]
  BY <1>1, <1>2, PrefixIs
<1>12. IsPrefixOf(h, q)
  <2>1. \A i \in 1 .. n : i \in 1 .. n + 1
    BY <1>2
  <2>2. \A i \in 1 .. n : h[i] = q[i]
    BY <1>8, <1>11, <2>1
  <2>. QED  BY <1>2, <1>8, <1>9, <2>2, PrefixIs
<1>13. IsPrefixOf(q, p)
  BY <1>1, <1>3, <1>6, <1>8, <1>9, PrefixIs
<1>14. q \in Children(h)
  BY <1>2, <1>9, <1>10, <1>12 DEF Children
<1>. QED  BY <1>2, <1>3, <1>4, <1>6, <1>7, <1>13, <1>14

\* The walk comes to the entries of a directory it has come to.
LEMMA EntryMet ==
  ASSUME DumpInv, NEW h, Met(h), h \notin omit, NEW q \in Children(h)
  PROVE  Met(q)
<1>1. /\ h \in Seq(Strings) /\ q \in Seq(Strings) /\ q \in DOMAIN fs
      /\ \A i \in 0 .. Len(h) - 1 : SubSeq(h, 1, i) \notin omit
      /\ Len(q) = Len(h) + 1 /\ h = SubSeq(q, 1, Len(h)) /\ IsPrefixOf(h, q)
  BY FilesAre DEF Met, Children, IsPrefixOf
<1>2. PICK n \in Nat : n = Len(h)
  <2>1. h \in Seq(Strings)
    BY <1>1
  <2>2. Len(h) \in Nat
    BY <2>1
  <2>. QED  BY <2>2
<1>3. \A i \in 1 .. n : h[i] = q[i]
  BY <1>1, <1>2, PrefixIs
<1>4. ASSUME NEW i \in 0 .. n - 1 PROVE SubSeq(q, 1, i) = SubSeq(h, 1, i)
  <2>. DEFINE a == SubSeq(q, 1, i)
              b == SubSeq(h, 1, i)
  <2>1. i \in Nat /\ i \in 0 .. n /\ i \in 0 .. n + 1 /\ \A j \in 1 .. i : j \in 1 .. n
    BY <1>2
  <2>2. a \in Seq(Strings) /\ \A j \in 1 .. i : a[j] = q[j]
    BY <1>1, <1>2, <2>1
  <2>3. b \in Seq(Strings) /\ \A j \in 1 .. i : b[j] = h[j]
    BY <1>1, <1>2, <2>1
  <2>4. Len(a) = i
    <3>1. \A k \in Nat : Len(SubSeq(q, 1, k)) = k
      BY <1>1
    <3>. QED  BY <2>1, <3>1, Zenon
  <2>5. Len(b) = i
    <3>1. \A k \in Nat : Len(SubSeq(h, 1, k)) = k
      BY <1>1
    <3>. QED  BY <2>1, <3>1, Zenon
  <2>. HIDE DEF a, b
  <2>6. a = b
    BY <1>3, <2>1, <2>2, <2>3, <2>4, <2>5, SeqEqual
  <2>. QED  BY <2>6 DEF a, b
<1>5. ASSUME NEW i \in 0 .. Len(q) - 1 PROVE SubSeq(q, 1, i) \notin omit
  <2>1. CASE i = n
    BY <1>1, <1>2, <2>1
  <2>2. CASE i # n
    <3>1. Len(q) = n + 1
      BY <1>1, <1>2
    <3>2. i \in 0 .. (n + 1) - 1
      BY <3>1
    <3>3. i \in 0 .. n - 1
      BY <2>2, <3>2
    <3>4. SubSeq(q, 1, i) = SubSeq(h, 1, i)
      BY <1>4, <3>3
    <3>. QED  BY <1>1, <1>2, <3>3, <3>4
  <2>. QED  BY <2>1, <2>2
<1>. QED  BY <1>1, <1>5 DEF Met

Dumped(p) == \E i \in 1 .. Len(accepted) : accepted[i].path = p

\* Every file that the walk comes to is dumped, omitted, or still to come.
Accounted ==
  /\ \A q : In(q, todo) => Met(q)
  /\ dpc \in {"node", "sent", "list", "open", "copy"} =>
       node = fs[Head(todo)] /\ Head(todo) \notin omit
  /\ dpc = "copy" => opened = node.size
  /\ \A i \in 1 .. Len(accepted) : accepted[i].path \in Kept
       /\ accepted[i] = HeaderOf(accepted[i].path, fs[accepted[i].path])
  /\ \A p : Met(p) => \/ Dumped(p)
                      \/ p \in omit /\ fs[p].type # "other"
                      \/ \E q : In(q, todo) /\ IsPrefixOf(q, p)

LEMMA SameFiles ==
  ASSUME UNCHANGED <<fs, omit>>
  PROVE  /\ \A p : Met(p)' <=> Met(p)
         /\ Kept' = Kept
  BY DEF Met, Kept

\* The walk is through with a path when nothing is below it.
LEMMA PopAccounted ==
  ASSUME FileTrees, DumpInv, Queue, Accounted, UNCHANGED <<fs, omit, accepted>>,
         todo # <<>>, todo' = Tail(todo), dpc' = "walk",
         \/ Head(todo) \in omit /\ fs[Head(todo)].type # "other"
         \/ Dumped(Head(todo)) /\ fs[Head(todo)].type # "directory"
  PROVE  Accounted'
<1>. DEFINE h == Head(todo)
<1>1. todo \in Seq(FilePath)
  BY DEF Queue
<1>2. /\ \A q : In(q, todo) <=> q = h \/ In(q, Tail(todo))
      /\ h \in Seq(Strings)
  BY <1>1, InTail, FilePathIs
<1>. HIDE DEF h
<1>3. ASSUME NEW p, Met(p), IsPrefixOf(h, p)
      PROVE  Dumped(p) \/ (p \in omit /\ fs[p].type # "other")
  <2>1. p \in DOMAIN fs
    BY <1>3 DEF Met
  <2>2. CASE p = h
    BY <2>2 DEF h
  <2>3. CASE p # h
    <3>1. /\ fs[h].type = "directory" /\ h = SubSeq(p, 1, Len(h))
          /\ Len(h) \in 0 .. Len(p) - 1
      BY <1>2, <1>3, <2>1, <2>3, BelowIsEntry
    <3>2. h \notin omit
      BY <1>3, <3>1 DEF Met
    <3>. QED  BY <3>1, <3>2 DEF h
  <2>. QED  BY <2>2, <2>3
<1>4. \A p : Met(p) => \/ Dumped(p)
                       \/ p \in omit /\ fs[p].type # "other"
                       \/ \E q : In(q, Tail(todo)) /\ IsPrefixOf(q, p)
  BY <1>2, <1>3 DEF Accounted
<1>5. \A p : Dumped(p)' <=> Dumped(p)
  BY DEF Dumped
<1>6. \A q : In(q, todo)' <=> In(q, Tail(todo))
  BY DEF In
<1>7. \A q : In(q, todo)' => Met(q)
  BY <1>2, <1>6 DEF Accounted
<1>8. \A i \in 1 .. Len(accepted) : accepted[i].path \in Kept
        /\ accepted[i] = HeaderOf(accepted[i].path, fs[accepted[i].path])
  BY DEF Accounted
<1>9. \A i \in 1 .. Len(accepted) : (accepted[i].path \in Kept
        /\ accepted[i] = HeaderOf(accepted[i].path, fs[accepted[i].path]))'
  BY <1>8, SameFiles DEF HeaderOf
<1>10. \A p : Met(p)' => \/ Dumped(p)'
                         \/ p \in omit' /\ fs'[p].type # "other"
                         \/ \E q : In(q, todo)' /\ IsPrefixOf(q, p)
  BY <1>4, <1>5, <1>6, SameFiles
<1>11. \A q : In(q, todo)' => Met(q)'
  BY <1>7, SameFiles
<1>12. UNCHANGED accepted
  OBVIOUS
<1>. QED  BY <1>9, <1>10, <1>11, <1>12 DEF Accounted

LEMMA KeepAccounted ==
  ASSUME Accounted, UNCHANGED <<fs, omit, todo, accepted>>,
         dpc' \in {"node", "sent", "list", "open", "copy"} =>
           node' = fs[Head(todo)] /\ Head(todo) \notin omit,
         dpc' = "copy" => opened' = node'.size
  PROVE  Accounted'
<1>1. \A p : (Dumped(p)' <=> Dumped(p)) /\ (In(p, todo)' <=> In(p, todo))
  BY DEF Dumped, In
<1>2. \A i \in 1 .. Len(accepted) : accepted[i].path \in Kept
        /\ accepted[i] = HeaderOf(accepted[i].path, fs[accepted[i].path])
  BY DEF Accounted
<1>3. \A i \in 1 .. Len(accepted) : (accepted[i].path \in Kept
        /\ accepted[i] = HeaderOf(accepted[i].path, fs[accepted[i].path]))'
  BY <1>2, SameFiles DEF HeaderOf
<1>4. \A q : In(q, todo)' => Met(q)'
  BY <1>1, SameFiles DEF Accounted
<1>5. \A p : Met(p)' => \/ Dumped(p)'
                        \/ p \in omit' /\ fs'[p].type # "other"
                        \/ \E q : In(q, todo)' /\ IsPrefixOf(q, p)
  BY <1>1, SameFiles DEF Accounted
<1>6. UNCHANGED <<fs, omit, todo, accepted>>
  OBVIOUS
<1>. QED  BY <1>3, <1>4, <1>5, <1>6 DEF Accounted

LEMMA ListAccounted ==
  ASSUME FileTrees, CleanFiles, PlainFiles, DumpInv, Queue, Accounted, List, dpc' = "walk"
  PROVE  Accounted'
<1>. DEFINE h == Head(todo)
<1>1. /\ UNCHANGED <<vars, fs, opened, omit, node, result, calm>>
      /\ \A q : In(q, todo') <=> q \in Children(h) \/ In(q, Tail(todo))
      /\ todo # <<>> /\ h \in FilePath /\ dpc = "list"
  BY ListedPaths
<1>2. todo \in Seq(FilePath)
  BY DEF Queue
<1>3. (\A q : In(q, todo) <=> q = h \/ In(q, Tail(todo))) /\ h \in Seq(Strings)
  BY <1>1, <1>2, InTail, FilePathIs
<1>4. Dumped(h)
  <2>1. accepted # <<>> /\ Last = h /\ accepted \in Seq(Header)
    BY <1>1, HeaderStack DEF DumpInv, Fresh, ArchiveInv
  <2>2. Len(accepted) \in 1 .. Len(accepted)
    BY <2>1, EmptySeq
  <2>. QED  BY <2>1, <2>2 DEF Dumped, Last, LastOf
<1>5. Met(h) /\ h \notin omit
  BY <1>1, <1>3 DEF Accounted
<1>. HIDE DEF h
<1>6. UNCHANGED <<fs, omit, accepted>>
  BY <1>1 DEF vars
<1>7. ASSUME NEW q, In(q, todo') PROVE Met(q)
  <2>1. CASE q \in Children(h)
    BY <1>5, <2>1, EntryMet
  <2>2. CASE In(q, Tail(todo))
    BY <1>3, <2>2 DEF Accounted
  <2>. QED  BY <1>1, <1>7, <2>1, <2>2
<1>8. ASSUME NEW p, Met(p)
      PROVE  \/ Dumped(p)
             \/ p \in omit /\ fs[p].type # "other"
             \/ \E q : In(q, todo') /\ IsPrefixOf(q, p)
  <2>1. p \in DOMAIN fs
    BY <1>8 DEF Met
  <2>2. CASE IsPrefixOf(h, p) /\ h # p
    <3>1. PICK q \in Children(h) : IsPrefixOf(q, p)
      BY <1>3, <2>1, <2>2, BelowIsEntry
    <3>. QED  BY <1>1, <3>1
  <2>3. CASE ~ (IsPrefixOf(h, p) /\ h # p)
    BY <1>1, <1>3, <1>4, <1>8, <2>3 DEF Accounted
  <2>. QED  BY <2>2, <2>3
<1>9. \A i \in 1 .. Len(accepted) : accepted[i].path \in Kept
        /\ accepted[i] = HeaderOf(accepted[i].path, fs[accepted[i].path])
  BY DEF Accounted
<1>10. \A i \in 1 .. Len(accepted) : (accepted[i].path \in Kept
        /\ accepted[i] = HeaderOf(accepted[i].path, fs[accepted[i].path]))'
  BY <1>6, <1>9, SameFiles DEF HeaderOf
<1>11. \A q : In(q, todo)' => Met(q)'
  <2>1. \A q : In(q, todo)' <=> In(q, todo')
    BY DEF In
  <2>. QED  BY <1>6, <1>7, <2>1, SameFiles
<1>12. \A p : Met(p)' => \/ Dumped(p)'
                         \/ p \in omit' /\ fs'[p].type # "other"
                         \/ \E q : In(q, todo)' /\ IsPrefixOf(q, p)
  <2>1. \A p : (Dumped(p)' <=> Dumped(p)) /\ (In(p, todo)' <=> In(p, todo'))
    BY <1>6 DEF Dumped, In
  <2>. QED  BY <1>6, <1>8, <2>1, SameFiles
<1>. QED  BY <1>6, <1>10, <1>11, <1>12 DEF Accounted

LEMMA SentAccounted ==
  ASSUME DumpInv, Passed, Accounted, Emitter, HeaderDone
  PROVE  Accounted'
<1>. DEFINE g == Append(accepted, arg[1])
            n == Len(accepted)
            h == Head(todo)
<1>1. /\ UNCHANGED <<fs, omit, todo, dpc, node, opened>> /\ accepted' = g
      /\ cpc = "select" /\ Sending
  BY DEF Emitter, dump, HeaderDone, Sending
<1>2. /\ arg[1] = HeaderOf(h, node) /\ dpc = "sent" /\ todo # <<>>
      /\ todo \in Seq(ProperPath)
  BY <1>1 DEF Passed, DumpInv, Honest, DumpType
<1>3. accepted \in Seq(Header) /\ arg[1] \in Header /\ n \in Nat
  <2>1. accepted \in Seq(Header)
    BY HeaderStack DEF DumpInv, ArchiveInv
  <2>2. arg \in Seq(Header) /\ Len(arg) = 1
    BY <1>1 DEF DumpInv, ArchiveInv, IInv, TypeOK, HeadersReady
  <2>. QED  BY <2>1, <2>2, OneElement
<1>4. Len(g) = n + 1 /\ g[n + 1] = arg[1] /\ \A i \in 1 .. n : g[i] = accepted[i]
  BY <1>3
<1>5. node = fs[h] /\ h \notin omit /\ Met(h) /\ h \in DOMAIN fs
  <2>1. In(h, todo)
    BY <1>2, InTail
  <2>. QED  BY <1>2, <2>1 DEF Accounted, Met
<1>. HIDE DEF g, h
<1>6. h \in Kept /\ arg[1] = HeaderOf(h, fs[h]) /\ arg[1].path = h
  BY <1>2, <1>5 DEF Kept, HeaderOf
<1>7. ASSUME NEW i \in 1 .. n + 1
      PROVE  g[i].path \in Kept /\ g[i] = HeaderOf(g[i].path, fs[g[i].path])
  <2>1. CASE i \in 1 .. n
    BY <1>4, <2>1 DEF Accounted
  <2>2. CASE i \notin 1 .. n
    <3>1. i = n + 1
      BY <1>3, <2>2
    <3>. QED  BY <1>4, <1>6, <3>1
  <2>. QED  BY <2>1, <2>2
<1>8. \A p : Dumped(p) => Dumped(p)'
  <2>. SUFFICES ASSUME NEW p, NEW i \in 1 .. n, accepted[i].path = p
                PROVE  \E j \in 1 .. n + 1 : g[j].path = p
    BY <1>1, <1>4 DEF Dumped
  <2>1. i \in 1 .. n + 1
    BY <1>3
  <2>. QED  BY <1>4, <2>1
<1>9. \A p : In(p, todo)' <=> In(p, todo)
  BY <1>1 DEF In
<1>10. Len(accepted') = n + 1 /\ accepted' = g
  BY <1>1, <1>4
<1>11. \A i \in 1 .. Len(accepted') : (accepted[i].path \in Kept
         /\ accepted[i] = HeaderOf(accepted[i].path, fs[accepted[i].path]))'
  BY <1>1, <1>7, <1>10, SameFiles DEF HeaderOf
<1>12. \A q : In(q, todo)' => Met(q)'
  BY <1>1, <1>9, SameFiles DEF Accounted
<1>13. \A p : Met(p)' => \/ Dumped(p)'
                         \/ p \in omit' /\ fs'[p].type # "other"
                         \/ \E q : In(q, todo)' /\ IsPrefixOf(q, p)
  BY <1>1, <1>8, <1>9, SameFiles DEF Accounted
<1>14. dpc' = "sent" /\ node' = fs'[Head(todo')] /\ Head(todo') \notin omit'
  BY <1>1, <1>2, <1>5 DEF h
<1>. QED  BY <1>11, <1>12, <1>13, <1>14 DEF Accounted

LEMMA StepAccounted ==
  ASSUME FileTrees, CleanFiles, PlainFiles, DumpInv, Queue, Passed, Accounted,
         [DumpNext]_dumpVars, calm'
  PROVE  Accounted'
<1>. DEFINE h == Head(todo)
<1>1. /\ dpc \in {"node", "sent", "list", "open", "copy"} =>
           node = fs[h] /\ h \notin omit /\ todo # <<>>
      /\ dpc = "copy" => opened = node.size
  BY DEF Accounted, DumpInv, DumpType
<1>2. AtEntry => Dumped(h)
  <2>. SUFFICES ASSUME AtEntry PROVE Dumped(h)
    OBVIOUS
  <2>1. accepted # <<>> /\ Last = h /\ accepted \in Seq(Header)
    BY HeaderStack DEF DumpInv, Fresh, ArchiveInv, AtEntry
  <2>2. Len(accepted) \in 1 .. Len(accepted)
    BY <2>1, EmptySeq
  <2>. QED  BY <2>1, <2>2 DEF Dumped, Last, LastOf
<1>. HIDE DEF h
<1>3. CASE Lstat
  <2>1. UNCHANGED <<fs, omit, accepted>> /\ todo # <<>>
    BY <1>3 DEF Lstat, vars, Abort, Breaks
  <2>2. \/ h \in omit /\ fs[h].type \in Types /\ todo' = Tail(todo) /\ dpc' = "walk"
        \/ h \notin omit /\ node' = fs[h] /\ dpc' = "node" /\ UNCHANGED todo
        \/ dpc' = "abort" /\ UNCHANGED todo
    BY <1>3 DEF Lstat, At, Abort, Breaks, h
  <2>3. CASE h \in omit /\ fs[h].type \in Types /\ todo' = Tail(todo) /\ dpc' = "walk"
    BY <2>1, <2>3, PopAccounted DEF Types, h
  <2>4. CASE h \notin omit /\ node' = fs[h] /\ dpc' = "node" /\ UNCHANGED todo
    BY <2>1, <2>4, KeepAccounted DEF h
  <2>5. CASE dpc' = "abort" /\ UNCHANGED todo
    BY <2>1, <2>5, KeepAccounted
  <2>. QED  BY <2>2, <2>3, <2>4, <2>5
<1>4. CASE SendHeader
  <2>1. /\ UNCHANGED <<fs, omit, todo, accepted, node>> /\ dpc = "node" /\ dpc' \in {"sent", "abort"}
    BY <1>4 DEF SendHeader, WriteHeader, At, Breaks, Abort, vars
  <2>. QED  BY <1>1, <2>1, KeepAccounted DEF h
<1>5. CASE HeaderSent
  <2>1. /\ UNCHANGED <<fs, omit, accepted, node>> /\ dpc = "sent" /\ cpc = "idle"
        /\ \/ dpc' = "abort" /\ UNCHANGED todo
           \/ outcome = "ok" /\ node.type = "symlink" /\ todo' = Tail(todo) /\ dpc' = "walk"
           \/ dpc' \in {"list", "open"} /\ UNCHANGED todo
    BY <1>5 DEF HeaderSent, At, Abort, vars
  <2>2. CASE outcome = "ok" /\ node.type = "symlink" /\ todo' = Tail(todo) /\ dpc' = "walk"
    <3>1. AtEntry
      BY <2>1, <2>2 DEF AtEntry
    <3>. QED  BY <1>1, <1>2, <2>1, <2>2, <3>1, PopAccounted DEF h
  <2>3. CASE dpc' \in {"abort", "list", "open"} /\ UNCHANGED todo
    BY <1>1, <2>1, <2>3, KeepAccounted DEF h
  <2>. QED  BY <2>1, <2>2, <2>3
<1>6. CASE List
  <2>1. dpc' = "walk"
    BY <1>6 DEF List, Breaks
  <2>. QED  BY <1>6, <2>1, ListAccounted
<1>7. CASE Open
  <2>1. /\ UNCHANGED <<fs, omit, todo, accepted, node>> /\ dpc = "open" /\ dpc' = "copy"
        /\ (fs[h].type = "regular" /\ opened' = fs[h].size) \/ fs[h].type = "symlink"
    BY <1>7 DEF Open, At, Breaks, vars, h
  <2>2. node.type = "regular"
    BY <2>1 DEF Passed
  <2>. QED  BY <1>1, <2>1, <2>2, KeepAccounted DEF h
<1>8. CASE Copy
  <2>1. /\ UNCHANGED <<fs, omit, accepted, node, opened>> /\ dpc = "copy"
        /\ \/ dpc' \in {"copy", "abort"} /\ UNCHANGED todo
           \/ dpc' = "walk" /\ todo' = Tail(todo)
    BY <1>8 DEF Copy, At, Breaks, Abort, dump, caller
  <2>2. CASE dpc' \in {"copy", "abort"} /\ UNCHANGED todo
    BY <1>1, <2>1, <2>2, KeepAccounted DEF h
  <2>3. CASE dpc' = "walk" /\ todo' = Tail(todo)
    <3>1. AtEntry /\ node.type = "regular"
      BY <2>1 DEF AtEntry, Passed
    <3>. QED  BY <1>1, <1>2, <2>1, <2>3, <3>1, PopAccounted DEF h
  <2>. QED  BY <2>1, <2>2, <2>3
<1>9. CASE CloseWriter \/ DumpReturn
  <2>1. UNCHANGED <<fs, omit, todo, accepted>> /\ dpc' \in {"close", "returned"}
    BY <1>9 DEF CloseWriter, Close, DumpReturn, vars
  <2>. QED  BY <2>1, KeepAccounted
<1>10. CASE Change
  BY <1>10 DEF Change
<1>11. CASE UNCHANGED dumpVars
  <2>1. UNCHANGED <<fs, omit, todo, accepted, dpc, node, opened>>
    BY <1>11 DEF dumpVars, dump, vars
  <2>. QED  BY <1>1, <2>1, KeepAccounted DEF h
<1>12. CASE Emitter
  <2>1. UNCHANGED <<fs, omit, todo, dpc, node, opened>> /\ Library
    BY <1>12 DEF Emitter, dump
  <2>2. CASE HeaderDone
    BY <1>12, <2>2, SentAccounted
  <2>3. CASE ~ HeaderDone
    <3>1. UNCHANGED accepted
      BY <2>1, <2>3 DEF Library, First, EmitNode, Receive, Leave, Reject, Enter, Return, TakeError,
                        CloseReturns, caller
    <3>. QED  BY <1>1, <2>1, <3>1, KeepAccounted DEF h
  <2>. QED  BY <2>2, <2>3
<1>. QED  BY <1>3, <1>4, <1>5, <1>6, <1>7, <1>8, <1>9, <1>10, <1>11, <1>12 DEF DumpNext, Walk

\* Nothing goes wrong.
Smooth ==
  epc # "fail" /\ ~ refused /\ dpc # "abort" /\ result # "error" /\ outcome # "error"

LEMMA CalmSteps ==
  ASSUME [DumpNext]_dumpVars, calm'
  PROVE  calm /\ UNCHANGED <<fs, omit>> /\ ~ Change
<1>1. CASE Lstat \/ HeaderSent \/ List
  BY <1>1 DEF Lstat, HeaderSent, List, Breaks, Abort, Change
<1>2. CASE SendHeader \/ Open \/ Copy
  BY <1>2 DEF SendHeader, Open, Copy, Breaks, Abort, dump, Change
<1>3. CASE CloseWriter \/ DumpReturn
  BY <1>3 DEF CloseWriter, DumpReturn, Change
<1>4. CASE Emitter
  <2>1. UNCHANGED <<fs, omit>> /\ calm' = (calm /\ ~ WriteFailed)
    BY <1>4 DEF Emitter, dump
  <2>. QED  BY <2>1 DEF Change
<1>5. CASE Change
  BY <1>5 DEF Change
<1>6. CASE UNCHANGED dumpVars
  BY <1>6 DEF dumpVars, dump, Change
<1>. QED  BY <1>1, <1>2, <1>3, <1>4, <1>5, <1>6 DEF DumpNext, Walk

\* When no write fails, the emitter does not give up.
LEMMA NothingFails ==
  ASSUME FileTrees, QueueInv, Bodies, Ends, Accounted, ~ NoArchive, result # "error",
         Library, epc # "fail", ~ WriteFailed
  PROVE  epc' # "fail"
<1>. SUFFICES ASSUME epc' = "fail" PROVE FALSE
  OBVIOUS
<1>1. First \/ Reject \/ ~ Complete \/ (epc = "return" /\ stack = <<>>)
  BY DEF WriteFailed
<1>2. DumpInv /\ Queue /\ Place /\ PlainArg /\ Busy
  BY DEF QueueInv
<1>3. ~ Refuse
  BY <1>2, WalkNotRefused
<1>4. /\ epc \in {"loop", "return"} /\ next # Nil => cpc = "select"
      /\ Sending => dpc = "sent"
  BY <1>2, Places
<1>5. CASE First
  <2>1. epc = "first" /\ (cpc' = "select" \/ closed)
    BY <1>5 DEF First
  <2>2. CASE cpc' = "select"
    BY <1>3, <1>5, <2>2 DEF Refuse
  <2>3. CASE closed
    <3>1. todo = <<>>
      BY <2>3 DEF Ends
    <3>2. accepted = <<>>
      BY <1>2, <2>1 DEF DumpInv, ArchiveInv, OrderInv, Told
    <3>3. Met(<<>>)
      <4>1. <<>> \in DOMAIN fs /\ Len(<<>>) = 0
        BY <1>2, FilesAre DEF FileTrees
      <4>. QED  BY <4>1 DEF Met
    <3>4. \A p : ~ In(p, todo) /\ ~ Dumped(p)
      <4>1. Len(<<>>) = 0
        OBVIOUS
      <4>. QED  BY <3>1, <3>2, <4>1 DEF In, Dumped
    <3>5. <<>> \in omit
      BY <3>3, <3>4 DEF Accounted
    <3>. QED  BY <3>5 DEF NoArchive
  <2>. QED  BY <2>1, <2>2, <2>3
<1>6. CASE Reject
  <2>1. epc = "loop" /\ next # Nil /\ cpc' = cpc
    BY <1>6 DEF Reject, caller
  <2>. QED  BY <1>3, <1>4, <1>6, <2>1 DEF Refuse
<1>7. CASE ~ Complete
  <2>1. epc \notin {"first", "emit", "loop", "return"}
    BY <1>7 DEF Bodies
  <2>2. Receive
    BY <2>1 DEF Library, First, EmitNode, HeaderDone, Leave, Reject, Enter, Return, TakeError,
                CloseReturns, emitter
  <2>3. epc = "await" /\ (cpc = "sendHeader" \/ closed)
    BY <2>2 DEF Receive
  <2>4. CASE cpc = "sendHeader"
    BY <1>7, <2>3, <2>4 DEF Bodies, Sending
  <2>5. CASE closed
    <3>1. cpc = "closing" /\ dpc = "close"
      BY <1>2, <2>3, <2>5, Places
    <3>. QED  BY <1>7, <2>3, <3>1 DEF Bodies
  <2>. QED  BY <2>3, <2>4, <2>5
<1>8. CASE epc = "return" /\ stack = <<>>
  <2>1. Return
    BY <1>8 DEF Library, First, EmitNode, HeaderDone, Receive, Leave, Reject, Enter, TakeError,
                CloseReturns, emitter
  <2>2. next # Nil
    BY <1>8, <2>1 DEF Return
  <2>3. cpc' = "select"
    BY <1>4, <1>8, <2>1, <2>2 DEF Return, caller
  <2>. QED  BY <1>3, <1>8, <2>1, <2>3 DEF Refuse
<1>. QED  BY <1>1, <1>5, <1>6, <1>7, <1>8

LEMMA StepSmooth ==
  ASSUME FileTrees, QueueInv, Bodies, Ends, Accounted, ~ NoArchive, Smooth,
         [DumpNext]_dumpVars, calm'
  PROVE  Smooth'
<1>1. DumpInv /\ Passed /\ TypeOK
  BY DEF QueueInv, DumpInv, ArchiveInv, IInv
<1>2. ~ Breaks
  BY DEF Breaks
<1>3. CASE Lstat
  <2>. DEFINE p == Head(todo)
  <2>1. /\ UNCHANGED <<vars, result>> /\ todo # <<>>
        /\ \/ dpc' \in {"walk", "node"}
           \/ p \in DOMAIN fs /\ fs[p].type = "other"
    BY <1>2, <1>3 DEF Lstat, At, Abort
  <2>2. Met(p)
    <3>1. In(p, todo)
      BY <1>1, <2>1, InTail DEF DumpInv, DumpType
    <3>. QED  BY <3>1 DEF Accounted
  <2>3. dpc' \in {"walk", "node"}
    BY <2>1, <2>2 DEF NoArchive
  <2>. QED  BY <2>1, <2>3 DEF Smooth, vars
<1>4. CASE SendHeader
  <2>. DEFINE h == HeaderOf(Head(todo), node)
  <2>1. Validate(h)
    BY DEF Validate, HeaderOf
  <2>. HIDE DEF h
  <2>2. WriteHeader(h) /\ dpc' = "sent" /\ UNCHANGED result
    BY <1>2, <1>4 DEF SendHeader, h
  <2>3. UNCHANGED <<epc, refused, outcome>>
    BY <2>1, <2>2 DEF WriteHeader, emitter
  <2>. QED  BY <2>2, <2>3 DEF Smooth
<1>5. CASE HeaderSent
  <2>1. UNCHANGED <<vars, result>> /\ dpc' \in {"walk", "list", "open"}
    BY <1>5 DEF HeaderSent, Smooth
  <2>. QED  BY <2>1 DEF Smooth, vars
<1>6. CASE List
  <2>1. UNCHANGED <<vars, result>> /\ dpc' = "walk"
    BY <1>2, <1>6 DEF List
  <2>. QED  BY <2>1 DEF Smooth, vars
<1>7. CASE Open
  <2>1. UNCHANGED <<vars, result>> /\ dpc' = "copy"
    BY <1>2, <1>7 DEF Open
  <2>. QED  BY <2>1 DEF Smooth, vars
<1>8. CASE Copy
  <2>1. dpc = "copy" /\ UNCHANGED <<epc, refused, outcome>>
    BY <1>8 DEF Copy, At, caller
  <2>2. body.total = node.size /\ body.written <= body.total /\ opened = node.size
    BY <2>1 DEF Bodies, Accounted
  <2>3. body \in [total : Nat, written : Nat] /\ node.size \in Nat
    BY <1>1, <2>1 DEF TypeOK, DumpInv, DumpType, Node
  <2>4. CASE body.written >= opened
               /\ IF body.written = node.size
                  THEN todo' = Tail(todo) /\ dpc' = "walk" /\ UNCHANGED <<omit, node, result>>
                  ELSE Abort
    <3>1. body.written = node.size
      BY <2>2, <2>3, <2>4
    <3>. QED  BY <2>1, <2>4, <3>1 DEF Smooth
  <2>5. ASSUME NEW n \in 1 .. opened - body.written,
               IF body.written + n <= body.total
               THEN body' = [body EXCEPT !.written = @ + n] /\ UNCHANGED <<dump, calm>>
               ELSE Abort /\ UNCHANGED <<body, calm>>
        PROVE  UNCHANGED dump
    <3>1. body.written + n <= body.total
      BY <2>2, <2>3
    <3>. QED  BY <2>5, <3>1
  <2>6. CASE UNCHANGED dump
    BY <2>1, <2>6 DEF Smooth, dump
  <2>. QED  BY <1>2, <1>8, <2>4, <2>5, <2>6 DEF Copy
<1>9. CASE CloseWriter
  <2>1. UNCHANGED <<epc, refused, outcome, result>> /\ dpc' = "close"
    BY <1>9 DEF CloseWriter, At, Close, emitter, Smooth
  <2>. QED  BY <2>1 DEF Smooth
<1>10. CASE DumpReturn
  <2>1. UNCHANGED vars /\ dpc' = "returned" /\ result' = outcome
    BY <1>10 DEF DumpReturn, Smooth
  <2>. QED  BY <2>1 DEF Smooth, vars
<1>11. CASE UNCHANGED dumpVars
  BY <1>11 DEF Smooth, dumpVars, dump, vars
<1>12. CASE Emitter
  <2>1. /\ Library /\ UNCHANGED <<dpc, result>>
        /\ ~ WriteFailed
    BY <1>12 DEF Emitter, dump
  <2>2. epc' # "fail"
    BY <2>1, NothingFails DEF Smooth
  <2>3. epc # "fail"
    BY DEF Smooth
  <2>4. UNCHANGED refused /\ (UNCHANGED outcome \/ outcome' = "ok")
    BY <2>1, <2>3 DEF Library, First, EmitNode, HeaderDone, Receive, Leave, Reject, Enter, Return,
                      TakeError, CloseReturns, caller
  <2>. QED  BY <2>1, <2>2, <2>4 DEF Smooth
<1>13. ~ Change
  BY DEF Change
<1>. QED  BY <1>3, <1>4, <1>5, <1>6, <1>7, <1>8, <1>9, <1>10, <1>11, <1>12, <1>13
          DEF DumpNext, Walk

CalmInv ==
  /\ Bodies /\ Ends /\ Once
  /\ calm => Accounted /\ (~ NoArchive => Smooth)

LEMMA CalmInit == ASSUME FileTrees, DumpInit PROVE CalmInv
<1>1. /\ Init /\ fs \in FileSystems /\ todo = <<<<>>>> /\ dpc = "walk" /\ result = "none"
  BY DEF DumpInit
<1>2. /\ epc = "first" /\ cpc = "idle" /\ body = [total |-> 0, written |-> 0] /\ closed = FALSE
      /\ accepted = <<>> /\ refused = FALSE /\ outcome = "none"
  BY <1>1 DEF Init
<1>3. Len(accepted) = 0
  BY <1>2
<1>4. \A q : In(q, todo) <=> q = <<>>
  <2>1. Len(todo) = 1 /\ todo[1] = <<>>
    BY <1>1
  <2>. QED  BY <2>1 DEF In
<1>5. Bodies
  BY <1>1, <1>2 DEF Bodies, Complete, Sending, AtEntry
<1>6. Ends
  BY <1>1, <1>2 DEF Ends
<1>7. Once
  BY <1>3 DEF Once
<1>8. Smooth
  BY <1>1, <1>2 DEF Smooth
<1>9. Accounted
  <2>1. Met(<<>>)
    <3>1. <<>> \in DOMAIN fs /\ Len(<<>>) = 0
      BY <1>1 DEF FileTrees
    <3>. QED  BY <3>1 DEF Met
  <2>2. ASSUME NEW p, Met(p) PROVE IsPrefixOf(<<>>, p)
    <3>1. p \in Seq(Strings)
      BY <1>1, <2>2, DumpPathAssumption DEF Met
    <3>. QED  BY <3>1, RootPrefix
  <2>. QED  BY <1>1, <1>3, <1>4, <2>1, <2>2 DEF Accounted
<1>. QED  BY <1>5, <1>6, <1>7, <1>8, <1>9 DEF CalmInv

LEMMA CalmStep ==
  ASSUME FileTrees, CleanFiles, PlainFiles, QueueInv, CalmInv, [DumpNext]_dumpVars
  PROVE  CalmInv'
<1>1. DumpInv /\ Busy /\ Queue /\ Passed /\ Bodies /\ Ends /\ Once
  BY DEF QueueInv, CalmInv
<1>2. Bodies' /\ Ends' /\ Once'
  BY <1>1, StepBodies, StepEnds, StepOnce
<1>3. ASSUME calm' PROVE Accounted' /\ (~ NoArchive' => Smooth')
  <2>1. calm /\ UNCHANGED <<fs, omit>>
    BY <1>3, CalmSteps
  <2>2. Accounted /\ (~ NoArchive => Smooth)
    BY <2>1 DEF CalmInv
  <2>3. Accounted'
    BY <1>1, <1>3, <2>2, StepAccounted
  <2>4. NoArchive' <=> NoArchive
    BY <2>1 DEF NoArchive, Met
  <2>5. ~ NoArchive => Smooth'
    BY <1>1, <1>3, <2>2, StepSmooth
  <2>. QED  BY <2>3, <2>4, <2>5
<1>. QED  BY <1>2, <1>3 DEF CalmInv

LEMMA CalmEnd ==
  ASSUME QueueInv, CalmInv
  PROVE  CalmDumpIsFiles
<1>. SUFFICES ASSUME dpc = "returned", calm
              PROVE  IF NoArchive THEN result = "error"
                     ELSE /\ result = "ok"
                          /\ {accepted[i] : i \in DOMAIN accepted} = {HeaderOf(p, fs[p]) : p \in Kept}
                          /\ \A i, j \in DOMAIN accepted : i # j => accepted[i].path # accepted[j].path
  BY DEF CalmDumpIsFiles
<1>1. DumpInv /\ Ends /\ Once /\ Accounted /\ (~ NoArchive => Smooth)
  BY DEF QueueInv, CalmInv
<1>2. result \in {"ok", "error"} /\ (result # "error" => todo = <<>>)
  BY <1>1 DEF Ends
<1>3. accepted \in Seq(Header) /\ DOMAIN accepted = 1 .. Len(accepted) /\ Len(accepted) \in Nat
  <2>1. accepted \in Seq(Header)
    BY <1>1, HeaderStack DEF DumpInv, ArchiveInv
  <2>. QED  BY <2>1
<1>4. ASSUME result # "error" PROVE \A q : ~ In(q, todo)
  <2>1. Len(<<>>) = 0
    OBVIOUS
  <2>. QED  BY <1>2, <1>4, <2>1 DEF In
<1>5. \A i \in 1 .. Len(accepted) : accepted[i].path \in Kept
        /\ accepted[i] = HeaderOf(accepted[i].path, fs[accepted[i].path])
  BY <1>1 DEF Accounted
<1>6. ASSUME NoArchive, result # "error" PROVE FALSE
  <2>1. result = "ok"
    BY <1>2, <1>6
  <2>2. accepted # <<>> /\ accepted[1].path = <<>>
    <3>1. epc = "exited" /\ ~ refused
      BY <1>1, <2>1 DEF DumpInv, Honest, WalkInv, Waiting, Over
    <3>. QED  BY <1>1, <3>1 DEF DumpInv, ArchiveInv, OrderInv, Told
  <2>3. <<>> \notin omit
    <3>1. 1 \in 1 .. Len(accepted)
      BY <1>3, <2>2, EmptySeq
    <3>. QED  BY <1>5, <2>2, <3>1 DEF Kept
  <2>4. PICK p \in DOMAIN fs : Met(p) /\ fs[p].type = "other"
    BY <1>6, <2>3 DEF NoArchive
  <2>5. Dumped(p)
    BY <1>1, <1>4, <1>6, <2>4 DEF Accounted
  <2>6. PICK i \in 1 .. Len(accepted) : accepted[i].path = p
    BY <2>5 DEF Dumped
  <2>7. accepted[i].type = "other"
    <3>1. accepted[i] = HeaderOf(p, fs[p])
      BY <1>5, <2>6
    <3>. QED  BY <2>4, <3>1 DEF HeaderOf
  <2>8. accepted[i] \in Header
    BY <1>3, ElementOfSeq
  <2>. QED  BY <2>7, <2>8 DEF Header, Types
<1>7. ASSUME ~ NoArchive
      PROVE  /\ result = "ok"
             /\ {accepted[i] : i \in DOMAIN accepted} = {HeaderOf(p, fs[p]) : p \in Kept}
             /\ \A i, j \in DOMAIN accepted : i # j => accepted[i].path # accepted[j].path
  <2>1. result = "ok"
    BY <1>1, <1>2, <1>7 DEF Smooth
  <2>2. ASSUME NEW i \in 1 .. Len(accepted)
        PROVE  \E p \in Kept : accepted[i] = HeaderOf(p, fs[p])
    BY <1>5
  <2>3. ASSUME NEW p \in Kept
        PROVE  \E i \in 1 .. Len(accepted) : accepted[i] = HeaderOf(p, fs[p])
    <3>1. Met(p) /\ p \notin omit
      BY DEF Kept
    <3>2. Dumped(p)
      BY <1>1, <1>4, <2>1, <3>1 DEF Accounted
    <3>3. PICK i \in 1 .. Len(accepted) : accepted[i].path = p
      BY <3>2 DEF Dumped
    <3>. QED  BY <1>5, <3>3
  <2>4. \A i, j \in DOMAIN accepted : i # j => accepted[i].path # accepted[j].path
    BY <1>1, <1>3 DEF Once
  <2>. DEFINE A == {accepted[i] : i \in 1 .. Len(accepted)}
              B == {HeaderOf(p, fs[p]) : p \in Kept}
  <2>5. A \subseteq B
    BY <2>2
  <2>6. B \subseteq A
    BY <2>3
  <2>7. A = B
    BY <2>5, <2>6
  <2>. QED  BY <1>3, <2>1, <2>4, <2>7
<1>. QED  BY <1>2, <1>6, <1>7

\* A dump that nobody disturbs is one of the files: all that the filter
\* leaves, as they are, each once; and it fails only for what has no archive.
THEOREM CalmDumps ==
  ASSUME CleanFiles, PlainFiles, NamesAreBytes, FileTrees
  PROVE  DumpSpec => []CalmDumpIsFiles
<1>1. DumpInit => CalmInv
  BY CalmInit
<1>2. QueueInv /\ CalmInv /\ [DumpNext]_dumpVars => CalmInv'
  BY CalmStep
<1>3. QueueInv /\ CalmInv => CalmDumpIsFiles
  BY CalmEnd
<1>. QED  BY QueueInvariance, <1>1, <1>2, <1>3, PTL DEF DumpSpec
=============================================================================
