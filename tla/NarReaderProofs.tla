-------------------------- MODULE NarReaderProofs --------------------------
(***************************************************************************)
(* Theorems about NarReader, for every archive and every set of strings.   *)
(*                                                                         *)
(* IInv is the inductive invariant.  ContentMatchesHeader is about states  *)
(* in which the caller runs, but what makes it true is done while the      *)
(* parser runs: OfferMatches carries it over the hand-over of a header,    *)
(* and FailHasError says that the other hand-over always blows the fuse.   *)
(*                                                                         *)
(* PlaceInv, inductive on top of IInv, ties the paths on the stack of the  *)
(* parser to the headers delivered, and gives ParentsFirst.  OrderInv, on  *)
(* top of both, says that the open directories lead to the last header,    *)
(* and which paths may follow it: the order of the tree, from which        *)
(* SiblingsInOrder comes.                                                  *)
(*                                                                         *)
(* ReadInv is about archives of NarGrammar: what the stack of the parser   *)
(* expects is what the unread packets spell (Good), and the headers they   *)
(* list are the ones not yet delivered.  With LimitInv, it shows that the  *)
(* Reader implements NarCursor.                                            *)
(***************************************************************************)
EXTENDS NarReader, NarPathProofs, SequenceTheorems

OfferMatches ==
  (ppc = "offer" /\ ~ closed) =>
    /\ msg.hdr.type = "regular" =>
         /\ ~ content.dummy /\ content.owner = msg.hdr.path
         /\ inside /\ content.limit + off = msg.hdr.size
    /\ msg.hdr.type # "regular" => content.limit = 0

FailHasError == ppc = "fail" => msg.err # "none"

\* While parseNode waits for the caller, there is a call to go on with.
WaitingHasStack == ppc \in {"offer", "await"} => todo # <<>>

CallHasNoFuse == cpc \in {"sendNext", "select"} => fuse = "none"

IInv ==
  /\ TypeOK
  /\ HandoffExclusive
  /\ OfferMatches
  /\ FailHasError
  /\ WaitingHasStack
  /\ CallHasNoFuse
  /\ ContentMatchesHeader
-----------------------------------------------------------------------------
\* The keywords of the archive are strings.
LEMMA Keywords ==
  /\ EmptyString \in Strings /\ "(" \in Strings /\ ")" \in Strings /\ "type" \in Strings
  /\ "executable" \in Strings /\ "entry" \in Strings /\ "name" \in Strings
  /\ "node" \in Strings /\ "target" \in Strings
BY NarReaderAssumption

\* Every outcome of ReadString is an error or a known string.
LEMMA ReadStringType ==
  ASSUME TypeOK, NEW m, NEW o \in ReadString(m)
  PROVE  /\ o.err \in {"none", "EOF", "error"}
         /\ o.tok \in Strings
         /\ o.at \in Nat \ {0}
<1>1. pos \in Nat \ {0} /\ stream \in Seq(Packet) /\ EmptyString \in Strings
  BY Keywords DEF TypeOK
<1>2. CASE inside
  <2>1. \/ o = Failed("error") \/ o = Failed("EOF")
        \/ \E t \in Strings, k \in {1, 2} : o = Garbled(t, k)
    BY <1>2 DEF ReadString
  <2>2. CASE o = Failed("error") \/ o = Failed("EOF")
    BY <1>1, <2>2 DEF Failed
  <2>3. ASSUME NEW t \in Strings, NEW k \in {1, 2}, o = Garbled(t, k)
        PROVE  o.err = "none" /\ o.tok \in Strings /\ o.at \in Nat \ {0}
    BY <1>1, <2>3 DEF Garbled
  <2>. QED  BY <2>1, <2>2, <2>3
<1>3. CASE ~ inside /\ pos > Len(stream)
  <2>1. o = Failed("EOF")
    BY <1>3 DEF ReadString
  <2>. QED  BY <1>1, <2>1 DEF Failed
<1>4. CASE ~ inside /\ ~ (pos > Len(stream))
  <2>1. o = Failed("EOF") \/ o = Failed("error") \/ o = Got(stream[pos].str)
    BY <1>4 DEF ReadString
  <2>2. stream[pos].str \in Strings
    <3>1. stream[pos] \in Packet
      BY <1>1, <1>4
    <3>. QED  BY <3>1 DEF Packet
  <2>3. CASE o = Failed("EOF") \/ o = Failed("error")
    BY <1>1, <2>3 DEF Failed
  <2>4. CASE o = Got(stream[pos].str)
    BY <1>1, <2>2, <2>4 DEF Got
  <2>. QED  BY <2>1, <2>3, <2>4
<1>. QED  BY <1>2, <1>3, <1>4

\* The path of a node is again a sequence of names.
LEMMA JoinType ==
  ASSUME NEW p \in Seq(Strings), NEW n \in Strings
  PROVE  Join(p, n) \in Seq(Strings)
BY DEF Join

\* What the innermost call does next is an instruction, and so is the rest.
LEMMA StackType ==
  ASSUME todo \in Seq(Instr), todo # <<>>
  PROVE  /\ Head(todo) \in Instr
         /\ Head(todo).path \in Seq(Strings)
         /\ Head(todo).tok \in Strings
         /\ Head(todo).exec \in BOOLEAN
         /\ Tail(todo) \in Seq(Instr)
<1>1. Head(todo) \in Instr /\ Tail(todo) \in Seq(Instr)
  OBVIOUS
<1>. QED  BY <1>1 DEF Instr

LEMMA InstrType ==
  ASSUME NEW op \in Ops, NEW p \in Seq(Strings), NEW t \in Strings, NEW x \in BOOLEAN
  PROVE  With(op, p, t, x) \in Instr
BY DEF With, Instr

\* The three ways a step of the parser leaves its variables keep their types.
LEMMA FailType ==
  ASSUME TypeOK, NEW e \in Fuses, Fail(e)
  PROVE  /\ ppc' = "fail" /\ ppc' \in {"start", "run", "offer", "await", "fail", "exited"}
         /\ todo' \in Seq(Instr)
         /\ msg' \in [hdr : Header, err : Fuses]
         /\ msg'.err = e
BY DEF Fail, TypeOK, NoHeader, Header, Types

LEMMA ContinueType ==
  ASSUME TypeOK, todo # <<>>, NEW seq \in Seq(Instr), Continue(seq)
  PROVE  /\ ppc' = "run"
         /\ todo' \in Seq(Instr)
         /\ msg' = msg
<1>1. Tail(todo) \in Seq(Instr)
  BY StackType DEF TypeOK
<1>2. seq \o Tail(todo) \in Seq(Instr)
  BY <1>1
<1>. QED  BY <1>2 DEF Continue

LEMMA OfferType ==
  ASSUME TypeOK, todo # <<>>, NEW h \in Header, NEW rest \in Instr, Offer(h, rest)
  PROVE  /\ ppc' = "offer"
         /\ todo' \in Seq(Instr)
         /\ msg' \in [hdr : Header, err : Fuses]
         /\ msg'.hdr = h
         /\ todo' # <<>>
<1>1. Tail(todo) \in Seq(Instr)
  BY StackType DEF TypeOK
<1>2. <<rest>> \o Tail(todo) \in Seq(Instr) /\ <<rest>> \o Tail(todo) # <<>>
  BY <1>1
<1>. QED  BY <1>2 DEF Offer, Fuses
-----------------------------------------------------------------------------
LEMMA InitInv == Init => IInv
<1>. SUFFICES ASSUME Init PROVE IInv
  OBVIOUS
<1>1. TypeOK
  <2>1. stream \in Seq(Packet)
    BY NarReaderAssumption DEF Init
  <2>2. content \in [limit : Nat, owner : Seq(Strings), dummy : BOOLEAN]
    BY DEF Init, Dummy
  <2>3. msg \in [hdr : Header, err : Fuses]
    BY DEF Init, NoHeader, Header, Types, Fuses
  <2>4. /\ pos \in Nat \ {0} /\ off \in Nat /\ todo \in Seq(Instr)
        /\ prevPath \in Seq(Strings) /\ delivered \in Seq(Header)
    BY DEF Init
  <2>. QED  BY <2>1, <2>2, <2>3, <2>4 DEF Init, TypeOK, Fuses
<1>2. HandoffExclusive /\ OfferMatches /\ FailHasError /\ CallHasNoFuse /\ WaitingHasStack
  BY DEF Init, HandoffExclusive, OfferMatches, FailHasError, CallHasNoFuse, WaitingHasStack
<1>3. ContentMatchesHeader
  BY DEF Init, ContentMatchesHeader, Dummy
<1>. QED  BY <1>1, <1>2, <1>3 DEF IInv

\* What a step of the parser by itself does to the parser's variables.
ParserStep ==
  /\ ppc = "run" \/ closed
  /\ ppc' \in {"run", "offer", "fail"}
  /\ todo' \in Seq(Instr)
  /\ msg' \in [hdr : Header, err : Fuses]
  /\ ppc' = "fail" => msg'.err # "none"
  /\ ppc' = "offer" => todo' # <<>>

LEMMA Failing ==
  ASSUME TypeOK, ppc = "run", NEW e \in {"EOF", "error"}, Fail(e)
  PROVE  ParserStep /\ ppc' = "fail"
BY FailType DEF ParserStep, Fuses

LEMMA Continuing ==
  ASSUME TypeOK, ppc = "run" \/ closed, todo # <<>>,
         NEW seq \in Seq(Instr), Continue(seq)
  PROVE  ParserStep /\ ppc' = "run"
BY ContinueType DEF ParserStep, TypeOK

LEMMA Offering ==
  ASSUME TypeOK, ppc = "run", todo # <<>>, NEW h \in Header, NEW rest \in Instr,
         Offer(h, rest)
  PROVE  ParserStep /\ ppc' = "offer" /\ msg'.hdr = h
BY OfferType DEF ParserStep

\* What each step of the parser does to the caller's and to its own state.
Quiet == ParserStep /\ UNCHANGED caller /\ stream' = stream

LEMMA ReadType ==
  ASSUME TypeOK, NEW m, NEW o \in ReadString(m), Read1(o)
  PROVE  /\ stream' = stream /\ inside' \in BOOLEAN /\ off' \in Nat
         /\ pos' \in Nat \ {0}
BY ReadStringType DEF Read1, TypeOK

\* The content and the position after a step that offers a header.
Delivers ==
  ppc' = "offer" =>
    /\ msg'.hdr.type = "regular" =>
         /\ ~ content'.dummy /\ content'.owner = msg'.hdr.path
         /\ inside' /\ content'.limit + off' = msg'.hdr.size
    /\ msg'.hdr.type # "regular" => content'.limit = 0

ParserOK ==
  /\ ParserStep
  /\ UNCHANGED caller
  /\ stream' = stream
  /\ pos' \in Nat \ {0} /\ inside' \in BOOLEAN /\ off' \in Nat
  /\ content' \in [limit : Nat, owner : Seq(Strings), dummy : BOOLEAN]
  /\ Delivers

LEMMA ParserPreserves ==
  ASSUME IInv, ParserOK
  PROVE  IInv'
<1>1. TypeOK'
  BY DEF IInv, TypeOK, ParserOK, ParserStep, caller
<1>2. HandoffExclusive' /\ FailHasError' /\ CallHasNoFuse' /\ WaitingHasStack'
  BY DEF IInv, TypeOK, ParserOK, ParserStep, caller, HandoffExclusive, FailHasError,
         CallHasNoFuse, WaitingHasStack
<1>3. OfferMatches'
  BY DEF ParserOK, Delivers, OfferMatches
<1>4. ContentMatchesHeader'
  BY DEF IInv, ParserOK, ParserStep, caller, HandoffExclusive, ContentMatchesHeader
<1>. QED  BY <1>1, <1>2, <1>3, <1>4 DEF IInv

LEMMA DummyType ==
  Dummy \in [limit : Nat, owner : Seq(Strings), dummy : BOOLEAN] /\ Dummy.limit = 0
BY DEF Dummy

LEMMA ParseNodeOK ==
  ASSUME IInv, ParseNode
  PROVE  ParserOK
<1>1. /\ TypeOK /\ ppc = "run" /\ todo \in Seq(Instr) /\ todo # <<>>
      /\ Head(todo).path \in Seq(Strings)
  BY StackType DEF IInv, TypeOK, ParseNode, Running
<1>2. <<Lit("("), Lit("type"), Do("label", Head(todo).path)>> \in Seq(Instr)
  BY <1>1, Keywords DEF Lit, Do, With, Instr, Ops
<1>3. ParserStep /\ ppc' = "run"
  BY <1>1, <1>2, Continuing DEF ParseNode
<1>. QED  BY <1>1, <1>3 DEF ParseNode, ParserOK, Delivers, TypeOK, input

\* The steps that read a string and leave the content reader alone.
LEMMA StringContinues ==
  ASSUME IInv, ppc = "run", todo # <<>>,
         NEW m, NEW o \in ReadString(m), Read1(o), UNCHANGED content, UNCHANGED caller,
         NEW seq \in Seq(Instr), Continue(seq)
  PROVE  ParserOK
<1>1. TypeOK
  BY DEF IInv
<1>2. ParserStep /\ ppc' = "run"
  BY <1>1, Continuing
<1>3. stream' = stream /\ inside' \in BOOLEAN /\ off' \in Nat /\ pos' \in Nat \ {0}
  BY <1>1, ReadType
<1>. QED  BY <1>1, <1>2, <1>3 DEF ParserOK, Delivers, TypeOK

LEMMA StringFails ==
  ASSUME IInv, ppc = "run", todo # <<>>,
         NEW m, NEW o \in ReadString(m), Read1(o), UNCHANGED content, UNCHANGED caller,
         Fail("error") \/ (o.err # "none" /\ Fail(o.err))
  PROVE  ParserOK
<1>1. TypeOK
  BY DEF IInv
<1>2. ParserStep /\ ppc' = "fail"
  <2>1. PICK e \in {"EOF", "error"} : Fail(e)
    BY <1>1, ReadStringType
  <2>. QED  BY <1>1, <2>1, Failing
<1>3. stream' = stream /\ inside' \in BOOLEAN /\ off' \in Nat /\ pos' \in Nat \ {0}
  BY <1>1, ReadType
<1>. QED  BY <1>1, <1>2, <1>3 DEF ParserOK, Delivers, TypeOK

LEMMA NothingLeft == <<>> \in Seq(Instr)
OBVIOUS

\* What every step of the parser but StoppedByClose and Finish starts from.
LEMMA RunningState ==
  ASSUME IInv, NEW op, Running(op)
  PROVE  /\ TypeOK /\ ppc = "run" /\ todo \in Seq(Instr) /\ todo # <<>>
         /\ Head(todo).path \in Seq(Strings) /\ Head(todo).tok \in Strings
         /\ Head(todo).exec \in BOOLEAN
<1>1. TypeOK /\ ppc = "run" /\ todo \in Seq(Instr) /\ todo # <<>>
  BY DEF IInv, TypeOK, Running
<1>. QED  BY <1>1, StackType

LEMMA ExpectStringOK ==
  ASSUME IInv, ExpectString
  PROVE  ParserOK
<1>1. Running("lit") /\ UNCHANGED content /\ UNCHANGED caller
  BY DEF ExpectString
<1>2. ppc = "run" /\ todo # <<>>
  BY <1>1, RunningState
<1>3. PICK o \in ReadString(Len(Bytes[Head(todo).tok])) :
        Read1(o) /\ (Continue(<<>>) \/ Fail("error"))
  BY DEF ExpectString
<1>4. CASE Continue(<<>>)
  BY <1>1, <1>2, <1>3, <1>4, StringContinues, NothingLeft
<1>5. CASE Fail("error")
  BY <1>1, <1>2, <1>3, <1>5, StringFails
<1>. QED  BY <1>3, <1>4, <1>5

LEMMA LabelOK ==
  ASSUME IInv, Label
  PROVE  ParserOK
<1>. DEFINE p == Head(todo).path
<1>1. Running("label") /\ UNCHANGED caller
  BY DEF Label
<1>2. TypeOK /\ ppc = "run" /\ todo # <<>> /\ p \in Seq(Strings)
  BY <1>1, RunningState
<1>3. PICK o \in ReadString(tokenLenMax) :
        /\ Read1(o)
        /\ \/ Continue(<<Do("regular", p)>>) /\ UNCHANGED content
           \/ Continue(<<Lit("target"), Do("target", p)>>) /\ UNCHANGED content
           \/ content' = Dummy /\ Offer([NoHeader EXCEPT !.path = p], Do("entries", p))
           \/ Continue(<<>>) /\ UNCHANGED content
           \/ (Fail("error") \/ (o.err # "none" /\ Fail(o.err))) /\ UNCHANGED content
  BY DEF Label
<1>4. /\ <<Do("regular", p)>> \in Seq(Instr)
      /\ <<Lit("target"), Do("target", p)>> \in Seq(Instr)
      /\ Do("entries", p) \in Instr
  BY <1>2, Keywords DEF Lit, Do, With, Instr, Ops
<1>5. ASSUME NEW seq \in Seq(Instr), Continue(seq), UNCHANGED content
      PROVE  ParserOK
  BY <1>1, <1>2, <1>3, <1>5, StringContinues
<1>6. CASE (Fail("error") \/ (o.err # "none" /\ Fail(o.err))) /\ UNCHANGED content
  BY <1>1, <1>2, <1>3, <1>6, StringFails
<1>7. CASE content' = Dummy /\ Offer([NoHeader EXCEPT !.path = p], Do("entries", p))
  <2>1. /\ [NoHeader EXCEPT !.path = p] \in Header
        /\ [NoHeader EXCEPT !.path = p].type = "directory"
    BY <1>2 DEF NoHeader, Header, Types
  <2>2. ParserStep /\ msg'.hdr.type = "directory"
    BY <1>2, <1>4, <1>7, <2>1, Offering
  <2>3. stream' = stream /\ inside' \in BOOLEAN /\ off' \in Nat /\ pos' \in Nat \ {0}
    BY <1>2, <1>3, ReadType
  <2>. QED  BY <1>1, <1>7, <2>2, <2>3, DummyType DEF ParserOK, Delivers
<1>. QED  BY <1>3, <1>4, <1>5, <1>6, <1>7, NothingLeft

LEMMA RegularTokenOK ==
  ASSUME IInv, RegularToken
  PROVE  ParserOK
<1>. DEFINE i == Head(todo)
            contents == <<With("contents", i.path, EmptyString, i.exec)>>
            again == <<Lit(EmptyString), With("regular", i.path, EmptyString, TRUE)>>
<1>1. Running("regular") /\ UNCHANGED content /\ UNCHANGED caller
  BY DEF RegularToken
<1>2. TypeOK /\ ppc = "run" /\ todo # <<>> /\ i.path \in Seq(Strings) /\ i.exec \in BOOLEAN
  BY <1>1, RunningState
<1>3. PICK o \in ReadString(IF i.exec THEN tokenLenMax ELSE Len(Bytes["executable"])) :
        /\ Read1(o)
        /\ \/ Continue(contents)
           \/ Continue(again)
           \/ Fail("error") \/ (o.err # "none" /\ Fail(o.err))
  BY DEF RegularToken
<1>4. contents \in Seq(Instr) /\ again \in Seq(Instr)
  BY <1>2, Keywords DEF Lit, With, Instr, Ops
<1>. HIDE DEF contents, again
<1>5. ASSUME NEW seq \in Seq(Instr), Continue(seq)
      PROVE  ParserOK
  BY <1>1, <1>2, <1>3, <1>5, StringContinues
<1>6. CASE Fail("error") \/ (o.err # "none" /\ Fail(o.err))
  BY <1>1, <1>2, <1>3, <1>6, StringFails
<1>. QED  BY <1>3, <1>4, <1>5, <1>6

LEMMA EndNodeOK ==
  ASSUME IInv, EndNode
  PROVE  ParserOK
<1>1. Running("end") /\ UNCHANGED content /\ UNCHANGED caller
  BY DEF EndNode
<1>2. TypeOK /\ ppc = "run" /\ todo # <<>>
  BY <1>1, RunningState
<1>3. PICK o \in ReadString(tokenLenMax) :
        /\ Read1(o)
        /\ Continue(<<>>) \/ Fail("error") \/ (o.err # "none" /\ Fail(o.err))
  BY DEF EndNode
<1>4. CASE Continue(<<>>)
  BY <1>1, <1>2, <1>3, <1>4, StringContinues, NothingLeft
<1>5. CASE Fail("error") \/ (o.err # "none" /\ Fail(o.err))
  BY <1>1, <1>2, <1>3, <1>5, StringFails
<1>. QED  BY <1>3, <1>4, <1>5

LEMMA EntriesOK ==
  ASSUME IInv, Entries
  PROVE  ParserOK
<1>. DEFINE p == Head(todo).path
            entry == <<Lit("("), Lit("name"), Do("name", p)>>
            more == <<Do("entries", p)>>
<1>1. Running("entries") /\ UNCHANGED content /\ UNCHANGED caller
  BY DEF Entries
<1>2. TypeOK /\ ppc = "run" /\ todo # <<>> /\ p \in Seq(Strings)
  BY <1>1, RunningState
<1>3. PICK o \in ReadString(tokenLenMax) :
        /\ Read1(o)
        /\ \/ Continue(entry) \/ Continue(<<>>) \/ Continue(more)
           \/ Fail("error") \/ (o.err # "none" /\ Fail(o.err))
  BY DEF Entries
<1>4. entry \in Seq(Instr) /\ more \in Seq(Instr)
  BY <1>2, Keywords DEF Lit, Do, With, Instr, Ops
<1>. HIDE DEF entry, more
<1>5. ASSUME NEW seq \in Seq(Instr), Continue(seq)
      PROVE  ParserOK
  BY <1>1, <1>2, <1>3, <1>5, StringContinues
<1>6. CASE Fail("error") \/ (o.err # "none" /\ Fail(o.err))
  BY <1>1, <1>2, <1>3, <1>6, StringFails
<1>. QED  BY <1>3, <1>4, <1>5, <1>6, NothingLeft

LEMMA EntryNameOK ==
  ASSUME IInv, EntryName
  PROVE  ParserOK
<1>. DEFINE p == Head(todo).path
            entry(n) == <<Lit("node"), Do("node", Join(p, n)), Lit(")"),
                          With("entryEnd", p, n, FALSE)>>
<1>1. Running("name") /\ UNCHANGED content /\ UNCHANGED caller
  BY DEF EntryName
<1>2. TypeOK /\ ppc = "run" /\ todo # <<>> /\ p \in Seq(Strings)
  BY <1>1, RunningState
<1>3. PICK o \in ReadString(nameLenMax) :
        /\ Read1(o)
        /\ Continue(entry(o.tok)) \/ Fail("error") \/ (o.err # "none" /\ Fail(o.err))
  BY DEF EntryName
<1>4. entry(o.tok) \in Seq(Instr)
  <2>1. o.tok \in Strings /\ Join(p, o.tok) \in Seq(Strings)
    BY <1>2, ReadStringType, JoinType
  <2>. QED  BY <1>2, <2>1, Keywords DEF Lit, Do, With, Instr, Ops
<1>. HIDE DEF entry
<1>5. CASE Continue(entry(o.tok))
  BY <1>1, <1>2, <1>3, <1>4, <1>5, StringContinues
<1>6. CASE Fail("error") \/ (o.err # "none" /\ Fail(o.err))
  BY <1>1, <1>2, <1>3, <1>6, StringFails
<1>. QED  BY <1>3, <1>5, <1>6

LEMMA TargetOK ==
  ASSUME IInv, Target
  PROVE  ParserOK
<1>. DEFINE p == Head(todo).path
            h == [NoHeader EXCEPT !.path = p, !.type = "symlink"]
<1>1. Running("target") /\ UNCHANGED caller
  BY DEF Target
<1>2. TypeOK /\ ppc = "run" /\ todo # <<>> /\ p \in Seq(Strings)
  BY <1>1, RunningState
<1>3. PICK o \in ReadString(pathLenMax) :
        /\ Read1(o)
        /\ \/ o.err # "none" /\ Fail(o.err) /\ UNCHANGED content
           \/ content' = Dummy /\ Offer(h, Do("end", p))
  BY DEF Target
<1>4. CASE o.err # "none" /\ Fail(o.err) /\ UNCHANGED content
  BY <1>1, <1>2, <1>3, <1>4, StringFails
<1>5. CASE content' = Dummy /\ Offer(h, Do("end", p))
  <2>1. h \in Header /\ h.type = "symlink" /\ Do("end", p) \in Instr
    BY <1>2, Keywords DEF NoHeader, Header, Types, Do, With, Instr, Ops
  <2>. HIDE DEF h
  <2>2. ParserStep /\ msg'.hdr.type = "symlink"
    BY <1>2, <1>5, <2>1, Offering
  <2>3. stream' = stream /\ inside' \in BOOLEAN /\ off' \in Nat /\ pos' \in Nat \ {0}
    BY <1>2, <1>3, ReadType
  <2>. QED  BY <1>1, <1>5, <2>2, <2>3, DummyType DEF ParserOK, Delivers
<1>. QED  BY <1>3, <1>4, <1>5

LEMMA EntryEndOK ==
  ASSUME IInv, EntryEnd
  PROVE  ParserOK
<1>. DEFINE i == Head(todo)
<1>1. Running("entryEnd") /\ UNCHANGED <<input, content>> /\ UNCHANGED caller
  BY DEF EntryEnd
<1>2. TypeOK /\ ppc = "run" /\ todo # <<>> /\ i.path \in Seq(Strings)
  BY <1>1, RunningState
<1>3. <<Do("entries", i.path)>> \in Seq(Instr)
  BY <1>2, Keywords DEF Do, With, Instr, Ops
<1>4. Continue(<<>>) \/ Continue(<<Do("entries", i.path)>>)
  BY DEF EntryEnd
<1>5. ParserStep /\ ppc' = "run"
  BY <1>2, <1>3, <1>4, Continuing, NothingLeft
<1>. QED  BY <1>1, <1>2, <1>5 DEF ParserOK, Delivers, TypeOK, input

LEMMA SeekOK ==
  ASSUME IInv, Seek
  PROVE  ParserOK
<1>. DEFINE e == CloseContent(stream[pos])
            rest == <<Do("end", Head(todo).path)>>
<1>1. Running("seek") /\ UNCHANGED <<stream, caller>>
  BY DEF Seek
<1>2. TypeOK /\ ppc = "run" /\ todo # <<>> /\ Head(todo).path \in Seq(Strings)
  BY <1>1, RunningState
<1>3. rest \in Seq(Instr)
  BY <1>2, Keywords DEF Do, With, Instr, Ops
<1>4. e \in {"none", "EOF", "error"}
  BY DEF CloseContent
<1>5. IF e = "none" THEN Continue(rest) ELSE Fail(e)
  BY DEF Seek
<1>. HIDE DEF e, rest
<1>6. ParserStep /\ ppc' \in {"run", "fail"}
  BY <1>2, <1>3, <1>4, <1>5, Continuing, Failing
<1>7. /\ inside' = FALSE /\ off' = 0 /\ pos' = pos + 1
      /\ content' = [content EXCEPT !.limit = 0]
  BY DEF Seek
<1>8. /\ pos' \in Nat \ {0} /\ inside' \in BOOLEAN /\ off' \in Nat
      /\ content' \in [limit : Nat, owner : Seq(Strings), dummy : BOOLEAN]
  <2>1. pos \in Nat /\ content \in [limit : Nat, owner : Seq(Strings), dummy : BOOLEAN]
    BY <1>2 DEF TypeOK
  <2>2. pos + 1 \in Nat \ {0}
    BY <2>1
  <2>3. [content EXCEPT !.limit = 0] \in [limit : Nat, owner : Seq(Strings), dummy : BOOLEAN]
    BY <2>1
  <2>. QED  BY <1>7, <2>2, <2>3
<1>. QED  BY <1>1, <1>6, <1>8 DEF ParserOK, Delivers

LEMMA ContentsOK ==
  ASSUME IInv, Contents
  PROVE  ParserOK
<1>. DEFINE i == Head(todo)
            h == [path |-> i.path, type |-> "regular", size |-> stream[pos].size,
                  exec |-> i.exec]
<1>1. Running("contents") /\ UNCHANGED caller
  BY DEF Contents
<1>2. TypeOK /\ ppc = "run" /\ todo # <<>> /\ i.path \in Seq(Strings) /\ i.exec \in BOOLEAN
  BY <1>1, RunningState
<1>3. CASE (Fail("EOF") \/ Fail("error")) /\ UNCHANGED <<input, content>>
  <2>1. ParserStep /\ ppc' = "fail"
    BY <1>2, <1>3, Failing
  <2>. QED  BY <1>1, <1>2, <1>3, <2>1 DEF ParserOK, Delivers, TypeOK, input
<1>4. CASE /\ ~ (pos > Len(stream)) /\ UNCHANGED <<stream, pos>>
           /\ inside' = TRUE /\ off' = 0
           /\ content' = [limit |-> stream[pos].size, owner |-> i.path, dummy |-> FALSE]
           /\ Offer(h, Do("seek", i.path))
  <2>1. stream[pos].size \in Nat
    <3>1. stream[pos] \in Packet
      BY <1>2, <1>4 DEF TypeOK
    <3>. QED  BY <3>1 DEF Packet
  <2>2. h \in Header /\ Do("seek", i.path) \in Instr
    BY <1>2, <2>1, Keywords DEF Header, Types, Do, With, Instr, Ops
  <2>3. ParserStep /\ msg'.hdr = h
    BY <1>2, <1>4, <2>2, Offering
  <2>4. /\ pos' \in Nat \ {0} /\ inside' \in BOOLEAN /\ off' \in Nat
        /\ content' \in [limit : Nat, owner : Seq(Strings), dummy : BOOLEAN]
        /\ stream' = stream
    <3>1. pos \in Nat \ {0}
      BY <1>2 DEF TypeOK
    <3>2. [limit |-> stream[pos].size, owner |-> i.path, dummy |-> FALSE]
            \in [limit : Nat, owner : Seq(Strings), dummy : BOOLEAN]
      BY <1>2, <2>1
    <3>. QED  BY <1>4, <3>1, <3>2
  <2>5. Delivers
    BY <1>4, <2>1, <2>3 DEF Delivers
  <2>. QED  BY <1>1, <2>3, <2>4, <2>5 DEF ParserOK
<1>. QED  BY <1>3, <1>4, Zenon DEF Contents

LEMMA FinishOK ==
  ASSUME IInv, Finish
  PROVE  ParserOK
<1>1. TypeOK /\ ppc = "run" /\ Fail("EOF")
  BY DEF IInv, Finish
<1>2. ParserStep /\ ppc' = "fail"
  BY <1>1, Failing
<1>. QED  BY <1>1, <1>2 DEF Finish, ParserOK, Delivers, TypeOK, input

LEMMA StoppedOK ==
  ASSUME IInv, StoppedByClose
  PROVE  ParserOK
<1>1. TypeOK /\ closed /\ todo # <<>> /\ Continue(<<>>)
  BY DEF IInv, WaitingHasStack, StoppedByClose
<1>2. ParserStep /\ ppc' = "run"
  BY <1>1, Continuing, NothingLeft
<1>. QED  BY <1>1, <1>2 DEF StoppedByClose, ParserOK, Delivers, TypeOK, input
-----------------------------------------------------------------------------
\* The steps of the caller, alone or with the parser.

LEMMA StartOK == ASSUME IInv, Start PROVE IInv'
<1>1. TypeOK'
  <2>1. <<Do("node", <<>>)>> \in Seq(Instr)
    BY Keywords DEF Do, With, Instr, Ops
  <2>. QED  BY <2>1 DEF IInv, TypeOK, Start, input
<1>2. HandoffExclusive' /\ OfferMatches' /\ FailHasError' /\ CallHasNoFuse' /\ WaitingHasStack'
  BY DEF IInv, TypeOK, Start, HandoffExclusive, OfferMatches, FailHasError, CallHasNoFuse,
         WaitingHasStack
<1>3. ContentMatchesHeader'
  BY DEF IInv, TypeOK, Start, ContentMatchesHeader
<1>. QED  BY <1>1, <1>2, <1>3 DEF IInv

LEMMA CallNextOK == ASSUME IInv, CallNext PROVE IInv'
<1>1. TypeOK'
  BY DEF IInv, TypeOK, CallNext, input, parser
<1>2. HandoffExclusive' /\ OfferMatches' /\ FailHasError' /\ CallHasNoFuse' /\ WaitingHasStack'
  BY DEF IInv, TypeOK, CallNext, input, parser, HandoffExclusive, OfferMatches,
         FailHasError, CallHasNoFuse, WaitingHasStack
<1>3. ContentMatchesHeader'
  BY DEF CallNext, ContentMatchesHeader
<1>. QED  BY <1>1, <1>2, <1>3 DEF IInv

LEMMA ResumeOK == ASSUME IInv, Resume PROVE IInv'
<1>1. TypeOK'
  BY DEF IInv, TypeOK, Resume, input
<1>2. HandoffExclusive' /\ OfferMatches' /\ FailHasError' /\ CallHasNoFuse' /\ WaitingHasStack'
  BY DEF IInv, TypeOK, Resume, input, HandoffExclusive, OfferMatches, FailHasError,
         CallHasNoFuse, WaitingHasStack
<1>3. ContentMatchesHeader'
  BY DEF Resume, ContentMatchesHeader
<1>. QED  BY <1>1, <1>2, <1>3 DEF IInv

\* A header that Next takes over was matched by the content reader already
\* when it was offered; one that Next refuses blows the fuse.
LEMMA TakeHeaderOK == ASSUME IInv, TakeHeader PROVE IInv'
<1>1. msg.hdr \in Header /\ msg.hdr.path \in Seq(Strings) /\ delivered \in Seq(Header)
  <2>1. msg.hdr \in Header
    BY DEF IInv, TypeOK
  <2>. QED  BY <2>1 DEF Header, IInv, TypeOK
<1>2. CASE prevPath' = msg.hdr.path /\ delivered' = Append(delivered, msg.hdr) /\ fuse' = fuse
  <2>1. TypeOK'
    BY <1>1, <1>2 DEF IInv, TypeOK, TakeHeader, input
  <2>2. HandoffExclusive' /\ OfferMatches' /\ FailHasError' /\ CallHasNoFuse' /\ WaitingHasStack'
    BY <1>2 DEF IInv, TypeOK, TakeHeader, HandoffExclusive, OfferMatches, FailHasError,
                CallHasNoFuse, WaitingHasStack
  <2>3. /\ delivered' # <<>>
        /\ delivered'[Len(delivered')] = msg.hdr
    BY <1>1, <1>2
  <2>4. ContentMatchesHeader'
    BY <2>3 DEF IInv, TakeHeader, input, OfferMatches, ContentMatchesHeader
  <2>. QED  BY <2>1, <2>2, <2>4 DEF IInv
<1>3. CASE fuse' = "order" /\ UNCHANGED <<prevPath, delivered>>
  <2>1. TypeOK'
    BY <1>3 DEF IInv, TypeOK, TakeHeader, input, Fuses
  <2>2. HandoffExclusive' /\ OfferMatches' /\ FailHasError' /\ CallHasNoFuse' /\ WaitingHasStack'
    BY <1>3 DEF IInv, TypeOK, TakeHeader, HandoffExclusive, OfferMatches, FailHasError,
                CallHasNoFuse, WaitingHasStack
  <2>3. ContentMatchesHeader'
    BY <1>3 DEF ContentMatchesHeader
  <2>. QED  BY <2>1, <2>2, <2>3 DEF IInv
<1>. QED  BY <1>2, <1>3 DEF TakeHeader

LEMMA TakeErrorOK == ASSUME IInv, TakeError PROVE IInv'
<1>1. TypeOK'
  BY DEF IInv, TypeOK, TakeError, input
<1>2. HandoffExclusive' /\ OfferMatches' /\ FailHasError' /\ CallHasNoFuse' /\ WaitingHasStack'
  BY DEF IInv, TypeOK, TakeError, HandoffExclusive, OfferMatches, FailHasError,
         CallHasNoFuse, WaitingHasStack
<1>3. ContentMatchesHeader'
  BY DEF IInv, FailHasError, TakeError, ContentMatchesHeader
<1>. QED  BY <1>1, <1>2, <1>3 DEF IInv

\* Read moves one unit from what is left to what was read.
LEMMA ReadOK == ASSUME IInv, Read PROVE IInv'
<1>1. /\ content.limit \in Nat /\ off \in Nat
      /\ content'.limit = content.limit - 1 /\ off' = off + 1
      /\ content'.owner = content.owner /\ content'.dummy = content.dummy
      /\ content' \in [limit : Nat, owner : Seq(Strings), dummy : BOOLEAN]
  <2>1. /\ content \in [limit : Nat, owner : Seq(Strings), dummy : BOOLEAN]
        /\ off \in Nat
    BY DEF IInv, TypeOK
  <2>2. /\ content.limit > 0 /\ off' = off + 1
        /\ content' = [content EXCEPT !.limit = content.limit - 1]
    BY DEF Read
  <2>3. content.limit \in Nat /\ content.limit - 1 \in Nat
    BY <2>1, <2>2
  <2>. QED  BY <2>1, <2>2, <2>3
<1>2. TypeOK'
  <2>1. off' \in Nat
    BY <1>1
  <2>2. UNCHANGED <<stream, pos, inside, ppc, todo, msg, cpc, closed, fuse, prevPath,
                    delivered, panic>>
    BY DEF Read, parser, caller
  <2>. QED  BY <1>1, <2>1, <2>2 DEF IInv, TypeOK
<1>3. HandoffExclusive' /\ OfferMatches' /\ FailHasError' /\ CallHasNoFuse' /\ WaitingHasStack'
  BY DEF IInv, TypeOK, Read, parser, caller, HandoffExclusive, OfferMatches, FailHasError,
         CallHasNoFuse, WaitingHasStack
<1>4. ContentMatchesHeader'
  <2>. DEFINE last == delivered[Len(delivered)]
              regular == delivered # <<>> /\ last.type = "regular"
  <2>1. SUFFICES ASSUME (cpc = "idle" /\ fuse = "none" /\ ~ closed)'
                 PROVE  /\ regular => /\ ~ content'.dummy /\ content'.owner = last.path
                                      /\ inside' /\ content'.limit + off' = last.size
                        /\ ~ regular => content'.limit = 0
    BY DEF ContentMatchesHeader, Read, caller
  <2>2. /\ regular => /\ ~ content.dummy /\ content.owner = last.path
                      /\ inside /\ content.limit + off = last.size
        /\ ~ regular => content.limit = 0
    BY <2>1 DEF IInv, ContentMatchesHeader, Read, caller
  <2>3. content.limit > 0 /\ inside' = inside
    BY DEF Read
  <2>. HIDE DEF last, regular
  <2>4. regular
    BY <1>1, <2>2, <2>3
  <2>5. content'.limit + off' = content.limit + off
    BY <1>1
  <2>. QED  BY <1>1, <2>2, <2>3, <2>4, <2>5
<1>. QED  BY <1>2, <1>3, <1>4 DEF IInv

LEMMA CloseOK == ASSUME IInv, Close PROVE IInv'
<1>1. TypeOK'
  BY DEF IInv, TypeOK, Close, input, parser
<1>2. HandoffExclusive' /\ OfferMatches' /\ FailHasError' /\ CallHasNoFuse' /\ WaitingHasStack'
  BY DEF IInv, TypeOK, Close, input, parser, HandoffExclusive, OfferMatches,
         FailHasError, CallHasNoFuse, WaitingHasStack
<1>3. ContentMatchesHeader'
  BY DEF Close, ContentMatchesHeader
<1>. QED  BY <1>1, <1>2, <1>3 DEF IInv

LEMMA StutterOK == ASSUME IInv, UNCHANGED vars PROVE IInv'
BY DEF IInv, TypeOK, vars, HandoffExclusive, OfferMatches, FailHasError, CallHasNoFuse,
       WaitingHasStack, ContentMatchesHeader
-----------------------------------------------------------------------------
LEMMA NextInv == IInv /\ [Next]_vars => IInv'
<1>. SUFFICES ASSUME IInv, [Next]_vars PROVE IInv'
  OBVIOUS
<1>1. CASE ParserAlone
  <2>1. ParserOK
    BY <1>1, ParseNodeOK, ExpectStringOK, LabelOK, RegularTokenOK, ContentsOK, SeekOK,
       TargetOK, EndNodeOK, EntriesOK, EntryNameOK, EntryEndOK, FinishOK, StoppedOK
       DEF ParserAlone
  <2>. QED  BY <2>1, ParserPreserves
<1>2. CASE Start \/ Resume \/ TakeHeader \/ TakeError
  BY <1>2, StartOK, ResumeOK, TakeHeaderOK, TakeErrorOK
<1>3. CASE CallNext \/ Read \/ Close
  BY <1>3, CallNextOK, ReadOK, CloseOK
<1>4. CASE UNCHANGED vars
  BY <1>4, StutterOK
<1>. QED  BY <1>1, <1>2, <1>3, <1>4 DEF Next, Library

\* Every reachable state of a Reader satisfies the inductive invariant.
THEOREM Invariance == Spec => []IInv
BY InitInv, NextInv, PTL DEF Spec

\* The variables keep their types.
THEOREM TypeCorrect == Spec => []TypeOK
<1>1. IInv => TypeOK
  BY DEF IInv
<1>. QED  BY <1>1, Invariance, PTL

\* The parser goroutine is at work or holds a result exactly during a call
\* of Next: the two goroutines never touch nr.r or nr.contentReader at once.
THEOREM Exclusion == Spec => []HandoffExclusive
<1>1. IInv => HandoffExclusive
  BY DEF IInv
<1>. QED  BY <1>1, Invariance, PTL

\* Between two calls, Read reads what is left of the file whose header Next
\* returned last, and nothing of a symlink or a directory.
THEOREM ContentOfHeader == Spec => []ContentMatchesHeader
<1>1. IInv => ContentMatchesHeader
  BY DEF IInv
<1>. QED  BY <1>1, Invariance, PTL

\* An error of Next, io.EOF among them, is final.
THEOREM ErrorsAreFinal == Spec => FuseIsFinal
<1>1. IInv /\ [Next]_vars => [fuse # "none" => UNCHANGED <<fuse, delivered>>]_vars
  <2>. SUFFICES ASSUME IInv, [Next]_vars, fuse # "none"
                PROVE  UNCHANGED <<fuse, delivered>>
    OBVIOUS
  <2>1. ~ TakeHeader /\ ~ TakeError
    BY DEF IInv, CallHasNoFuse, TakeHeader, TakeError
  <2>2. CASE ParserAlone
    BY <2>2 DEF ParserAlone, ParseNode, ExpectString, Label, RegularToken, Contents, Seek,
       Target, EndNode, Entries, EntryName, EntryEnd, Finish, StoppedByClose, caller
  <2>3. CASE Start \/ Resume \/ CallNext \/ Read \/ Close \/ UNCHANGED vars
    BY <2>3 DEF Start, Resume, CallNext, Read, Close, vars, caller
  <2>. QED  BY <2>1, <2>2, <2>3 DEF Next, Library
<1>. QED  BY <1>1, Invariance, PTL DEF Spec, FuseIsFinal
-----------------------------------------------------------------------------
(* Parents come first.  Every call on the stack works below a directory    *)
(* whose header has been delivered, or is the header now on offer.         *)

HasDirectory(hdrs, p) ==
  \E j \in DOMAIN hdrs : hdrs[j].type = "directory" /\ hdrs[j].path = p

Rooted(hdrs, p) == p = <<>> \/ HasDirectory(hdrs, SubSeq(p, 1, Len(p) - 1))

\* The loop of a directory needs the directory, any other call its parent.
InPlace(hdrs, i) ==
  IF i.op \in {"entries", "name", "entryEnd"} THEN HasDirectory(hdrs, i.path)
                                              ELSE Rooted(hdrs, i.path)

Shown == IF ppc = "offer" THEN Append(delivered, msg.hdr) ELSE delivered

StackInPlace ==
  (~ closed /\ fuse = "none") =>
    /\ \A k \in DOMAIN todo : InPlace(Shown, todo[k])
    /\ ppc = "offer" => Rooted(delivered, msg.hdr.path)

CallIsOpen == cpc \in {"sendNext", "select"} => ~ closed

PlaceInv == ParentsFirst /\ StackInPlace /\ CallIsOpen

LEMMA DirectoryStays ==
  ASSUME NEW d \in Seq(Header), NEW h \in Header, NEW p, HasDirectory(d, p)
  PROVE  HasDirectory(Append(d, h), p)
<1>1. PICK j \in DOMAIN d : d[j].type = "directory" /\ d[j].path = p
  BY DEF HasDirectory
<1>2. j \in DOMAIN Append(d, h) /\ Append(d, h)[j] = d[j]
  OBVIOUS
<1>. QED  BY <1>1, <1>2 DEF HasDirectory

LEMMA PlaceStays ==
  ASSUME NEW d \in Seq(Header), NEW h \in Header, NEW i, InPlace(d, i)
  PROVE  InPlace(Append(d, h), i)
BY DirectoryStays DEF InPlace, Rooted

LEMMA DirectoryIsRooted ==
  ASSUME delivered \in Seq(Header), ParentsFirst, NEW p, HasDirectory(delivered, p)
  PROVE  Rooted(delivered, p)
<1>1. PICK i \in DOMAIN delivered : delivered[i].path = p
  BY DEF HasDirectory
<1>2. CASE p # <<>>
  <2>1. PICK j \in 1 .. i - 1 : /\ delivered[j].type = "directory"
                                /\ delivered[j].path = SubSeq(p, 1, Len(p) - 1)
    BY <1>1, <1>2 DEF ParentsFirst
  <2>2. j \in DOMAIN delivered
    BY <1>1
  <2>. QED  BY <2>1, <2>2 DEF Rooted, HasDirectory
<1>. QED  BY <1>2 DEF Rooted

\* A name that is ".", ".." or empty leads back to a directory on the way.
LEMMA JoinRooted ==
  ASSUME delivered \in Seq(Header), ParentsFirst, NEW p \in Seq(Strings), NEW n \in Strings,
         HasDirectory(delivered, p)
  PROVE  Rooted(delivered, Join(p, n))
<1>1. CASE Join(p, n) = p
  BY <1>1, DirectoryIsRooted
<1>2. CASE p # <<>> /\ Join(p, n) = SubSeq(p, 1, Len(p) - 1)
  <2>1. HasDirectory(delivered, SubSeq(p, 1, Len(p) - 1))
    BY <1>2, DirectoryIsRooted DEF Rooted
  <2>. QED  BY <1>2, <2>1, DirectoryIsRooted
<1>3. CASE Join(p, n) = Append(p, n)
  <2>1. SubSeq(Append(p, n), 1, Len(Append(p, n)) - 1) = p
    OBVIOUS
  <2>. QED  BY <1>3, <2>1 DEF Rooted
<1>. QED  BY <1>1, <1>2, <1>3 DEF Join
-----------------------------------------------------------------------------
\* The steps of the parser, by the way they leave the stack.

LEMMA FailInPlace ==
  ASSUME PlaceInv, NEW e, Fail(e), UNCHANGED caller
  PROVE  PlaceInv'
BY DEF PlaceInv, ParentsFirst, StackInPlace, CallIsOpen, Fail, caller

LEMMA ContinueInPlace ==
  ASSUME IInv, PlaceInv, ppc = "run", todo # <<>>,
         NEW seq \in Seq(Instr), Continue(seq), UNCHANGED caller,
         ~ closed /\ fuse = "none" => \A k \in DOMAIN seq : InPlace(delivered, seq[k])
  PROVE  PlaceInv'
<1>1. ParentsFirst' /\ CallIsOpen'
  BY DEF PlaceInv, ParentsFirst, CallIsOpen, caller
<1>2. StackInPlace'
  <2>. SUFFICES ASSUME ~ closed, fuse = "none", NEW k \in DOMAIN todo'
                PROVE  InPlace(delivered, todo'[k])
    BY DEF StackInPlace, Shown, Continue, caller
  <2>1. todo \in Seq(Instr) /\ todo' = seq \o Tail(todo)
    BY DEF IInv, TypeOK, Continue
  <2>2. CASE k \in DOMAIN seq
    <3>1. todo'[k] = seq[k]
      BY <2>1, <2>2
    <3>. QED  BY <2>2, <3>1
  <2>3. CASE k \notin DOMAIN seq
    <3>1. k - Len(seq) + 1 \in DOMAIN todo /\ todo'[k] = todo[k - Len(seq) + 1]
      BY <2>1, <2>3
    <3>2. InPlace(delivered, todo[k - Len(seq) + 1])
      BY <3>1 DEF PlaceInv, StackInPlace, Shown
    <3>. QED  BY <3>1, <3>2
  <2>. QED  BY <2>2, <2>3
<1>. QED  BY <1>1, <1>2 DEF PlaceInv

LEMMA OfferInPlace ==
  ASSUME IInv, PlaceInv, ppc = "run", todo # <<>>,
         NEW h \in Header, NEW rest \in Instr, Offer(h, rest), UNCHANGED caller,
         ~ closed /\ fuse = "none" => /\ Rooted(delivered, h.path)
                                      /\ InPlace(Append(delivered, h), rest)
  PROVE  PlaceInv'
<1>1. ParentsFirst' /\ CallIsOpen'
  BY DEF PlaceInv, ParentsFirst, CallIsOpen, caller
<1>2. StackInPlace'
  <2>. SUFFICES ASSUME ~ closed, fuse = "none"
                PROVE  /\ \A k \in DOMAIN todo' : InPlace(Append(delivered, h), todo'[k])
                       /\ Rooted(delivered, h.path)
    BY DEF StackInPlace, Shown, Offer, caller
  <2>1. todo \in Seq(Instr) /\ delivered \in Seq(Header) /\ todo' = <<rest>> \o Tail(todo)
    BY DEF IInv, TypeOK, Offer
  <2>2. ASSUME NEW k \in DOMAIN todo' PROVE InPlace(Append(delivered, h), todo'[k])
    <3>1. CASE k = 1
      <4>1. todo'[k] = rest
        BY <2>1, <3>1
      <4>. QED  BY <4>1
    <3>2. CASE k # 1
      <4>1. k \in DOMAIN todo /\ todo'[k] = todo[k]
        BY <2>1, <3>2
      <4>2. InPlace(delivered, todo[k])
        BY <4>1 DEF PlaceInv, StackInPlace, Shown
      <4>. QED  BY <2>1, <4>1, <4>2, PlaceStays
    <3>. QED  BY <3>1, <3>2
  <2>. QED  BY <2>2
<1>. QED  BY <1>1, <1>2 DEF PlaceInv

\* What the innermost call may rely on.
LEMMA HeadInPlace ==
  ASSUME IInv, PlaceInv, ppc = "run", todo # <<>>, ~ closed, fuse = "none"
  PROVE  InPlace(delivered, Head(todo))
<1>1. todo \in Seq(Instr)
  BY DEF IInv, TypeOK
<1>2. 1 \in DOMAIN todo /\ Head(todo) = todo[1]
  BY <1>1
<1>. QED  BY <1>2 DEF PlaceInv, StackInPlace, Shown

LEMMA LitInPlace == ASSUME NEW t PROVE InPlace(delivered, Lit(t))
BY DEF Lit, With, InPlace, Rooted

\* A call that returns, and one that goes on with one or two instructions.
LEMMA ReturnInPlace ==
  ASSUME IInv, PlaceInv, ppc = "run", todo # <<>>, Continue(<<>>), UNCHANGED caller
  PROVE  PlaceInv'
<1>1. \A k \in DOMAIN <<>> : InPlace(delivered, <<>>[k])
  OBVIOUS
<1>. QED  BY <1>1, NothingLeft, ContinueInPlace

LEMMA OneInPlace ==
  ASSUME IInv, PlaceInv, ppc = "run", todo # <<>>,
         NEW a \in Instr, Continue(<<a>>), UNCHANGED caller,
         ~ closed /\ fuse = "none" => InPlace(delivered, a)
  PROVE  PlaceInv'
<1>. DEFINE seq == <<a>>
<1>1. seq \in Seq(Instr) /\ \A k \in DOMAIN seq : seq[k] = a
  OBVIOUS
<1>2. Continue(seq)
  OBVIOUS
<1>. HIDE DEF seq
<1>. QED  BY <1>1, <1>2, ContinueInPlace

LEMMA TwoInPlace ==
  ASSUME IInv, PlaceInv, ppc = "run", todo # <<>>,
         NEW a \in Instr, NEW b \in Instr, Continue(<<a, b>>), UNCHANGED caller,
         ~ closed /\ fuse = "none" => InPlace(delivered, a) /\ InPlace(delivered, b)
  PROVE  PlaceInv'
<1>. DEFINE seq == <<a, b>>
<1>1. seq \in Seq(Instr) /\ \A k \in DOMAIN seq : seq[k] = a \/ seq[k] = b
  OBVIOUS
<1>2. Continue(seq)
  OBVIOUS
<1>. HIDE DEF seq
<1>. QED  BY <1>1, <1>2, ContinueInPlace

\* What every running step of the parser starts from.
LEMMA RunningPlace ==
  ASSUME IInv, PlaceInv, NEW op, Running(op)
  PROVE  /\ ppc = "run" /\ todo # <<>> /\ Head(todo).op = op
         /\ Head(todo).path \in Seq(Strings) /\ Head(todo).tok \in Strings
         /\ Head(todo).exec \in BOOLEAN
         /\ ~ closed /\ fuse = "none" => InPlace(delivered, Head(todo))
<1>1. Head(todo).op = op
  BY DEF Running
<1>. QED  BY <1>1, RunningState, HeadInPlace

LEMMA ParseNodePlace == ASSUME IInv, PlaceInv, ParseNode PROVE PlaceInv'
<1>. DEFINE p == Head(todo).path
            seq == <<Lit("("), Lit("type"), Do("label", p)>>
<1>1. Running("node") /\ Continue(seq) /\ UNCHANGED caller
  BY DEF ParseNode
<1>2. seq \in Seq(Instr)
  BY <1>1, RunningPlace, Keywords DEF Lit, Do, With, Instr, Ops
<1>3. ASSUME ~ closed, fuse = "none" PROVE \A k \in DOMAIN seq : InPlace(delivered, seq[k])
  <2>1. InPlace(delivered, Do("label", p))
    BY <1>1, <1>3, RunningPlace DEF InPlace, Do, With
  <2>. QED  BY <2>1, LitInPlace
<1>. HIDE DEF seq
<1>. QED  BY <1>1, <1>2, <1>3, RunningPlace, ContinueInPlace

LEMMA ExpectStringPlace == ASSUME IInv, PlaceInv, ExpectString PROVE PlaceInv'
<1>1. Running("lit") /\ UNCHANGED caller /\ (Continue(<<>>) \/ Fail("error"))
  BY DEF ExpectString
<1>. QED  BY <1>1, RunningPlace, ReturnInPlace, FailInPlace

LEMMA LabelPlace == ASSUME IInv, PlaceInv, Label PROVE PlaceInv'
<1>. DEFINE p == Head(todo).path
            h == [NoHeader EXCEPT !.path = p]
<1>1. Running("label") /\ UNCHANGED caller
  BY DEF Label
<1>2. \/ Continue(<<Do("regular", p)>>)
      \/ Continue(<<Lit("target"), Do("target", p)>>)
      \/ Offer(h, Do("entries", p))
      \/ Continue(<<>>)
      \/ \E e : Fail(e)
  BY DEF Label
<1>3. p \in Seq(Strings) /\ (~ closed /\ fuse = "none" => Rooted(delivered, p))
  BY <1>1, RunningPlace DEF InPlace
<1>4. /\ Do("regular", p) \in Instr /\ Do("target", p) \in Instr
      /\ Lit("target") \in Instr /\ Do("entries", p) \in Instr
  BY <1>3, Keywords DEF Lit, Do, With, Instr, Ops
<1>5. ASSUME ~ closed, fuse = "none"
      PROVE  /\ InPlace(delivered, Do("regular", p))
             /\ InPlace(delivered, Do("target", p))
             /\ InPlace(delivered, Lit("target"))
  BY <1>3, <1>5, LitInPlace DEF InPlace, Do, With
<1>6. CASE Continue(<<Do("regular", p)>>)
  BY <1>1, <1>4, <1>5, <1>6, RunningPlace, OneInPlace
<1>7. CASE Continue(<<Lit("target"), Do("target", p)>>)
  BY <1>1, <1>4, <1>5, <1>7, RunningPlace, TwoInPlace
<1>8. CASE Offer(h, Do("entries", p))
  <2>1. h \in Header /\ h.path = p /\ h.type = "directory"
    BY <1>3 DEF NoHeader, Header, Types
  <2>. HIDE DEF h
  <2>2. InPlace(Append(delivered, h), Do("entries", p))
    <3>1. delivered \in Seq(Header)
      BY DEF IInv, TypeOK
    <3>2. /\ Len(delivered) + 1 \in DOMAIN Append(delivered, h)
          /\ Append(delivered, h)[Len(delivered) + 1] = h
      BY <3>1
    <3>3. HasDirectory(Append(delivered, h), p)
      BY <2>1, <3>2 DEF HasDirectory
    <3>. QED  BY <3>3 DEF InPlace, Do, With
  <2>. QED  BY <1>1, <1>3, <1>4, <1>8, <2>1, <2>2, RunningPlace, OfferInPlace
<1>9. CASE Continue(<<>>)
  BY <1>1, <1>9, RunningPlace, ReturnInPlace
<1>10. CASE \E e : Fail(e)
  BY <1>1, <1>10, FailInPlace
<1>. QED  BY <1>2, <1>6, <1>7, <1>8, <1>9, <1>10

LEMMA RegularTokenPlace == ASSUME IInv, PlaceInv, RegularToken PROVE PlaceInv'
<1>. DEFINE i == Head(todo)
            contents == With("contents", i.path, EmptyString, i.exec)
            again == With("regular", i.path, EmptyString, TRUE)
<1>1. Running("regular") /\ UNCHANGED caller
  BY DEF RegularToken
<1>2. Continue(<<contents>>) \/ Continue(<<Lit(EmptyString), again>>) \/ \E e : Fail(e)
  BY DEF RegularToken
<1>3. /\ i.path \in Seq(Strings) /\ i.exec \in BOOLEAN
      /\ ~ closed /\ fuse = "none" => Rooted(delivered, i.path)
  BY <1>1, RunningPlace DEF InPlace
<1>4. contents \in Instr /\ again \in Instr /\ Lit(EmptyString) \in Instr
  BY <1>3, Keywords DEF Lit, With, Instr, Ops
<1>5. ASSUME ~ closed, fuse = "none"
      PROVE  /\ InPlace(delivered, contents) /\ InPlace(delivered, again)
             /\ InPlace(delivered, Lit(EmptyString))
  BY <1>3, <1>5, LitInPlace DEF InPlace, With
<1>. HIDE DEF contents, again
<1>. QED  BY <1>1, <1>2, <1>4, <1>5, RunningPlace, OneInPlace, TwoInPlace, FailInPlace

LEMMA ContentsPlace == ASSUME IInv, PlaceInv, Contents PROVE PlaceInv'
<1>. DEFINE i == Head(todo)
            h == [path |-> i.path, type |-> "regular", size |-> stream[pos].size,
                  exec |-> i.exec]
<1>1. Running("contents") /\ UNCHANGED caller
  BY DEF Contents
<1>2. CASE Fail("EOF") \/ Fail("error")
  BY <1>1, <1>2, FailInPlace
<1>3. CASE ~ (pos > Len(stream)) /\ Offer(h, Do("seek", i.path))
  <2>1. /\ i.path \in Seq(Strings) /\ i.exec \in BOOLEAN
        /\ ~ closed /\ fuse = "none" => Rooted(delivered, i.path)
    BY <1>1, RunningPlace DEF InPlace
  <2>2. stream[pos].size \in Nat
    <3>1. stream[pos] \in Packet
      BY <1>3 DEF IInv, TypeOK
    <3>. QED  BY <3>1 DEF Packet
  <2>3. h \in Header /\ h.path = i.path /\ Do("seek", i.path) \in Instr
    BY <2>1, <2>2, Keywords DEF Header, Types, Do, With, Instr, Ops
  <2>. HIDE DEF h
  <2>4. ASSUME ~ closed, fuse = "none"
        PROVE  InPlace(Append(delivered, h), Do("seek", i.path))
    <3>1. InPlace(delivered, Do("seek", i.path)) /\ delivered \in Seq(Header)
      BY <2>1, <2>4 DEF InPlace, Do, With, IInv, TypeOK
    <3>. QED  BY <2>3, <3>1, PlaceStays
  <2>. QED  BY <1>1, <1>3, <2>1, <2>3, <2>4, RunningPlace, OfferInPlace
<1>. QED  BY <1>2, <1>3, Zenon DEF Contents

LEMMA SeekPlace == ASSUME IInv, PlaceInv, Seek PROVE PlaceInv'
<1>. DEFINE p == Head(todo).path
<1>1. Running("seek") /\ UNCHANGED caller
  BY DEF Seek
<1>2. Continue(<<Do("end", p)>>) \/ \E e : Fail(e)
  BY DEF Seek
<1>3. Do("end", p) \in Instr
  BY <1>1, RunningPlace, Keywords DEF Do, With, Instr, Ops
<1>4. ~ closed /\ fuse = "none" => InPlace(delivered, Do("end", p))
  BY <1>1, RunningPlace DEF InPlace, Do, With
<1>. QED  BY <1>1, <1>2, <1>3, <1>4, RunningPlace, OneInPlace, FailInPlace

LEMMA TargetPlace == ASSUME IInv, PlaceInv, Target PROVE PlaceInv'
<1>. DEFINE p == Head(todo).path
            h == [NoHeader EXCEPT !.path = p, !.type = "symlink"]
<1>1. Running("target") /\ UNCHANGED caller
  BY DEF Target
<1>2. Offer(h, Do("end", p)) \/ \E e : Fail(e)
  BY DEF Target
<1>3. p \in Seq(Strings) /\ (~ closed /\ fuse = "none" => Rooted(delivered, p))
  BY <1>1, RunningPlace DEF InPlace
<1>4. h \in Header /\ h.path = p /\ Do("end", p) \in Instr
  BY <1>3, Keywords DEF NoHeader, Header, Types, Do, With, Instr, Ops
<1>. HIDE DEF h
<1>5. ASSUME ~ closed, fuse = "none"
      PROVE  InPlace(Append(delivered, h), Do("end", p))
  <2>1. InPlace(delivered, Do("end", p)) /\ delivered \in Seq(Header)
    BY <1>3, <1>5 DEF InPlace, Do, With, IInv, TypeOK
  <2>. QED  BY <1>4, <2>1, PlaceStays
<1>. QED  BY <1>1, <1>2, <1>3, <1>4, <1>5, RunningPlace, OfferInPlace, FailInPlace

LEMMA EndNodePlace == ASSUME IInv, PlaceInv, EndNode PROVE PlaceInv'
<1>1. Running("end") /\ UNCHANGED caller /\ (Continue(<<>>) \/ \E e : Fail(e))
  BY DEF EndNode
<1>. QED  BY <1>1, RunningPlace, ReturnInPlace, FailInPlace

LEMMA EntriesPlace == ASSUME IInv, PlaceInv, Entries PROVE PlaceInv'
<1>. DEFINE p == Head(todo).path
            seq == <<Lit("("), Lit("name"), Do("name", p)>>
<1>1. Running("entries") /\ UNCHANGED caller
  BY DEF Entries
<1>2. Continue(seq) \/ Continue(<<>>) \/ Continue(<<Do("entries", p)>>) \/ \E e : Fail(e)
  BY DEF Entries
<1>3. /\ seq \in Seq(Instr) /\ Do("entries", p) \in Instr
      /\ \A k \in DOMAIN seq : seq[k] \in {Lit("("), Lit("name"), Do("name", p)}
  <2>1. /\ Lit("(") \in Instr /\ Lit("name") \in Instr
        /\ Do("name", p) \in Instr /\ Do("entries", p) \in Instr
    BY <1>1, RunningPlace, Keywords DEF Lit, Do, With, Instr, Ops
  <2>. QED  BY <2>1
<1>4. ASSUME ~ closed, fuse = "none"
      PROVE  InPlace(delivered, Do("entries", p)) /\ InPlace(delivered, Do("name", p))
  BY <1>1, <1>4, RunningPlace DEF InPlace, Do, With
<1>5. ~ closed /\ fuse = "none" => \A k \in DOMAIN seq : InPlace(delivered, seq[k])
  BY <1>3, <1>4, LitInPlace
<1>. HIDE DEF seq
<1>. QED  BY <1>1, <1>2, <1>3, <1>4, <1>5, RunningPlace, ContinueInPlace, ReturnInPlace,
             OneInPlace, FailInPlace

LEMMA EntryNamePlace == ASSUME IInv, PlaceInv, EntryName PROVE PlaceInv'
<1>. DEFINE p == Head(todo).path
            node(n) == Do("node", Join(p, n))
            last(n) == With("entryEnd", p, n, FALSE)
            seq(n) == <<Lit("node"), node(n), Lit(")"), last(n)>>
<1>1. Running("name") /\ UNCHANGED caller
  BY DEF EntryName
<1>2. (\E n \in Strings : Continue(seq(n))) \/ \E e : Fail(e)
  <2>1. TypeOK
    BY DEF IInv
  <2>2. PICK o \in ReadString(nameLenMax) : Continue(seq(o.tok)) \/ \E e : Fail(e)
    BY DEF EntryName
  <2>3. o.tok \in Strings
    BY <2>1, ReadStringType
  <2>. QED  BY <2>2, <2>3
<1>3. ASSUME NEW n \in Strings, Continue(seq(n)) PROVE PlaceInv'
  <2>1. p \in Seq(Strings) /\ Join(p, n) \in Seq(Strings)
    BY <1>1, RunningPlace, JoinType
  <2>2. /\ seq(n) \in Seq(Instr)
        /\ \A k \in DOMAIN seq(n) : seq(n)[k] \in {Lit("node"), node(n), Lit(")"), last(n)}
    <3>1. /\ Lit("node") \in Instr /\ Lit(")") \in Instr
          /\ node(n) \in Instr /\ last(n) \in Instr
      BY <2>1, Keywords DEF Lit, Do, With, Instr, Ops
    <3>. HIDE DEF node, last
    <3>. QED  BY <3>1
  <2>3. ASSUME ~ closed, fuse = "none"
        PROVE  InPlace(delivered, node(n)) /\ InPlace(delivered, last(n))
    <3>1. HasDirectory(delivered, p)
      BY <1>1, <2>3, RunningPlace DEF InPlace
    <3>2. Rooted(delivered, Join(p, n))
      BY <2>1, <3>1, JoinRooted DEF PlaceInv, IInv, TypeOK
    <3>. QED  BY <3>1, <3>2 DEF InPlace, Do, With
  <2>4. ~ closed /\ fuse = "none" => \A k \in DOMAIN seq(n) : InPlace(delivered, seq(n)[k])
    BY <2>2, <2>3, LitInPlace
  <2>. HIDE DEF seq
  <2>. QED  BY <1>1, <1>3, <2>2, <2>4, RunningPlace, ContinueInPlace
<1>. QED  BY <1>1, <1>2, <1>3, FailInPlace

LEMMA EntryEndPlace == ASSUME IInv, PlaceInv, EntryEnd PROVE PlaceInv'
<1>. DEFINE p == Head(todo).path
<1>1. Running("entryEnd") /\ UNCHANGED caller
      /\ (Continue(<<>>) \/ Continue(<<Do("entries", p)>>))
  BY DEF EntryEnd
<1>2. Do("entries", p) \in Instr
  BY <1>1, RunningPlace, Keywords DEF Do, With, Instr, Ops
<1>3. ~ closed /\ fuse = "none" => InPlace(delivered, Do("entries", p))
  BY <1>1, RunningPlace DEF InPlace, Do, With
<1>. QED  BY <1>1, <1>2, <1>3, RunningPlace, ReturnInPlace, OneInPlace

\* Once the Reader is closed no header is delivered any more.
LEMMA StoppedPlace == ASSUME PlaceInv, StoppedByClose PROVE PlaceInv'
BY DEF PlaceInv, ParentsFirst, StackInPlace, CallIsOpen, StoppedByClose, caller

LEMMA FinishPlace == ASSUME PlaceInv, Finish PROVE PlaceInv'
BY FailInPlace DEF Finish
-----------------------------------------------------------------------------
LEMMA StartPlace == ASSUME IInv, PlaceInv, Start PROVE PlaceInv'
<1>1. ParentsFirst' /\ CallIsOpen'
  BY DEF PlaceInv, ParentsFirst, CallIsOpen, Start
<1>2. CASE todo' = <<Do("node", <<>>)>> /\ ppc' = "run"
  <2>1. InPlace(delivered, Do("node", <<>>))
    BY DEF InPlace, Rooted, Do, With
  <2>2. \A k \in DOMAIN <<Do("node", <<>>)>> : InPlace(delivered, <<Do("node", <<>>)>>[k])
    BY <2>1
  <2>3. StackInPlace'
    BY <1>2, <2>2 DEF StackInPlace, Shown, Start
  <2>. QED  BY <1>1, <2>3 DEF PlaceInv
<1>3. CASE closed
  BY <1>1, <1>3 DEF PlaceInv, StackInPlace, Start
<1>. QED  BY <1>2, <1>3 DEF Start

\* A header that Next takes over has its directory before it; one that Next
\* refuses is the last one the caller hears of.
LEMMA TakeHeaderPlace == ASSUME IInv, PlaceInv, TakeHeader PROVE PlaceInv'
<1>1. CallIsOpen' /\ ~ closed /\ fuse = "none" /\ ppc = "offer" /\ ppc' = "await"
      /\ todo' = todo
  BY DEF IInv, CallHasNoFuse, PlaceInv, CallIsOpen, TakeHeader
<1>2. CASE delivered' = Append(delivered, msg.hdr)
  <2>1. delivered \in Seq(Header) /\ msg.hdr \in Header
    BY DEF IInv, TypeOK
  <2>2. /\ \A k \in DOMAIN todo : InPlace(Append(delivered, msg.hdr), todo[k])
        /\ Rooted(delivered, msg.hdr.path)
    BY <1>1 DEF PlaceInv, StackInPlace, Shown
  <2>3. StackInPlace'
    BY <1>1, <1>2, <2>2 DEF StackInPlace, Shown
  <2>4. ParentsFirst'
    <3>. SUFFICES ASSUME NEW i \in DOMAIN delivered', delivered'[i].path # <<>>
                  PROVE  \E j \in 1 .. i - 1 :
                           /\ delivered'[j].type = "directory"
                           /\ delivered'[j].path =
                                SubSeq(delivered'[i].path, 1, Len(delivered'[i].path) - 1)
      BY DEF ParentsFirst
    <3>1. CASE i \in DOMAIN delivered
      <4>1. \A j \in 1 .. i : delivered'[j] = delivered[j]
        BY <1>2, <2>1, <3>1
      <4>2. delivered'[i] = delivered[i]
        BY <2>1, <3>1, <4>1
      <4>3. PICK j \in 1 .. i - 1 :
              /\ delivered[j].type = "directory"
              /\ delivered[j].path = SubSeq(delivered[i].path, 1, Len(delivered[i].path) - 1)
        BY <3>1, <4>2 DEF PlaceInv, ParentsFirst
      <4>4. delivered'[j] = delivered[j]
        BY <2>1, <3>1, <4>1
      <4>. QED  BY <4>2, <4>3, <4>4
    <3>2. CASE i \notin DOMAIN delivered
      <4>1. i = Len(delivered) + 1 /\ delivered'[i] = msg.hdr
        BY <1>2, <2>1, <3>2
      <4>2. HasDirectory(delivered, SubSeq(msg.hdr.path, 1, Len(msg.hdr.path) - 1))
        BY <2>2, <4>1 DEF Rooted
      <4>3. PICK j \in DOMAIN delivered :
              /\ delivered[j].type = "directory"
              /\ delivered[j].path = SubSeq(msg.hdr.path, 1, Len(msg.hdr.path) - 1)
        BY <4>2 DEF HasDirectory
      <4>4. j \in 1 .. i - 1 /\ delivered'[j] = delivered[j]
        BY <1>2, <2>1, <4>1
      <4>. QED  BY <4>1, <4>3, <4>4
    <3>. QED  BY <3>1, <3>2
  <2>. QED  BY <1>1, <2>3, <2>4 DEF PlaceInv
<1>3. CASE fuse' = "order" /\ delivered' = delivered
  BY <1>1, <1>3 DEF PlaceInv, ParentsFirst, StackInPlace
<1>. QED  BY <1>2, <1>3 DEF TakeHeader

\* The other steps of the caller leave the stack and the headers alone.
LEMMA CallerPlace ==
  ASSUME IInv, PlaceInv, CallNext \/ Resume \/ TakeError \/ Read \/ Close \/ UNCHANGED vars
  PROVE  PlaceInv'
<1>1. /\ delivered' = delivered /\ todo' = todo /\ msg' = msg
      /\ ppc' = "offer" <=> ppc = "offer"
      /\ ~ closed' => ~ closed
      /\ fuse' = "none" => fuse = "none"
      /\ CallIsOpen'
  BY DEF IInv, TypeOK, PlaceInv, CallIsOpen, CallHasNoFuse, FailHasError, CallNext, Resume, TakeError,
         Read, Close, vars, parser, caller
<1>2. ParentsFirst' /\ StackInPlace'
  BY <1>1 DEF PlaceInv, ParentsFirst, StackInPlace, Shown
<1>. QED  BY <1>1, <1>2 DEF PlaceInv

LEMMA PlaceNext == IInv /\ PlaceInv /\ [Next]_vars => PlaceInv'
<1>. SUFFICES ASSUME IInv, PlaceInv, [Next]_vars PROVE PlaceInv'
  OBVIOUS
<1>1. CASE ParserAlone
  BY <1>1, ParseNodePlace, ExpectStringPlace, LabelPlace, RegularTokenPlace, ContentsPlace,
     SeekPlace, TargetPlace, EndNodePlace, EntriesPlace, EntryNamePlace, EntryEndPlace,
     FinishPlace, StoppedPlace DEF ParserAlone
<1>2. CASE Start
  BY <1>2, StartPlace
<1>3. CASE TakeHeader
  BY <1>3, TakeHeaderPlace
<1>4. CASE CallNext \/ Resume \/ TakeError \/ Read \/ Close \/ UNCHANGED vars
  BY <1>4, CallerPlace
<1>. QED  BY <1>1, <1>2, <1>3, <1>4 DEF Next, Library

\* On any archive, however damaged, a header below the root comes after the
\* header of a directory at its parent path.
THEOREM ParentsDelivered == Spec => []ParentsFirst
<1>1. Init => PlaceInv
  BY DEF Init, PlaceInv, ParentsFirst, StackInPlace, CallIsOpen, Shown
<1>2. PlaceInv => ParentsFirst
  BY DEF PlaceInv
<1>. QED  BY <1>1, <1>2, PlaceNext, Invariance, PTL DEF Spec

-----------------------------------------------------------------------------
(* Siblings in order.  The loops of directories on the stack form a chain  *)
(* of directories that lead to the path of the last header, and whatever   *)
(* is parsed next is an entry of the innermost, or a path that the names   *)
(* "." and ".." lead back to, which EntryOrder and NoWayBack deal with.    *)

DirectoryOps == {"entries", "name", "entryEnd"}
PathOps == {"node", "label", "regular", "contents", "target"}

Above(p, q) == Len(p) <= Len(q) /\ SameNames(p, q, Len(p))

\* todo[k] is the loop of a directory whose header has been delivered.
Frame(k) == k \in DOMAIN todo /\ todo[k].op \in DirectoryOps /\ (ppc = "offer" => k # 1)

\* The directories whose loops are on the stack.
Loops == {todo[k].path : k \in {i \in DOMAIN todo : Frame(i)}}

\* p may be the path of the header behind one at prev, with the loops of
\* the given directories on the stack.
MayFollow(p, prev, loops) ==
  /\ Proper(p)
  /\ p # <<>> => Len(p) - 1 <= Len(prev) /\ SameNames(prev, p, Len(p) - 1)
  /\ Above(p, prev) \/ \A d \in loops : Above(d, p)

StackInOrder ==
  (~ closed /\ fuse = "none") =>
    /\ \A d \in Loops : Above(d, prevPath)
    /\ \A k, l : Frame(k) /\ Frame(l) /\ k < l => Above(todo[l].path, todo[k].path)
    /\ \A k \in DOMAIN todo : todo[k].op \in PathOps =>
         /\ MayFollow(todo[k].path, prevPath, Loops)
         /\ \A l \in 1 .. k - 1 : todo[l].op = "lit"
    /\ ppc = "offer" => /\ MayFollow(msg.hdr.path, prevPath, Loops)
                        /\ todo[1].path = msg.hdr.path
                        /\ todo[1].op \notin PathOps /\ todo[1].op # "lit"

LastPath == IF delivered = <<>> THEN <<>> ELSE delivered[Len(delivered)].path

\* The headers come in the order of the tree: a directory before what is
\* below it, all of that before the next sibling, siblings by their names.
TreeOrder ==
  \A j \in DOMAIN delivered : \A i \in 1 .. j - 1 :
    TreeLeq(delivered[i].path, delivered[j].path)

OrderInv == TreeOrder /\ prevPath = LastPath /\ Proper(prevPath) /\ StackInOrder

LEMMA SameDelivered ==
  ASSUME OrderInv, delivered' = delivered, prevPath' = prevPath
  PROVE  TreeOrder' /\ (prevPath = LastPath)' /\ Proper(prevPath)'
BY DEF OrderInv, TreeOrder, LastPath, Proper

LEMMA FailInOrder ==
  ASSUME OrderInv, NEW e, Fail(e), UNCHANGED caller
  PROVE  OrderInv'
<1>1. TreeOrder' /\ (prevPath = LastPath)' /\ Proper(prevPath)'
  BY SameDelivered DEF caller
<1>2. StackInOrder'
  <2>1. todo' = <<>> /\ ppc' = "fail" /\ DOMAIN <<>> = {}
    BY DEF Fail
  <2>2. Loops' = {}
    BY <2>1 DEF Loops
  <2>. QED  BY <2>1, <2>2 DEF StackInOrder, Frame
<1>. QED  BY <1>1, <1>2 DEF OrderInv

\* A path that may come next still may when directories leave the stack.
LEMMA FollowStays ==
  ASSUME NEW p, NEW prev, NEW loops, MayFollow(p, prev, loops), NEW fewer \in SUBSET loops
  PROVE  MayFollow(p, prev, fewer)
BY DEF MayFollow

LEMMA AboveItself == ASSUME NEW p \in Seq(Strings) PROVE Above(p, p)
BY DEF Above, SameNames

LEMMA AboveTransitive ==
  ASSUME NEW p \in Seq(Strings), NEW q \in Seq(Strings), NEW r \in Seq(Strings),
         Above(p, q), Above(q, r)
  PROVE  Above(p, r)
BY DEF Above, SameNames

LEMMA ContinueInOrder ==
  ASSUME IInv, OrderInv, ppc = "run", todo # <<>>,
         NEW seq \in Seq(Instr), Continue(seq), UNCHANGED caller,
         ~ closed /\ fuse = "none" =>
           /\ \A k \in DOMAIN seq : seq[k].op \in DirectoryOps =>
                Head(todo).op \in DirectoryOps /\ seq[k].path = Head(todo).path
           /\ \A k \in DOMAIN seq : seq[k].op \in PathOps =>
                /\ MayFollow(seq[k].path, prevPath, Loops)
             /\ \A l \in 1 .. k - 1 : seq[l].op = "lit"
           /\ seq = <<>> \/ Head(todo).op # "lit"
  PROVE  OrderInv'
<1>1. TreeOrder' /\ (prevPath = LastPath)' /\ Proper(prevPath)'
  BY SameDelivered DEF caller
<1>2. StackInOrder'
  <2>. SUFFICES ASSUME ~ closed, fuse = "none" PROVE StackInOrder'
    BY DEF StackInOrder, caller
  <2>. DEFINE n == Len(seq)
              old(k) == IF k <= n THEN 1 ELSE k - n + 1
  <2>1. /\ todo \in Seq(Instr) /\ todo' = seq \o Tail(todo) /\ ppc' = "run"
        /\ prevPath' = prevPath /\ n \in Nat /\ Len(todo) \in Nat \ {0}
        /\ todo' \in Seq(Instr) /\ Head(todo) = todo[1] /\ DOMAIN seq = 1 .. n
    BY StackType DEF IInv, TypeOK, Continue, caller
  <2>2. ASSUME NEW k \in DOMAIN todo', k > n
        PROVE  k \in Nat /\ k - n + 1 \in DOMAIN todo /\ k - n + 1 # 1
               /\ todo'[k] = todo[k - n + 1]
    BY <2>1, <2>2
  <2>3. ASSUME NEW k \in DOMAIN todo', k <= n
        PROVE  k \in 1 .. n /\ todo'[k] = seq[k]
    BY <2>1, <2>3
  <2>4. ASSUME NEW k, Frame(k)'
        PROVE  /\ k \in Nat \ {0} /\ old(k) \in Nat \ {0}
               /\ Frame(old(k)) /\ todo[old(k)].path = todo'[k].path
    <3>1. k \in DOMAIN todo' /\ todo'[k].op \in DirectoryOps /\ k \in Nat \ {0}
      BY <2>1, <2>4 DEF Frame
    <3>2. CASE k <= n
      BY <2>1, <2>3, <3>1, <3>2 DEF Frame
    <3>3. CASE k > n
      <4>1. old(k) = k - n + 1
        BY <2>1, <3>1, <3>3
      <4>. QED  BY <2>1, <2>2, <3>1, <3>3, <4>1 DEF Frame
    <3>. QED  BY <2>1, <3>1, <3>2, <3>3
  <2>5. Loops' \subseteq Loops
    <3>. SUFFICES ASSUME NEW k \in DOMAIN todo', Frame(k)' PROVE todo'[k].path \in Loops
      BY DEF Loops
    <3>1. Frame(old(k)) /\ todo[old(k)].path = todo'[k].path
      BY <2>4
    <3>. HIDE DEF old
    <3>. QED  BY <3>1 DEF Loops, Frame
  <2>6. /\ \A d \in Loops : Above(d, prevPath)
        /\ \A k, l : Frame(k) /\ Frame(l) /\ k < l => Above(todo[l].path, todo[k].path)
        /\ \A k \in DOMAIN todo : todo[k].op \in PathOps =>
             /\ MayFollow(todo[k].path, prevPath, Loops)
             /\ \A l \in 1 .. k - 1 : todo[l].op = "lit"
    BY DEF OrderInv, StackInOrder
  <2>7. \A d \in Loops' : Above(d, prevPath)
    BY <2>5, <2>6
  <2>8. ASSUME NEW k, NEW l, Frame(k)', Frame(l)', k < l
        PROVE  Above(todo'[l].path, todo'[k].path)
    <3>1. /\ Frame(old(k)) /\ todo[old(k)].path = todo'[k].path
          /\ Frame(old(l)) /\ todo[old(l)].path = todo'[l].path
      BY <2>4, <2>8
    <3>2. old(k) = old(l) \/ old(k) < old(l)
      BY <2>1, <2>4, <2>8
    <3>3. todo[old(k)].path \in Seq(Strings)
      <4>. HIDE DEF old
      <4>1. todo[old(k)] \in Instr
        BY <2>1, <3>1 DEF Frame
      <4>. QED  BY <4>1 DEF Instr
    <3>. HIDE DEF old
    <3>. QED  BY <2>6, <3>1, <3>2, <3>3, AboveItself
  <2>9. ASSUME NEW k \in DOMAIN todo', todo'[k].op \in PathOps
        PROVE  /\ MayFollow(todo'[k].path, prevPath, Loops')
               /\ \A l \in 1 .. k - 1 : todo'[l].op = "lit"
    <3>1. k \in Nat \ {0} /\ \A l \in 1 .. k - 1 : l \in DOMAIN todo'
      BY <2>1
    <3>2. CASE k <= n
      <4>1. MayFollow(seq[k].path, prevPath, Loops) /\ \A l \in 1 .. k - 1 : seq[l].op = "lit"
        BY <2>1, <2>3, <2>9, <3>2
      <4>2. \A l \in 1 .. k - 1 : todo'[l] = seq[l]
        BY <2>1, <2>3, <3>1, <3>2
      <4>. QED  BY <2>3, <2>5, <3>2, <4>1, <4>2, FollowStays
    <3>3. CASE k > n
      <4>1. /\ k - n + 1 \in DOMAIN todo /\ k - n + 1 # 1 /\ todo'[k] = todo[k - n + 1]
        BY <2>2, <3>3
      <4>2. /\ MayFollow(todo[k - n + 1].path, prevPath, Loops)
            /\ \A l \in 1 .. k - n : todo[l].op = "lit"
        BY <2>1, <2>6, <2>9, <3>1, <4>1
      <4>3. n = 0
        <5>1. Head(todo).op = "lit"
          BY <2>1, <3>1, <3>3, <4>2
        <5>. QED  BY <2>1, <5>1
      <4>4. ASSUME NEW l \in 1 .. k - 1 PROVE todo'[l].op = "lit"
        <5>1. todo'[l] = todo[l + 1] /\ l + 1 \in 1 .. k - n
          BY <2>1, <2>2, <3>1, <4>3
        <5>. QED  BY <4>2, <5>1
      <4>. QED  BY <2>5, <4>1, <4>2, <4>4, FollowStays
    <3>. QED  BY <2>1, <3>1, <3>2, <3>3
  <2>. QED  BY <2>1, <2>7, <2>8, <2>9 DEF StackInOrder
<1>. QED  BY <1>1, <1>2 DEF OrderInv

\* What the innermost call may rely on.
LEMMA RunningOrder ==
  ASSUME IInv, OrderInv, NEW op, Running(op)
  PROVE  /\ ppc = "run" /\ todo # <<>> /\ Head(todo).op = op
         /\ Head(todo).path \in Seq(Strings) /\ Head(todo).tok \in Strings
         /\ Head(todo).exec \in BOOLEAN
         /\ ~ closed /\ fuse = "none" =>
              /\ op \in DirectoryOps => Above(Head(todo).path, prevPath)
              /\ op \in PathOps => MayFollow(Head(todo).path, prevPath, Loops)
<1>1. Head(todo).op = op /\ todo # <<>> /\ ppc = "run"
  BY DEF Running
<1>2. todo \in Seq(Instr) /\ prevPath \in Seq(Strings)
  BY DEF IInv, TypeOK
<1>3. 1 \in DOMAIN todo /\ Head(todo) = todo[1]
  BY <1>1, <1>2
<1>4. op \in DirectoryOps => Frame(1)
  BY <1>1, <1>3 DEF Frame
<1>5. op \in DirectoryOps => Head(todo).path \in Loops
  BY <1>3, <1>4 DEF Loops
<1>6. ~ closed /\ fuse = "none" =>
        /\ op \in DirectoryOps => Above(Head(todo).path, prevPath)
        /\ op \in PathOps => MayFollow(Head(todo).path, prevPath, Loops)
  BY <1>1, <1>3, <1>5 DEF OrderInv, StackInOrder
<1>. QED  BY <1>1, <1>6, RunningState

\* A call that returns, and one that goes on with a single instruction.
LEMMA ReturnInOrder ==
  ASSUME IInv, OrderInv, ppc = "run", todo # <<>>, Continue(<<>>), UNCHANGED caller
  PROVE  OrderInv'
<1>1. <<>> \in Seq(Instr) /\ DOMAIN <<>> = {}
  OBVIOUS
<1>. QED  BY <1>1, ContinueInOrder

LEMMA OneInOrder ==
  ASSUME IInv, OrderInv, ppc = "run", todo # <<>>,
         NEW a \in Instr, Continue(<<a>>), UNCHANGED caller, Head(todo).op # "lit",
         ~ closed /\ fuse = "none" =>
           /\ a.op \in DirectoryOps =>
                Head(todo).op \in DirectoryOps /\ a.path = Head(todo).path
           /\ a.op \in PathOps => MayFollow(a.path, prevPath, Loops)
  PROVE  OrderInv'
<1>. DEFINE seq == <<a>>
<1>1. seq \in Seq(Instr) /\ DOMAIN seq = {1} /\ seq[1] = a /\ Continue(seq)
  OBVIOUS
<1>. HIDE DEF seq
<1>2. \A k \in DOMAIN seq : seq[k] = a /\ \A l \in 1 .. k - 1 : seq[l].op = "lit"
  BY <1>1
<1>. QED  BY <1>1, <1>2, ContinueInOrder

\* One that goes on with an instruction behind a string or two.
LEMMA StringsInOrder ==
  ASSUME IInv, OrderInv, ppc = "run", todo # <<>>,
         NEW a \in Instr, NEW t \in Strings, NEW u \in Strings,
         Continue(<<Lit(t), a>>) \/ Continue(<<Lit(t), Lit(u), a>>),
         UNCHANGED caller, Head(todo).op # "lit",
         ~ closed /\ fuse = "none" =>
           /\ a.op \in DirectoryOps =>
                Head(todo).op \in DirectoryOps /\ a.path = Head(todo).path
           /\ a.op \in PathOps => MayFollow(a.path, prevPath, Loops)
  PROVE  OrderInv'
<1>. DEFINE one == <<Lit(t), a>>
            two == <<Lit(t), Lit(u), a>>
<1>1. /\ Lit(t).op = "lit" /\ Lit(t) \in Instr
      /\ Lit(u).op = "lit" /\ Lit(u) \in Instr
  BY DEF Lit, With, Instr, Ops
<1>2. /\ one \in Seq(Instr) /\ two \in Seq(Instr)
      /\ \A k \in DOMAIN one : k \in 1 .. 2 /\ (k = 1 => one[k] = Lit(t)) /\ (k = 2 => one[k] = a)
      /\ \A k \in DOMAIN two : /\ k \in 1 .. 3 /\ (k = 1 => two[k] = Lit(t))
                               /\ (k = 2 => two[k] = Lit(u)) /\ (k = 3 => two[k] = a)
      /\ DOMAIN one = 1 .. 2 /\ DOMAIN two = 1 .. 3
  <2>. HIDE DEF Lit
  <2>. QED  BY <1>1
<1>3. "lit" \notin DirectoryOps /\ "lit" \notin PathOps
  BY DEF DirectoryOps, PathOps
<1>. HIDE DEF one, two
<1>4. CASE Continue(one)
  <2>1. \A k \in DOMAIN one : one[k].op # "lit" => k = 2 /\ one[k] = a
    BY <1>1, <1>2
  <2>2. \A l \in 1 .. 2 - 1 : one[l].op = "lit"
    BY <1>1, <1>2
  <2>3. Head(todo).op # "lit"
    OBVIOUS
  <2>. QED  BY <1>2, <1>3, <1>4, <2>1, <2>2, <2>3, ContinueInOrder
<1>5. CASE Continue(two)
  <2>1. \A k \in DOMAIN two : two[k].op # "lit" => k = 3 /\ two[k] = a
    BY <1>1, <1>2
  <2>2. \A l \in 1 .. 3 - 1 : two[l].op = "lit"
    BY <1>1, <1>2
  <2>3. Head(todo).op # "lit"
    OBVIOUS
  <2>. QED  BY <1>2, <1>3, <1>5, <2>1, <2>2, <2>3, ContinueInOrder
<1>. QED  BY <1>4, <1>5 DEF one, two

\* A header of a node that may come next.
LEMMA OfferInOrder ==
  ASSUME IInv, OrderInv, ppc = "run", todo # <<>>,
         NEW h \in Header, NEW rest \in Instr, Offer(h, rest), UNCHANGED caller,
         Head(todo).op \in PathOps, h.path = Head(todo).path, rest.path = h.path,
         rest.op \notin PathOps, rest.op # "lit"
  PROVE  OrderInv'
<1>1. TreeOrder' /\ (prevPath = LastPath)' /\ Proper(prevPath)'
  BY SameDelivered DEF caller
<1>2. StackInOrder'
  <2>. SUFFICES ASSUME ~ closed, fuse = "none" PROVE StackInOrder'
    BY DEF StackInOrder, caller
  <2>1. /\ todo \in Seq(Instr) /\ Head(todo) = todo[1] /\ Len(todo) \in Nat \ {0}
        /\ todo' = <<rest>> \o Tail(todo) /\ ppc' = "offer" /\ msg'.hdr = h
        /\ prevPath' = prevPath
    BY DEF IInv, TypeOK, Offer, caller
  <2>2. /\ DOMAIN todo' = DOMAIN todo /\ todo'[1] = rest
        /\ \A k \in DOMAIN todo : k # 1 => todo'[k] = todo[k]
    BY <2>1
  <2>3. \A k : Frame(k)' => Frame(k) /\ todo'[k] = todo[k]
    BY <2>1, <2>2 DEF Frame
  <2>4. Loops' \subseteq Loops
    BY <2>2, <2>3 DEF Loops
  <2>5. MayFollow(h.path, prevPath, Loops)
    <3>1. 1 \in DOMAIN todo
      BY <2>1
    <3>. QED  BY <2>1, <3>1 DEF OrderInv, StackInOrder
  <2>6. ASSUME NEW k \in DOMAIN todo, k # 1 PROVE todo[k].op \notin PathOps
    <3>1. todo[k].op \in PathOps => \A l \in 1 .. k - 1 : todo[l].op = "lit"
      BY DEF OrderInv, StackInOrder
    <3>2. 1 \in 1 .. k - 1
      BY <2>1, <2>6
    <3>3. todo[1].op # "lit"
      BY <2>1 DEF PathOps
    <3>. QED  BY <3>1, <3>2, <3>3
  <2>7. \A k \in DOMAIN todo' : todo'[k].op \notin PathOps
    BY <2>2, <2>6
  <2>8. \A d \in Loops' : Above(d, prevPath)
    BY <2>4 DEF OrderInv, StackInOrder
  <2>9. \A k, l : Frame(k)' /\ Frame(l)' /\ k < l => Above(todo'[l].path, todo'[k].path)
    BY <2>3 DEF OrderInv, StackInOrder
  <2>10. MayFollow(h.path, prevPath, Loops')
    BY <2>4, <2>5, FollowStays
  <2>. QED  BY <2>1, <2>2, <2>7, <2>8, <2>9, <2>10 DEF StackInOrder
<1>. QED  BY <1>1, <1>2 DEF OrderInv

LEMMA ProperAbove ==
  ASSUME NEW p \in Seq(Strings), NEW q \in Seq(Strings), Proper(q), Above(p, q)
  PROVE  Proper(p)
BY DEF Proper, Above, SameNames

\* The path of an entry of the innermost directory, whatever its name.
LEMMA JoinFollows ==
  ASSUME NEW p \in Seq(Strings), NEW prev \in Seq(Strings), NEW loops,
         NEW n \in Strings, IsValidNodeName(n), Proper(prev), Above(p, prev),
         \A d \in loops : d \in Seq(Strings) /\ Above(d, p)
  PROVE  MayFollow(Join(p, n), prev, loops)
<1>. DEFINE front == SubSeq(p, 1, Len(p) - 1)
<1>1. Len(p) \in Nat /\ Len(prev) \in Nat /\ Proper(p)
  BY ProperAbove
<1>2. CASE Join(p, n) = p
  BY <1>1, <1>2 DEF MayFollow, Above, SameNames
<1>3. CASE p # <<>> /\ Join(p, n) = front
  <2>1. /\ front \in Seq(Strings) /\ Len(front) = Len(p) - 1
        /\ \A i \in 1 .. Len(front) : front[i] = p[i]
    <3>1. Len(p) \in Nat \ {0}
      BY <1>3
    <3>2. Len(p) - 1 \in 0 .. Len(p)
      BY <3>1
    <3>3. Len(front) = Len(p) - 1
      <4>1. \A m \in Nat : Len(SubSeq(p, 1, m)) = m
        OBVIOUS
      <4>2. Len(p) - 1 \in Nat
        BY <3>1
      <4>. QED  BY <4>1, <4>2, Zenon
    <3>4. \A i \in 1 .. Len(p) - 1 : front[i] = p[i]
      BY <3>2
    <3>5. front \in Seq(Strings)
      BY <3>2
    <3>. HIDE DEF front
    <3>. QED  BY <3>3, <3>4, <3>5
  <2>. HIDE DEF front
  <2>2. Above(front, p) /\ Above(front, prev)
    <3>1. Above(front, p)
      BY <1>1, <2>1 DEF Above, SameNames
    <3>. QED  BY <2>1, <3>1, AboveTransitive
  <2>3. Proper(front)
    BY <2>1, <2>2, ProperAbove
  <2>4. front # <<>> => Len(front) - 1 <= Len(prev) /\ SameNames(prev, front, Len(front) - 1)
    BY <1>1, <2>1, <2>2 DEF Above, SameNames
  <2>. QED  BY <1>3, <2>2, <2>3, <2>4 DEF MayFollow
<1>4. CASE Bytes[n] # <<>> /\ Join(p, n) = Append(p, n)
  <2>. DEFINE q == Append(p, n)
  <2>1. /\ q \in Seq(Strings) /\ Len(q) = Len(p) + 1 /\ q[Len(p) + 1] = n
        /\ \A i \in 1 .. Len(p) : q[i] = p[i]
    OBVIOUS
  <2>. HIDE DEF q
  <2>2. SlashFree(Bytes[n])
    BY DEF IsValidNodeName, SlashFree
  <2>3. Proper(q)
    <3>. SUFFICES ASSUME NEW i \in 1 .. Len(q)
                  PROVE  Bytes[q[i]] # <<>> /\ SlashFree(Bytes[q[i]])
      BY DEF Proper
    <3>1. i \in 1 .. Len(p) \/ i = Len(p) + 1
      BY <1>1, <2>1
    <3>. QED  BY <1>1, <1>4, <2>1, <2>2, <3>1 DEF Proper
  <2>4. SameNames(prev, q, Len(p)) /\ Len(p) <= Len(prev)
    BY <1>1, <2>1 DEF Above, SameNames
  <2>5. ASSUME NEW d \in loops PROVE Above(d, q)
    <3>1. d \in Seq(Strings) /\ Above(d, p) /\ Above(p, q)
      BY <1>1, <2>1 DEF Above, SameNames
    <3>. QED  BY <2>1, <3>1, AboveTransitive
  <2>6. Len(q) - 1 = Len(p)
    BY <1>1, <2>1
  <2>. QED  BY <1>4, <2>3, <2>4, <2>5, <2>6 DEF MayFollow, q
<1>. QED  BY <1>2, <1>3, <1>4 DEF Join

\* All loops are of directories that lead to the innermost.
LEMMA LoopsAbove ==
  ASSUME IInv, OrderInv, NEW op \in DirectoryOps, Running(op), ~ closed, fuse = "none"
  PROVE  \A d \in Loops : d \in Seq(Strings) /\ Above(d, Head(todo).path)
<1>1. todo \in Seq(Instr) /\ ppc = "run" /\ todo # <<>> /\ Head(todo).op = op
      /\ Head(todo).path \in Seq(Strings)
  BY RunningOrder DEF IInv, TypeOK
<1>2. 1 \in DOMAIN todo /\ Head(todo) = todo[1]
  BY <1>1
<1>3. Frame(1)
  BY <1>1, <1>2 DEF Frame
<1>. SUFFICES ASSUME NEW k \in DOMAIN todo, Frame(k)
              PROVE  todo[k].path \in Seq(Strings) /\ Above(todo[k].path, todo[1].path)
  BY <1>2 DEF Loops
<1>4. todo[k].path \in Seq(Strings)
  <2>1. todo[k] \in Instr
    BY <1>1
  <2>. QED  BY <2>1 DEF Instr
<1>5. CASE k = 1
  BY <1>4, <1>5, AboveItself
<1>6. CASE k # 1
  <2>1. 1 < k
    BY <1>1, <1>6
  <2>. QED  BY <1>3, <1>4, <2>1 DEF OrderInv, StackInOrder
<1>. QED  BY <1>5, <1>6
-----------------------------------------------------------------------------
\* The steps of the parser.

LEMMA ParseNodeOrder == ASSUME IInv, OrderInv, ParseNode PROVE OrderInv'
<1>. DEFINE a == Do("label", Head(todo).path)
<1>1. Running("node") /\ Continue(<<Lit("("), Lit("type"), a>>) /\ UNCHANGED caller
  BY DEF ParseNode
<1>2. a \in Instr /\ a.op = "label" /\ a.path = Head(todo).path
  BY <1>1, RunningOrder, Keywords DEF Do, With, Instr, Ops
<1>3. /\ "node" \in PathOps /\ "label" \notin DirectoryOps
      /\ "(" \in Strings /\ "type" \in Strings
  BY Keywords DEF PathOps, DirectoryOps
<1>. HIDE DEF a
<1>4. /\ ppc = "run" /\ todo # <<>> /\ Head(todo).op # "lit"
      /\ ~ closed /\ fuse = "none" =>
           /\ a.op \in DirectoryOps =>
                Head(todo).op \in DirectoryOps /\ a.path = Head(todo).path
           /\ a.op \in PathOps => MayFollow(a.path, prevPath, Loops)
  BY <1>1, <1>2, <1>3, RunningOrder
<1>. QED  BY <1>1, <1>2, <1>3, <1>4, StringsInOrder

LEMMA ExpectStringOrder == ASSUME IInv, OrderInv, ExpectString PROVE OrderInv'
<1>1. Running("lit") /\ UNCHANGED caller /\ (Continue(<<>>) \/ Fail("error"))
  BY DEF ExpectString
<1>. QED  BY <1>1, RunningOrder, ReturnInOrder, FailInOrder

LEMMA LabelOrder == ASSUME IInv, OrderInv, Label PROVE OrderInv'
<1>. DEFINE p == Head(todo).path
            h == [NoHeader EXCEPT !.path = p]
            regular == Do("regular", p)
            target == Do("target", p)
            entries == Do("entries", p)
<1>1. Running("label") /\ UNCHANGED caller
  BY DEF Label
<1>2. \/ Continue(<<regular>>)
      \/ Continue(<<Lit("target"), target>>)
      \/ Offer(h, entries)
      \/ Continue(<<>>)
      \/ \E e : Fail(e)
  BY DEF Label
<1>3. /\ regular \in Instr /\ regular.op = "regular" /\ regular.path = p
      /\ target \in Instr /\ target.op = "target" /\ target.path = p
      /\ entries \in Instr /\ entries.op = "entries" /\ entries.path = p
  BY <1>1, RunningOrder, Keywords DEF Do, With, Instr, Ops
<1>4. /\ "label" \in PathOps /\ "regular" \notin DirectoryOps /\ "target" \notin DirectoryOps
      /\ "entries" \notin PathOps
  BY DEF PathOps, DirectoryOps
<1>5. h \in Header /\ h.path = p
  BY <1>1, RunningOrder DEF NoHeader, Header, Types
<1>. HIDE DEF h, regular, target, entries
<1>6. CASE Continue(<<regular>>)
  BY <1>1, <1>3, <1>4, <1>6, RunningOrder, OneInOrder
<1>7. CASE Continue(<<Lit("target"), target>>)
  <2>1. /\ ppc = "run" /\ todo # <<>> /\ Head(todo).op # "lit"
        /\ ~ closed /\ fuse = "none" =>
             /\ target.op \in DirectoryOps =>
                  Head(todo).op \in DirectoryOps /\ target.path = Head(todo).path
             /\ target.op \in PathOps => MayFollow(target.path, prevPath, Loops)
    BY <1>1, <1>3, <1>4, RunningOrder
  <2>2. "target" \in Strings
    BY Keywords
  <2>. QED  BY <1>1, <1>3, <1>7, <2>1, <2>2, StringsInOrder
<1>8. CASE Offer(h, entries)
  BY <1>1, <1>3, <1>4, <1>5, <1>8, RunningOrder, OfferInOrder
<1>9. CASE Continue(<<>>)
  BY <1>1, <1>9, RunningOrder, ReturnInOrder
<1>10. CASE \E e : Fail(e)
  BY <1>1, <1>10, FailInOrder
<1>. QED  BY <1>2, <1>6, <1>7, <1>8, <1>9, <1>10

LEMMA RegularTokenOrder == ASSUME IInv, OrderInv, RegularToken PROVE OrderInv'
<1>. DEFINE i == Head(todo)
            contents == With("contents", i.path, EmptyString, i.exec)
            again == With("regular", i.path, EmptyString, TRUE)
<1>1. Running("regular") /\ UNCHANGED caller
  BY DEF RegularToken
<1>2. Continue(<<contents>>) \/ Continue(<<Lit(EmptyString), again>>) \/ \E e : Fail(e)
  BY DEF RegularToken
<1>3. /\ contents \in Instr /\ contents.op = "contents" /\ contents.path = i.path
      /\ again \in Instr /\ again.op = "regular" /\ again.path = i.path
  BY <1>1, RunningOrder, Keywords DEF With, Instr, Ops
<1>4. "regular" \in PathOps /\ "regular" \notin DirectoryOps /\ "contents" \notin DirectoryOps
  BY DEF PathOps, DirectoryOps
<1>. HIDE DEF contents, again
<1>5. CASE Continue(<<contents>>)
  BY <1>1, <1>3, <1>4, <1>5, RunningOrder, OneInOrder
<1>6. CASE Continue(<<Lit(EmptyString), again>>)
  BY <1>1, <1>3, <1>4, <1>6, RunningOrder, Keywords, StringsInOrder
<1>. QED  BY <1>1, <1>2, <1>5, <1>6, FailInOrder

LEMMA ContentsOrder == ASSUME IInv, OrderInv, Contents PROVE OrderInv'
<1>. DEFINE i == Head(todo)
            h == [path |-> i.path, type |-> "regular", size |-> stream[pos].size,
                  exec |-> i.exec]
            seek == Do("seek", i.path)
<1>1. Running("contents") /\ UNCHANGED caller
  BY DEF Contents
<1>2. CASE Fail("EOF") \/ Fail("error")
  BY <1>1, <1>2, FailInOrder
<1>3. CASE ~ (pos > Len(stream)) /\ Offer(h, seek)
  <2>1. stream[pos].size \in Nat
    <3>1. stream[pos] \in Packet
      BY <1>3 DEF IInv, TypeOK
    <3>. QED  BY <3>1 DEF Packet
  <2>2. /\ h \in Header /\ h.path = i.path
        /\ seek \in Instr /\ seek.op = "seek" /\ seek.path = i.path
    BY <1>1, <2>1, RunningOrder, Keywords DEF Header, Types, Do, With, Instr, Ops
  <2>3. "contents" \in PathOps /\ "seek" \notin PathOps
    BY DEF PathOps
  <2>. HIDE DEF h, seek
  <2>. QED  BY <1>1, <1>3, <2>2, <2>3, RunningOrder, OfferInOrder
<1>. QED  BY <1>2, <1>3, Zenon DEF Contents

LEMMA SeekOrder == ASSUME IInv, OrderInv, Seek PROVE OrderInv'
<1>. DEFINE a == Do("end", Head(todo).path)
<1>1. Running("seek") /\ UNCHANGED caller /\ (Continue(<<a>>) \/ \E e : Fail(e))
  BY DEF Seek
<1>2. a \in Instr /\ a.op = "end"
  BY <1>1, RunningOrder, Keywords DEF Do, With, Instr, Ops
<1>3. "end" \notin PathOps /\ "end" \notin DirectoryOps
  BY DEF PathOps, DirectoryOps
<1>. HIDE DEF a
<1>. QED  BY <1>1, <1>2, <1>3, RunningOrder, OneInOrder, FailInOrder

LEMMA TargetOrder == ASSUME IInv, OrderInv, Target PROVE OrderInv'
<1>. DEFINE p == Head(todo).path
            h == [NoHeader EXCEPT !.path = p, !.type = "symlink"]
            end == Do("end", p)
<1>1. Running("target") /\ UNCHANGED caller /\ (Offer(h, end) \/ \E e : Fail(e))
  BY DEF Target
<1>2. h \in Header /\ h.path = p /\ end \in Instr /\ end.op = "end" /\ end.path = p
  BY <1>1, RunningOrder, Keywords DEF NoHeader, Header, Types, Do, With, Instr, Ops
<1>3. "target" \in PathOps /\ "end" \notin PathOps
  BY DEF PathOps
<1>. HIDE DEF h, end
<1>. QED  BY <1>1, <1>2, <1>3, RunningOrder, OfferInOrder, FailInOrder

LEMMA EndNodeOrder == ASSUME IInv, OrderInv, EndNode PROVE OrderInv'
<1>1. Running("end") /\ UNCHANGED caller /\ (Continue(<<>>) \/ \E e : Fail(e))
  BY DEF EndNode
<1>. QED  BY <1>1, RunningOrder, ReturnInOrder, FailInOrder

LEMMA EntriesOrder == ASSUME IInv, OrderInv, Entries PROVE OrderInv'
<1>. DEFINE p == Head(todo).path
            name == Do("name", p)
            entries == Do("entries", p)
<1>1. Running("entries") /\ UNCHANGED caller
  BY DEF Entries
<1>2. \/ Continue(<<Lit("("), Lit("name"), name>>)
      \/ Continue(<<>>) \/ Continue(<<entries>>) \/ \E e : Fail(e)
  BY DEF Entries
<1>3. /\ name \in Instr /\ name.op = "name" /\ name.path = p
      /\ entries \in Instr /\ entries.op = "entries" /\ entries.path = p
  BY <1>1, RunningOrder, Keywords DEF Do, With, Instr, Ops
<1>4. /\ "entries" \in DirectoryOps /\ "name" \notin PathOps /\ "entries" \notin PathOps
  BY DEF PathOps, DirectoryOps
<1>. HIDE DEF name, entries
<1>5. CASE Continue(<<Lit("("), Lit("name"), name>>)
  BY <1>1, <1>3, <1>4, <1>5, RunningOrder, Keywords, StringsInOrder
<1>6. CASE Continue(<<entries>>)
  BY <1>1, <1>3, <1>4, <1>6, RunningOrder, OneInOrder
<1>. QED  BY <1>1, <1>2, <1>5, <1>6, RunningOrder, ReturnInOrder, FailInOrder

LEMMA EntryNameOrder == ASSUME IInv, OrderInv, EntryName PROVE OrderInv'
<1>. DEFINE p == Head(todo).path
            node(n) == Do("node", Join(p, n))
            last(n) == With("entryEnd", p, n, FALSE)
            seq(n) == <<Lit("node"), node(n), Lit(")"), last(n)>>
<1>1. Running("name") /\ UNCHANGED caller
  BY DEF EntryName
<1>2. (\E n \in Strings : IsValidNodeName(n) /\ Continue(seq(n))) \/ \E e : Fail(e)
  <2>1. TypeOK
    BY DEF IInv
  <2>2. PICK o \in ReadString(nameLenMax) :
          (IsValidNodeName(o.tok) /\ Continue(seq(o.tok))) \/ \E e : Fail(e)
    BY DEF EntryName
  <2>3. o.tok \in Strings
    BY <2>1, ReadStringType
  <2>. QED  BY <2>2, <2>3
<1>3. ASSUME NEW n \in Strings, IsValidNodeName(n), Continue(seq(n)) PROVE OrderInv'
  <2>1. /\ p \in Seq(Strings) /\ Join(p, n) \in Seq(Strings) /\ prevPath \in Seq(Strings)
        /\ Head(todo).op = "name"
    BY <1>1, RunningOrder, JoinType DEF IInv, TypeOK
  <2>2. /\ node(n) \in Instr /\ node(n).op = "node" /\ node(n).path = Join(p, n)
        /\ last(n) \in Instr /\ last(n).op = "entryEnd" /\ last(n).path = p
        /\ Lit("node") \in Instr /\ Lit("node").op = "lit"
        /\ Lit(")") \in Instr /\ Lit(")").op = "lit"
    BY <2>1, Keywords DEF Lit, Do, With, Instr, Ops
  <2>3. /\ "name" \in DirectoryOps /\ "entryEnd" \notin PathOps
        /\ "node" \notin DirectoryOps /\ "lit" \notin DirectoryOps /\ "lit" \notin PathOps
    BY DEF PathOps, DirectoryOps
  <2>4. ASSUME ~ closed, fuse = "none" PROVE MayFollow(Join(p, n), prevPath, Loops)
    <3>1. Above(p, prevPath)
      BY <1>1, <2>3, <2>4, RunningOrder
    <3>2. \A d \in Loops : d \in Seq(Strings) /\ Above(d, p)
      BY <1>1, <2>3, <2>4, LoopsAbove
    <3>. QED  BY <1>3, <2>1, <3>1, <3>2, JoinFollows DEF OrderInv
  <2>. HIDE DEF node, last
  <2>5. /\ seq(n) \in Seq(Instr) /\ DOMAIN seq(n) = 1 .. 4
        /\ \A k \in 1 .. 4 : /\ k = 1 => seq(n)[k] = Lit("node")
                             /\ k = 2 => seq(n)[k] = node(n)
                             /\ k = 3 => seq(n)[k] = Lit(")")
                             /\ k = 4 => seq(n)[k] = last(n)
    BY <2>2
  <2>. HIDE DEF seq
  <2>6. \A k \in DOMAIN seq(n) : seq(n)[k].op \in DirectoryOps =>
          Head(todo).op \in DirectoryOps /\ seq(n)[k].path = Head(todo).path
    BY <2>1, <2>2, <2>3, <2>5
  <2>7. \A k \in DOMAIN seq(n) : seq(n)[k].op \in PathOps =>
          k = 2 /\ seq(n)[k].path = Join(p, n) /\ \A l \in 1 .. k - 1 : seq(n)[l].op = "lit"
    BY <2>2, <2>3, <2>5
  <2>. QED  BY <1>1, <1>3, <2>1, <2>4, <2>5, <2>6, <2>7, RunningOrder, ContinueInOrder
<1>. QED  BY <1>1, <1>2, <1>3, FailInOrder

LEMMA EntryEndOrder == ASSUME IInv, OrderInv, EntryEnd PROVE OrderInv'
<1>. DEFINE entries == Do("entries", Head(todo).path)
<1>1. Running("entryEnd") /\ UNCHANGED caller
      /\ (Continue(<<>>) \/ Continue(<<entries>>))
  BY DEF EntryEnd
<1>2. entries \in Instr /\ entries.op = "entries" /\ entries.path = Head(todo).path
  BY <1>1, RunningOrder, Keywords DEF Do, With, Instr, Ops
<1>3. "entryEnd" \in DirectoryOps /\ "entries" \notin PathOps
  BY DEF PathOps, DirectoryOps
<1>. HIDE DEF entries
<1>. QED  BY <1>1, <1>2, <1>3, RunningOrder, ReturnInOrder, OneInOrder

LEMMA StoppedOrder == ASSUME OrderInv, StoppedByClose PROVE OrderInv'
<1>1. TreeOrder' /\ (prevPath = LastPath)' /\ Proper(prevPath)'
  BY SameDelivered DEF StoppedByClose, caller
<1>. QED  BY <1>1 DEF OrderInv, StackInOrder, StoppedByClose, caller

LEMMA FinishOrder == ASSUME OrderInv, Finish PROVE OrderInv'
BY FailInOrder DEF Finish

-----------------------------------------------------------------------------
\* The walk starts at the root, which may follow the empty path.
LEMMA StartOrder == ASSUME IInv, OrderInv, Start PROVE OrderInv'
<1>. DEFINE a == Do("node", <<>>)
<1>1. TreeOrder' /\ (prevPath = LastPath)' /\ Proper(prevPath)'
  BY SameDelivered DEF Start
<1>2. CASE closed
  BY <1>1, <1>2 DEF OrderInv, StackInOrder, Start
<1>3. CASE todo' = <<a>> /\ ppc' = "run" /\ UNCHANGED <<closed, fuse, prevPath>>
  <2>1. a.op = "node" /\ a.path = <<>> /\ "node" \notin DirectoryOps
    BY DEF Do, With, DirectoryOps
  <2>. HIDE DEF a
  <2>2. DOMAIN todo' = {1} /\ todo'[1] = a
    BY <1>3
  <2>3. \A k : ~ Frame(k)'
    BY <2>1, <2>2 DEF Frame
  <2>4. Loops' = {}
    BY <2>3 DEF Loops
  <2>5. MayFollow(<<>>, prevPath, {})
    BY DEF MayFollow, Proper
  <2>6. \A l \in 1 .. 1 - 1 : FALSE
    OBVIOUS
  <2>7. \A k \in DOMAIN todo' : MayFollow(todo'[k].path, prevPath', Loops')
                                /\ \A l \in 1 .. k - 1 : todo'[l].op = "lit"
    BY <1>3, <2>1, <2>2, <2>4, <2>5, <2>6
  <2>8. StackInOrder'
    BY <1>3, <2>3, <2>4, <2>7 DEF StackInOrder
  <2>. QED  BY <1>1, <2>8 DEF OrderInv
<1>. QED  BY <1>2, <1>3 DEF Start

\* A header that Next takes over is not smaller, in the tree, than the last.
LEMMA AcceptedIsNext ==
  ASSUME NEW p \in Seq(Strings), NEW prev \in Seq(Strings), Proper(prev), NEW loops,
         MayFollow(p, prev, loops),
         PathIsLexicographicallyOrdered(PathString(prev), PathString(p))
  PROVE  /\ TreeLeq(prev, p)
         /\ \A d \in loops : d \in Seq(Strings) /\ Above(d, prev) => Above(d, p)
<1>1. Len(p) \in Nat /\ Len(prev) \in Nat /\ Proper(p)
  BY DEF MayFollow
<1>2. CASE Above(p, prev)
  <2>1. Len(prev) = Len(p)
    <3>1. ASSUME Len(p) < Len(prev) PROVE FALSE
      <4>1. SameNames(prev, p, Len(p))
        BY <1>2 DEF Above, SameNames
      <4>. QED  BY <3>1, <4>1, NoWayBack
    <3>. QED  BY <1>1, <1>2, <3>1 DEF Above
  <2>2. Parts(prev, p, Len(p))
    BY <1>1, <1>2, <2>1 DEF Above, Parts, SameNames
  <2>3. \A d \in loops : d \in Seq(Strings) /\ Above(d, prev) => Above(d, p)
    BY <1>1, <1>2, <2>1 DEF Above, SameNames
  <2>. QED  BY <1>1, <2>2, <2>3 DEF TreeLeq
<1>3. CASE ~ Above(p, prev)
  <2>1. p # <<>>
    BY <1>1, <1>3 DEF Above, SameNames
  <2>2. /\ Len(p) \in Nat \ {0} /\ Len(p) - 1 <= Len(prev)
        /\ SameNames(prev, p, Len(p) - 1) /\ \A d \in loops : Above(d, p)
    BY <1>3, <2>1 DEF MayFollow
  <2>3. Len(p) - 1 \in Nat /\ Len(p) = (Len(p) - 1) + 1
    BY <2>2
  <2>4. TreeLeq(prev, p)
    BY <1>1, <2>2, <2>3, EntryOrder
  <2>. QED  BY <2>2, <2>4
<1>. QED  BY <1>2, <1>3

\* Next compares neighbours only; the order of the tree is transitive.
LEMMA TakeHeaderOrder == ASSUME IInv, OrderInv, CallIsOpen, TakeHeader PROVE OrderInv'
<1>. DEFINE p == msg.hdr.path
<1>1. /\ ~ closed /\ fuse = "none" /\ ppc = "offer" /\ ppc' = "await"
      /\ todo' = todo /\ closed' = closed
  BY DEF IInv, CallHasNoFuse, CallIsOpen, TakeHeader
<1>2. CASE fuse' = "order" /\ UNCHANGED <<prevPath, delivered>>
  <2>1. TreeOrder' /\ (prevPath = LastPath)' /\ Proper(prevPath)'
    BY <1>2, SameDelivered
  <2>. QED  BY <1>2, <2>1 DEF OrderInv, StackInOrder
<1>3. CASE /\ PathIsLexicographicallyOrdered(PathString(prevPath), PathString(p))
           /\ prevPath' = p /\ delivered' = Append(delivered, msg.hdr) /\ fuse' = fuse
  <2>1. /\ delivered \in Seq(Header) /\ msg.hdr \in Header /\ p \in Seq(Strings)
        /\ prevPath \in Seq(Strings) /\ todo \in Seq(Instr)
        /\ \A i \in DOMAIN delivered : delivered[i].path \in Seq(Strings)
    <3>1. delivered \in Seq(Header) /\ msg.hdr \in Header /\ prevPath \in Seq(Strings)
          /\ todo \in Seq(Instr)
      BY DEF IInv, TypeOK
    <3>2. \A h \in Header : h.path \in Seq(Strings)
      BY DEF Header
    <3>3. \A i \in DOMAIN delivered : delivered[i] \in Header
      BY <3>1
    <3>. QED  BY <3>1, <3>2, <3>3
  <2>2. /\ MayFollow(p, prevPath, Loops) /\ todo[1].path = p
        /\ todo[1].op \notin PathOps /\ todo[1].op # "lit"
        /\ \A d \in Loops : Above(d, prevPath)
        /\ \A k, l : Frame(k) /\ Frame(l) /\ k < l => Above(todo[l].path, todo[k].path)
        /\ \A k \in DOMAIN todo : todo[k].op \in PathOps =>
             \A l \in 1 .. k - 1 : todo[l].op = "lit"
    BY <1>1 DEF OrderInv, StackInOrder
  <2>3. /\ TreeLeq(prevPath, p)
        /\ \A d \in Loops : d \in Seq(Strings) /\ Above(d, prevPath) => Above(d, p)
    BY <1>3, <2>1, <2>2, AcceptedIsNext DEF OrderInv
  <2>4. \A d \in Loops : d \in Seq(Strings)
    <3>1. \A i \in Instr : i.path \in Seq(Strings)
      BY DEF Instr
    <3>2. \A k \in DOMAIN todo : todo[k] \in Instr
      BY <2>1
    <3>. QED  BY <3>1, <3>2 DEF Loops
  <2>5. \A d \in Loops : Above(d, p)
    BY <2>2, <2>3, <2>4
  <2>6. \A k : Frame(k)' => k \in DOMAIN todo /\ todo'[k] = todo[k] /\ (k = 1 \/ Frame(k))
    BY <1>1 DEF Frame
  <2>7. \A k : Frame(k) => todo[k].path \in Loops
    BY DEF Loops, Frame
  <2>8. \A k : Frame(k)' => Above(todo'[k].path, p)
    BY <2>1, <2>2, <2>5, <2>6, <2>7, AboveItself
  <2>9. \A d \in Loops' : Above(d, prevPath')
    BY <1>3, <2>8 DEF Loops
  <2>10. ASSUME NEW k, NEW l, Frame(k)', Frame(l)', k < l
         PROVE  Above(todo'[l].path, todo'[k].path)
    <3>1. l # 1
      <4>1. k \in Nat \ {0} /\ l \in Nat \ {0}
        BY <2>1, <2>6, <2>10
      <4>. QED  BY <2>10, <4>1
    <3>2. Frame(l) /\ todo'[l] = todo[l]
      BY <2>6, <2>10, <3>1
    <3>3. CASE k = 1
      BY <1>1, <2>2, <2>8, <2>10, <3>3
    <3>4. CASE k # 1
      BY <2>2, <2>6, <2>10, <3>2, <3>4
    <3>. QED  BY <3>3, <3>4
  <2>11. ASSUME NEW k \in DOMAIN todo PROVE todo[k].op \notin PathOps
    <3>1. CASE k = 1
      BY <2>2, <3>1
    <3>2. CASE k # 1
      <4>1. 1 \in 1 .. k - 1
        BY <2>1, <3>2
      <4>. QED  BY <2>2, <4>1
    <3>. QED  BY <3>1, <3>2
  <2>12. StackInOrder'
    BY <1>1, <2>9, <2>10, <2>11 DEF StackInOrder
  <2>13. Proper(prevPath)' /\ (prevPath = LastPath)'
    <3>1. Proper(p)
      BY <2>2 DEF MayFollow
    <3>2. delivered' # <<>> /\ delivered'[Len(delivered')] = msg.hdr
      BY <1>3, <2>1
    <3>. QED  BY <1>3, <3>1, <3>2 DEF LastPath, Proper
  <2>14. ASSUME NEW i \in DOMAIN delivered PROVE TreeLeq(delivered[i].path, prevPath)
    <3>1. Len(delivered) \in Nat \ {0} /\ prevPath = delivered[Len(delivered)].path
      BY <2>1 DEF OrderInv, LastPath
    <3>2. CASE i = Len(delivered)
      BY <2>1, <3>1, <3>2, TreeReflexive
    <3>3. CASE i # Len(delivered)
      <4>1. Len(delivered) \in DOMAIN delivered /\ i \in 1 .. Len(delivered) - 1
        BY <2>1, <3>1, <3>3
      <4>. QED  BY <3>1, <4>1 DEF OrderInv, TreeOrder
    <3>. QED  BY <3>2, <3>3
  <2>15. TreeOrder'
    <3>. SUFFICES ASSUME NEW j \in DOMAIN delivered', NEW i \in 1 .. j - 1
                  PROVE  TreeLeq(delivered'[i].path, delivered'[j].path)
      BY DEF TreeOrder
    <3>1. i \in DOMAIN delivered /\ delivered'[i] = delivered[i]
      BY <1>3, <2>1
    <3>2. CASE j \in DOMAIN delivered
      <4>1. delivered'[j] = delivered[j]
        BY <1>3, <2>1, <3>2
      <4>. QED  BY <3>1, <3>2, <4>1 DEF OrderInv, TreeOrder
    <3>3. CASE j \notin DOMAIN delivered
      <4>1. delivered'[j] = msg.hdr
        BY <1>3, <2>1, <3>3
      <4>2. TreeLeq(delivered[i].path, prevPath)
        BY <2>14, <3>1
      <4>. QED  BY <2>1, <2>3, <3>1, <4>1, <4>2, TreeTransitive
    <3>. QED  BY <3>2, <3>3
  <2>. QED  BY <2>12, <2>13, <2>15 DEF OrderInv
<1>. QED  BY <1>2, <1>3 DEF TakeHeader

\* The other steps of the caller leave the stack and the headers alone.
LEMMA CallerOrder ==
  ASSUME IInv, OrderInv, CallNext \/ Resume \/ TakeError \/ Read \/ Close \/ UNCHANGED vars
  PROVE  OrderInv'
<1>1. /\ delivered' = delivered /\ prevPath' = prevPath /\ todo' = todo /\ msg' = msg
      /\ ppc' = "offer" <=> ppc = "offer"
      /\ ~ closed' => ~ closed
      /\ fuse' = "none" => fuse = "none"
  BY DEF IInv, TypeOK, FailHasError, CallNext, Resume, TakeError,
         Read, Close, vars, parser, caller
<1>2. TreeOrder' /\ (prevPath = LastPath)' /\ Proper(prevPath)'
  BY <1>1, SameDelivered
<1>3. \A k : Frame(k)' <=> Frame(k)
  BY <1>1 DEF Frame
<1>4. Loops' = Loops
  BY <1>1, <1>3 DEF Loops
<1>5. StackInOrder'
  BY <1>1, <1>3, <1>4 DEF OrderInv, StackInOrder
<1>. QED  BY <1>2, <1>5 DEF OrderInv

LEMMA OrderNext == IInv /\ PlaceInv /\ OrderInv /\ [Next]_vars => OrderInv'
<1>. SUFFICES ASSUME IInv, PlaceInv, OrderInv, [Next]_vars PROVE OrderInv'
  OBVIOUS
<1>1. CASE ParserAlone
  BY <1>1, ParseNodeOrder, ExpectStringOrder, LabelOrder, RegularTokenOrder, ContentsOrder,
     SeekOrder, TargetOrder, EndNodeOrder, EntriesOrder, EntryNameOrder, EntryEndOrder,
     FinishOrder, StoppedOrder DEF ParserAlone
<1>2. CASE Start
  BY <1>2, StartOrder
<1>3. CASE TakeHeader
  BY <1>3, TakeHeaderOrder DEF PlaceInv
<1>4. CASE CallNext \/ Resume \/ TakeError \/ Read \/ Close \/ UNCHANGED vars
  BY <1>4, CallerOrder
<1>. QED  BY <1>1, <1>2, <1>3, <1>4 DEF Next, Library

LEMMA OrderInit == Init => OrderInv
<1>. SUFFICES ASSUME Init PROVE OrderInv
  OBVIOUS
<1>1. delivered = <<>> /\ prevPath = <<>> /\ todo = <<>> /\ ppc = "start"
      /\ DOMAIN <<>> = {}
  BY DEF Init
<1>2. TreeOrder /\ prevPath = LastPath /\ Proper(prevPath)
  BY <1>1 DEF TreeOrder, LastPath, Proper
<1>3. (\A k : ~ Frame(k)) /\ Loops = {}
  BY <1>1 DEF Frame, Loops
<1>. QED  BY <1>1, <1>2, <1>3 DEF OrderInv, StackInOrder

\* On any archive, Next returns headers in the order of the tree: a directory
\* before all that is below it, and that before the next sibling.
THEOREM HeadersInTreeOrder == Spec => []TreeOrder
<1>1. IInv /\ PlaceInv /\ OrderInv => TreeOrder
  BY DEF OrderInv
<1>2. Init => PlaceInv
  BY DEF Init, PlaceInv, ParentsFirst, StackInPlace, CallIsOpen, Shown
<1>. QED  BY <1>1, <1>2, OrderInit, PlaceNext, OrderNext, Invariance, PTL DEF Spec

\* Siblings in the order of the tree are in the order of their names.
LEMMA SiblingNames ==
  ASSUME NEW p \in Seq(Strings), NEW q \in Seq(Strings), TreeLeq(p, q),
         p # <<>>, Len(q) = Len(p), SubSeq(p, 1, Len(p) - 1) = SubSeq(q, 1, Len(p) - 1)
  PROVE  StringLeq(Bytes[p[Len(p)]], Bytes[q[Len(p)]])
<1>. DEFINE n == Len(p)
<1>1. n \in Nat \ {0} /\ Len(q) = n
  OBVIOUS
<1>2. \A i \in 1 .. n - 1 : p[i] = q[i]
  <2>1. \A i \in 1 .. n - 1 : SubSeq(p, 1, n - 1)[i] = p[i] /\ SubSeq(q, 1, n - 1)[i] = q[i]
    BY <1>1
  <2>. QED  BY <2>1
<1>3. Bytes[p[n]] \in Text
  <2>1. p[n] \in Strings
    BY <1>1
  <2>. QED  BY <2>1, TextOf
<1>4. PICK k \in Nat : Parts(p, q, k)
  BY DEF TreeLeq
<1>5. CASE k < n
  <2>1. k + 1 = n
    <3>1. ~ (k + 1 < n)
      BY <1>1, <1>2, <1>4 DEF Parts
    <3>. QED  BY <1>1, <1>5, <3>1
  <2>. QED  BY <1>4, <1>5, <2>1 DEF Parts
<1>6. CASE k = n
  <2>1. Bytes[p[n]] = Bytes[q[n]]
    BY <1>1, <1>4, <1>6 DEF Parts, SameNames
  <2>. QED  BY <1>3, <2>1, LeqReflexive
<1>. QED  BY <1>1, <1>4, <1>5, <1>6 DEF Parts

\* On any archive, no header comes after one of a greater sibling, though
\* Next compares each header with the one before it only.
THEOREM SiblingsSorted == Spec => []SiblingsInOrder
<1>1. TypeOK /\ TreeOrder => SiblingsInOrder
  <2>. SUFFICES ASSUME TypeOK, TreeOrder,
                       NEW j \in DOMAIN delivered, NEW i \in 1 .. j - 1,
                       Len(delivered[i].path) > 0,
                       Len(delivered[j].path) = Len(delivered[i].path),
                       SubSeq(delivered[i].path, 1, Len(delivered[i].path) - 1) =
                         SubSeq(delivered[j].path, 1, Len(delivered[i].path) - 1)
                PROVE  StringLeq(Bytes[delivered[i].path[Len(delivered[i].path)]],
                                 Bytes[delivered[j].path[Len(delivered[i].path)]])
    BY DEF SiblingsInOrder
  <2>1. delivered[i] \in Header /\ delivered[j] \in Header
    BY DEF TypeOK
  <2>2. delivered[i].path \in Seq(Strings) /\ delivered[j].path \in Seq(Strings)
    BY <2>1 DEF Header
  <2>3. TreeLeq(delivered[i].path, delivered[j].path) /\ delivered[i].path # <<>>
    BY DEF TreeOrder
  <2>. QED  BY <2>2, <2>3, SiblingNames
<1>. QED  BY <1>1, TypeCorrect, HeadersInTreeOrder, PTL

\* What comes between a node and one below it is below it too.
LEMMA BetweenIsBelow ==
  ASSUME NEW p \in Seq(Strings), NEW q \in Seq(Strings), NEW r \in Seq(Strings),
         TreeLeq(p, q), TreeLeq(q, r), Above(p, r)
  PROVE  Above(p, q)
<1>1. PICK k \in Nat : Parts(p, q, k)
  BY DEF TreeLeq
<1>2. PICK j \in Nat : Parts(q, r, j)
  BY DEF TreeLeq
<1>3. Len(p) \in Nat /\ Len(q) \in Nat /\ Len(r) \in Nat
  OBVIOUS
<1>4. CASE k = Len(p)
  BY <1>1, <1>4 DEF Parts, Above
<1>5. CASE k < Len(p)
  <2>1. /\ k < Len(q) /\ Bytes[p[k + 1]] # Bytes[q[k + 1]]
        /\ Bytes[p[k + 1]] = Bytes[r[k + 1]]
        /\ StringLeq(Bytes[p[k + 1]], Bytes[q[k + 1]])
    BY <1>1, <1>3, <1>5 DEF Parts, Above, SameNames
  <2>2. CASE j > k
    BY <1>2, <2>1, <2>2 DEF Parts, SameNames
  <2>3. CASE j = k
    <3>1. StringLeq(Bytes[q[k + 1]], Bytes[p[k + 1]])
      BY <1>2, <2>1, <2>3 DEF Parts
    <3>2. Bytes[p[k + 1]] \in Text /\ Bytes[q[k + 1]] \in Text
      BY <1>5, <2>1, NameText
    <3>. QED  BY <2>1, <3>1, <3>2, LeqAntisymmetric
  <2>4. CASE j < k
    <3>1. Bytes[p[j + 1]] = Bytes[q[j + 1]] /\ Bytes[p[j + 1]] = Bytes[r[j + 1]]
      BY <1>1, <1>3, <1>5, <2>4 DEF Parts, Above, SameNames
    <3>. QED  BY <1>2, <1>3, <2>1, <2>4, <3>1 DEF Parts
  <2>. QED  BY <2>2, <2>3, <2>4
<1>. QED  BY <1>1, <1>3, <1>4, <1>5 DEF Parts

\* The headers below a directory come in one run behind it: no header from
\* elsewhere is delivered between a node and one below that node.
SubtreesTogether ==
  \A j \in DOMAIN delivered : \A k \in 1 .. j - 1 : \A i \in 1 .. k - 1 :
    Above(delivered[i].path, delivered[j].path)
      => Above(delivered[i].path, delivered[k].path)

\* Between a directory and what is below it come only headers below it.
THEOREM SubtreesContiguous == Spec => []SubtreesTogether
<1>1. TypeOK /\ TreeOrder => SubtreesTogether
  <2>. SUFFICES ASSUME TypeOK, TreeOrder, NEW j \in DOMAIN delivered,
                       NEW k \in 1 .. j - 1, NEW i \in 1 .. k - 1,
                       Above(delivered[i].path, delivered[j].path)
                PROVE  Above(delivered[i].path, delivered[k].path)
    BY DEF SubtreesTogether
  <2>1. i \in 1 .. j - 1 /\ k \in DOMAIN delivered /\ i \in DOMAIN delivered
    BY DEF TypeOK
  <2>2. /\ delivered[i] \in Header /\ delivered[j] \in Header /\ delivered[k] \in Header
    BY <2>1 DEF TypeOK
  <2>3. /\ delivered[i].path \in Seq(Strings) /\ delivered[j].path \in Seq(Strings)
        /\ delivered[k].path \in Seq(Strings)
    BY <2>2 DEF Header
  <2>4. /\ TreeLeq(delivered[i].path, delivered[k].path)
        /\ TreeLeq(delivered[k].path, delivered[j].path)
    BY <2>1 DEF TreeOrder
  <2>. QED  BY <2>3, <2>4, BetweenIsBelow
<1>. QED  BY <1>1, TypeCorrect, HeadersInTreeOrder, PTL

-----------------------------------------------------------------------------
(* What is read of an archive.  A set R of what the parser may have before *)
(* it - its stack, the packets it has not read, the headers they list - is *)
(* closed if the innermost instruction always finds what it expects there, *)
(* and leaves what is in R again.  Such a set holds every archive (by      *)
(* induction over the rules of the grammar), and no step of the parser     *)
(* leads out of it.                                                        *)

\* The next packet is all of the string s.
Reads(o, s) == o # <<>> /\ o[1].str = s /\ o[1].have = "full"

\* The next header is h.
Lists(g, h) == g # <<>> /\ g[1] = h

HeaderOf(type, p, size, exec) == [path |-> p, type |-> type, size |-> size, exec |-> exec]

\* Where the instruction i leads, with U behind it on the stack, when the
\* packets o and the headers g are ahead.
Leads(i, U, o, g, to) ==
  \/ /\ i.op = "node"
     /\ to = <<<<Lit("("), Lit("type"), Do("label", i.path)>> \o U, o, g>>
  \/ i.op = "lit" /\ Reads(o, i.tok) /\ to = <<U, Tail(o), g>>
  \/ /\ i.op = "label" /\ Reads(o, "regular")
     /\ to = <<<<Do("regular", i.path)>> \o U, Tail(o), g>>
  \/ /\ i.op = "label" /\ Reads(o, "symlink")
     /\ to = <<<<Lit("target"), Do("target", i.path)>> \o U, Tail(o), g>>
  \/ /\ i.op = "label" /\ Reads(o, "directory")
     /\ Lists(g, HeaderOf("directory", i.path, 0, FALSE))
     /\ to = <<<<Do("entries", i.path)>> \o U, Tail(o), Tail(g)>>
  \/ /\ i.op = "regular" /\ Reads(o, "contents")
     /\ to = <<<<With("contents", i.path, EmptyString, i.exec)>> \o U, Tail(o), g>>
  \/ /\ i.op = "regular" /\ Reads(o, "executable") /\ ~ i.exec
     /\ to = <<<<Lit(EmptyString), With("regular", i.path, EmptyString, TRUE)>> \o U, Tail(o), g>>
  \/ /\ i.op = "contents" /\ o # <<>> /\ o[1].have = "full"
     /\ Lists(g, HeaderOf("regular", i.path, o[1].size, i.exec))
     /\ to = <<<<Do("seek", i.path)>> \o U, o, Tail(g)>>
  \/ /\ i.op = "seek" /\ o # <<>> /\ o[1].have = "full"
     /\ to = <<<<Do("end", i.path)>> \o U, Tail(o), g>>
  \/ /\ i.op = "target" /\ Reads(o, "to")
     /\ Lists(g, HeaderOf("symlink", i.path, 0, FALSE))
     /\ to = <<<<Do("end", i.path)>> \o U, Tail(o), Tail(g)>>
  \/ i.op = "end" /\ Reads(o, ")") /\ to = <<U, Tail(o), g>>
  \/ /\ i.op = "entries" /\ Reads(o, "entry")
     /\ to = <<<<Lit("("), Lit("name"), Do("name", i.path)>> \o U, Tail(o), g>>
  \/ i.op = "entries" /\ Reads(o, ")") /\ to = <<U, Tail(o), g>>
  \/ /\ i.op = "name" /\ o # <<>> /\ o[1].have = "full" /\ ReadableName(o[1].str)
     /\ to = <<<<Lit("node"), Do("node", Append(i.path, o[1].str)),
                 Lit(")"), With("entryEnd", i.path, o[1].str, FALSE)>> \o U, Tail(o), g>>
  \/ /\ i.op = "entryEnd" /\ i.tok # ")"
     /\ to = <<<<Do("entries", i.path)>> \o U, o, g>>

Closed(R) ==
  \A T, o, g : <<T, o, g>> \in R =>
    /\ T \in Seq(Instr) /\ o \in Seq(Packet) /\ g \in Seq(Header)
    /\ T = <<>> => o = <<>> /\ g = <<>>
    /\ T # <<>> => \E to \in R : Leads(Head(T), Tail(T), o, g, to)

Good(T, o, g) == \E R : Closed(R) /\ <<T, o, g>> \in R

LEMMA GoodType ==
  ASSUME NEW T, NEW o, NEW g, Good(T, o, g)
  PROVE  T \in Seq(Instr) /\ o \in Seq(Packet) /\ g \in Seq(Header)
BY DEF Good, Closed

LEMMA GoodEnd == Good(<<>>, <<>>, <<>>)
<1>. DEFINE R == {<<<<>>, <<>>, <<>>>>}
<1>1. \A T, o, g : <<T, o, g>> \in R => T = <<>> /\ o = <<>> /\ g = <<>>
  OBVIOUS
<1>2. Closed(R)
  BY <1>1 DEF Closed
<1>3. <<<<>>, <<>>, <<>>>> \in R
  OBVIOUS
<1>. QED  BY <1>2, <1>3 DEF Good

LEMMA OnTop ==
  ASSUME NEW S, NEW a \in S, NEW s \in Seq(S)
  PROVE  /\ <<a>> \o s \in Seq(S) /\ <<a>> \o s # <<>>
         /\ Head(<<a>> \o s) = a /\ (<<a>> \o s)[1] = a /\ Tail(<<a>> \o s) = s
OBVIOUS

\* What an instruction makes something good of is good.
LEMMA GoodBefore ==
  ASSUME NEW i \in Instr, NEW U \in Seq(Instr), NEW o \in Seq(Packet), NEW g \in Seq(Header),
         NEW V, NEW e, NEW k, Leads(i, U, o, g, <<V, e, k>>), Good(V, e, k)
  PROVE  Good(<<i>> \o U, o, g)
<1>. DEFINE T == <<i>> \o U
<1>1. T \in Seq(Instr) /\ T # <<>> /\ Head(T) = i /\ Tail(T) = U
  BY OnTop
<1>. HIDE DEF T
<1>2. PICK R : Closed(R) /\ <<V, e, k>> \in R
  BY DEF Good
<1>. DEFINE Q == R \cup {<<T, o, g>>}
<1>3. R \subseteq Q /\ <<T, o, g>> \in Q
  OBVIOUS
<1>4. ASSUME NEW T1, NEW o1, NEW g1, <<T1, o1, g1>> \in Q
      PROVE  /\ T1 \in Seq(Instr) /\ o1 \in Seq(Packet) /\ g1 \in Seq(Header)
             /\ T1 = <<>> => o1 = <<>> /\ g1 = <<>>
             /\ T1 # <<>> => \E to \in Q : Leads(Head(T1), Tail(T1), o1, g1, to)
  <2>1. <<T1, o1, g1>> \in R \/ (T1 = T /\ o1 = o /\ g1 = g)
    BY <1>4
  <2>. HIDE DEF Q
  <2>2. CASE <<T1, o1, g1>> \in R
    BY <1>2, <1>3, <2>2 DEF Closed
  <2>3. CASE T1 = T /\ o1 = o /\ g1 = g
    BY <1>1, <1>2, <1>3, <2>3
  <2>. QED  BY <2>1, <2>2, <2>3
<1>. HIDE DEF Q
<1>5. Closed(Q)
  BY <1>4, Zenon DEF Closed
<1>6. Good(T, o, g)
  BY <1>3, <1>5 DEF Good
<1>. QED  BY <1>6 DEF T

\* The innermost instruction leads from something good to something good.
LEMMA GoodStep ==
  ASSUME NEW T, NEW o, NEW g, Good(T, o, g), T # <<>>
  PROVE  \E V, e, k : Leads(Head(T), Tail(T), o, g, <<V, e, k>>) /\ Good(V, e, k)
<1>1. PICK R : Closed(R) /\ <<T, o, g>> \in R
  BY DEF Good
<1>2. PICK to \in R : Leads(Head(T), Tail(T), o, g, to)
  BY <1>1, Zenon DEF Closed
<1>3. \E V, e, k : to = <<V, e, k>>
  BY <1>2, Zenon DEF Leads
<1>. QED  BY <1>1, <1>2, <1>3 DEF Good

LEMMA GoodAtEnd ==
  ASSUME NEW o, NEW g, Good(<<>>, o, g)
  PROVE  o = <<>> /\ g = <<>>
BY DEF Good, Closed

-----------------------------------------------------------------------------
(* The rules of the parser, from behind: what is good ahead of the         *)
(* instructions a rule leaves is good ahead of the instruction itself.     *)

LEMMA TwoOf ==
  ASSUME NEW S, NEW a \in S, NEW b \in S
  PROVE  <<a>> \in Seq(S) /\ <<b>> \in Seq(S) /\ <<a, b>> = <<a>> \o <<b>>
<1>. DEFINE s == <<a, b>>
            t == <<a>> \o <<b>>
<1>1. <<a>> \in Seq(S) /\ <<b>> \in Seq(S)
  OBVIOUS
<1>2. s \in Seq(S) /\ Len(s) = 2 /\ s[1] = a /\ s[2] = b
  OBVIOUS
<1>3. t \in Seq(S) /\ Len(t) = 2 /\ t[1] = a /\ t[2] = b
  BY <1>1, ConcatProperties
<1>. HIDE DEF s, t
<1>4. s = t
  BY <1>2, <1>3, SeqEqual
<1>. QED  BY <1>1, <1>4 DEF s, t

LEMMA Onto2 ==
  ASSUME NEW S, NEW a \in S, NEW b \in S, NEW s \in Seq(S)
  PROVE  <<a, b>> \o s = <<a>> \o (<<b>> \o s)
<1>1. <<a>> \in Seq(S) /\ <<b>> \in Seq(S) /\ <<a, b>> = <<a>> \o <<b>>
  BY TwoOf
<1>2. (<<a>> \o <<b>>) \o s = <<a>> \o (<<b>> \o s)
  BY <1>1, ConcatAssociative
<1>. QED  BY <1>1, <1>2

LEMMA Onto3 ==
  ASSUME NEW S, NEW a \in S, NEW b \in S, NEW c \in S, NEW s \in Seq(S)
  PROVE  <<a, b, c>> \o s = <<a>> \o (<<b>> \o (<<c>> \o s))
<1>1. <<a>> \in Seq(S) /\ <<b, c>> \in Seq(S) /\ <<a, b, c>> = <<a>> \o <<b, c>>
  OBVIOUS
<1>3. <<b, c>> \o s = <<b>> \o (<<c>> \o s)
  BY Onto2
<1>2. (<<a>> \o <<b, c>>) \o s = <<a>> \o (<<b, c>> \o s)
  BY <1>1, ConcatAssociative
<1>. QED  BY <1>1, <1>2, <1>3

\* The same of the stack.
LEMMA Stack2 ==
  \A a, b \in Instr : \A s \in Seq(Instr) : <<a, b>> \o s = <<a>> \o (<<b>> \o s)
BY Onto2

LEMMA Stack3 ==
  \A a, b, c \in Instr : \A s \in Seq(Instr) :
    <<a, b, c>> \o s = <<a>> \o (<<b>> \o (<<c>> \o s))
<1>. TAKE a, b, c \in Instr
<1>. TAKE s \in Seq(Instr)
<1>. QED  BY Onto3

LEMMA WithType ==
  ASSUME NEW op \in Ops, NEW p \in Seq(Strings), NEW t \in Strings, NEW x \in BOOLEAN
  PROVE  /\ With(op, p, t, x) \in Instr
         /\ With(op, p, t, x).op = op /\ With(op, p, t, x).path = p
         /\ With(op, p, t, x).tok = t /\ With(op, p, t, x).exec = x
BY DEF With, Instr

LEMMA DoType ==
  ASSUME NEW op \in Ops, NEW p \in Seq(Strings)
  PROVE  Do(op, p) \in Instr /\ Do(op, p).op = op /\ Do(op, p).path = p /\ Do(op, p).exec = FALSE
<1>1. EmptyString \in Strings /\ FALSE \in BOOLEAN
  BY Keywords
<1>. QED  BY <1>1 DEF Do, With, Instr

LEMMA LitType ==
  ASSUME NEW t \in Strings
  PROVE  Lit(t) \in Instr /\ Lit(t).op = "lit" /\ Lit(t).tok = t
<1>1. <<>> \in Seq(Strings) /\ "lit" \in Ops
  BY DEF Ops
<1>. QED  BY <1>1, WithType DEF Lit

LEMMA MoreKeywords ==
  /\ "regular" \in Strings /\ "symlink" \in Strings /\ "directory" \in Strings
  /\ "contents" \in Strings /\ "to" \in Strings /\ "blob" \in Strings
BY KeywordsFit DEF Types

LEMMA PacketIs ==
  ASSUME NEW s \in Strings
  PROVE  /\ Tok(s) \in Packet /\ Tok(s).str = s /\ Tok(s).have = "full"
BY DEF Tok, Packet, Extents

\* Behind a packet that is the string s come the packets behind it.
LEMMA ReadsTop ==
  ASSUME NEW s \in Strings, NEW o \in Seq(Packet)
  PROVE  /\ <<Tok(s)>> \o o \in Seq(Packet) /\ Tail(<<Tok(s)>> \o o) = o
         /\ Reads(<<Tok(s)>> \o o, s) /\ (<<Tok(s)>> \o o)[1] = Tok(s)
         /\ <<Tok(s)>> \o o # <<>>
<1>1. Tok(s) \in Packet
  BY PacketIs
<1>. DEFINE e == <<Tok(s)>> \o o
<1>2. e \in Seq(Packet) /\ Tail(e) = o /\ e[1] = Tok(s) /\ e # <<>>
  BY <1>1, OnTop
<1>. HIDE DEF e
<1>3. Reads(e, s)
  BY <1>2, PacketIs DEF Reads
<1>. QED  BY <1>2, <1>3 DEF e

LEMMA ListsTop ==
  ASSUME NEW h \in Header, NEW g \in Seq(Header)
  PROVE  <<h>> \o g \in Seq(Header) /\ Tail(<<h>> \o g) = g /\ Lists(<<h>> \o g, h)
BY OnTop DEF Lists

\* An instruction that reads a keyword.
LEMMA GoodRead ==
  ASSUME NEW i \in Instr, NEW U \in Seq(Instr), NEW t \in Strings,
         NEW V, NEW o, NEW g, Good(V, o, g), NEW k \in Seq(Header),
         \A e : Reads(e, t) /\ Tail(e) = o => Leads(i, U, e, k, <<V, Tail(e), g>>)
  PROVE  Good(<<i>> \o U, <<Tok(t)>> \o o, k)
<1>1. o \in Seq(Packet)
  BY GoodType
<1>. DEFINE e == <<Tok(t)>> \o o
<1>2. e \in Seq(Packet) /\ Tail(e) = o /\ Reads(e, t)
  BY <1>1, ReadsTop
<1>. HIDE DEF e
<1>3. Leads(i, U, e, k, <<V, o, g>>)
  BY <1>2
<1>4. Good(<<i>> \o U, e, k)
  BY <1>2, <1>3, GoodBefore
<1>. QED  BY <1>4 DEF e

LEMMA GoodLit ==
  ASSUME NEW t \in Strings, NEW U, NEW o, NEW g, Good(U, o, g)
  PROVE  Good(<<Lit(t)>> \o U, <<Tok(t)>> \o o, g)
<1>1. U \in Seq(Instr) /\ g \in Seq(Header)
  BY GoodType
<1>2. Lit(t) \in Instr /\ \A e : Reads(e, t) => Leads(Lit(t), U, e, g, <<U, Tail(e), g>>)
  BY LitType DEF Leads
<1>. QED  BY <1>1, <1>2, GoodRead

\* The ")" of a file, and that of a directory.
LEMMA GoodParen ==
  ASSUME NEW op \in {"end", "entries"}, NEW p \in Seq(Strings),
         NEW U, NEW o, NEW g, Good(U, o, g)
  PROVE  Good(<<Do(op, p)>> \o U, <<Tok(")")>> \o o, g)
<1>1. U \in Seq(Instr) /\ g \in Seq(Header)
  BY GoodType
<1>2. op \in Ops /\ ")" \in Strings
  BY Keywords DEF Ops
<1>3. Do(op, p) \in Instr /\ Do(op, p).op = op
  BY <1>2, DoType
<1>4. \A e : Reads(e, ")") => Leads(Do(op, p), U, e, g, <<U, Tail(e), g>>)
  BY <1>3 DEF Leads
<1>. QED  BY <1>1, <1>2, <1>3, <1>4, GoodRead

\* A node begins with "(" and "type".
LEMMA GoodNode ==
  ASSUME NEW p \in Seq(Strings), NEW U \in Seq(Instr), NEW o, NEW g,
         Good(<<Do("label", p)>> \o U, o, g)
  PROVE  Good(<<Do("node", p)>> \o U, <<Tok("(")>> \o (<<Tok("type")>> \o o), g)
<1>1. "node" \in Ops /\ "label" \in Ops
  BY DEF Ops
<1>2. /\ Do("node", p) \in Instr /\ Do("node", p).op = "node" /\ Do("node", p).path = p
      /\ Do("label", p) \in Instr /\ Lit("(") \in Instr /\ Lit("type") \in Instr
  BY <1>1, DoType, LitType, Keywords
<1>. DEFINE V == <<Lit("("), Lit("type"), Do("label", p)>> \o U
            e == <<Tok("(")>> \o (<<Tok("type")>> \o o)
<1>3. V = <<Lit("(")>> \o (<<Lit("type")>> \o (<<Do("label", p)>> \o U))
  BY <1>2, Stack3, Zenon
<1>4. Good(<<Lit("type")>> \o (<<Do("label", p)>> \o U), <<Tok("type")>> \o o, g)
  BY GoodLit, Keywords
<1>5. Good(<<Lit("(")>> \o (<<Lit("type")>> \o (<<Do("label", p)>> \o U)), e, g)
  BY <1>4, GoodLit, Keywords
<1>6. Good(V, e, g)
  BY <1>3, <1>5
<1>. HIDE DEF e
<1>7. e \in Seq(Packet) /\ g \in Seq(Header)
  BY <1>6, GoodType
<1>8. Leads(Do("node", p), U, e, g, <<V, e, g>>)
  BY <1>2 DEF Leads
<1>. HIDE DEF V
<1>9. Good(<<Do("node", p)>> \o U, e, g)
  BY <1>2, <1>6, <1>7, <1>8, GoodBefore
<1>. QED  BY <1>9 DEF e

LEMMA OpsAre ==
  /\ "label" \in Ops /\ "regular" \in Ops /\ "contents" \in Ops /\ "target" \in Ops
  /\ "entries" \in Ops /\ "name" \in Ops /\ "entryEnd" \in Ops /\ "seek" \in Ops
  /\ "end" \in Ops /\ "node" \in Ops /\ "lit" \in Ops
BY DEF Ops

\* A symlink, behind the label.
LEMMA GoodSymlink ==
  ASSUME NEW p \in Seq(Strings), NEW U, NEW o, NEW g, Good(U, o, g),
         NEW h \in Header, h = HeaderOf("symlink", p, 0, FALSE)
  PROVE  Good(<<Do("label", p)>> \o U,
              <<Tok("symlink")>> \o (<<Tok("target")>> \o (<<Tok("to")>> \o (<<Tok(")")>> \o o))),
              <<h>> \o g)
<1>1. U \in Seq(Instr) /\ g \in Seq(Header)
  BY GoodType
<1>2. /\ Do("label", p) \in Instr /\ Do("label", p).op = "label" /\ Do("label", p).path = p
      /\ Do("target", p) \in Instr /\ Do("target", p).op = "target" /\ Do("target", p).path = p
      /\ Lit("target") \in Instr
  <2>1. "label" \in Ops /\ "target" \in Ops /\ "target" \in Strings
    BY OpsAre, Keywords
  <2>2. Do("label", p) \in Instr /\ Do("label", p).op = "label" /\ Do("label", p).path = p
    BY <2>1, DoType
  <2>3. Do("target", p) \in Instr /\ Do("target", p).op = "target" /\ Do("target", p).path = p
    BY <2>1, DoType
  <2>. QED  BY <2>1, <2>2, <2>3, LitType
<1>. DEFINE k == <<h>> \o g
            e == <<Tok(")")>> \o o
            e1 == <<Tok("to")>> \o e
            e2 == <<Tok("target")>> \o e1
            U1 == <<Do("end", p)>> \o U
            U2 == <<Do("target", p)>> \o U
            U3 == <<Lit("target"), Do("target", p)>> \o U
<1>3. k \in Seq(Header) /\ Tail(k) = g /\ Lists(k, HeaderOf("symlink", p, 0, FALSE))
  BY <1>1, ListsTop
<1>4. Good(U1, e, g)
  BY GoodParen
<1>5. U3 = <<Lit("target")>> \o U2
  BY <1>1, <1>2, Stack2, Zenon
<1>. HIDE DEF k, e
<1>6. Good(U2, e1, k)
  <2>1. \A f : Reads(f, "to") => Leads(Do("target", p), U, f, k, <<U1, Tail(f), g>>)
    BY <1>2, <1>3 DEF Leads
  <2>. HIDE DEF U1
  <2>. QED  BY <1>1, <1>2, <1>3, <1>4, <2>1, MoreKeywords, GoodRead
<1>. HIDE DEF e1, U2
<1>7. Good(U3, e2, k)
  BY <1>5, <1>6, GoodLit, Keywords
<1>. HIDE DEF e2
<1>8. Good(<<Do("label", p)>> \o U, <<Tok("symlink")>> \o e2, k)
  <2>1. \A f : Reads(f, "symlink") => Leads(Do("label", p), U, f, k, <<U3, Tail(f), k>>)
    BY <1>2 DEF Leads
  <2>. HIDE DEF U3
  <2>. QED  BY <1>1, <1>2, <1>3, <1>7, <2>1, MoreKeywords, GoodRead
<1>. QED  BY <1>8 DEF k, e, e1, e2

\* The contents of a regular file, and what is behind them.
LEMMA GoodContents ==
  ASSUME NEW p \in Seq(Strings), NEW x \in BOOLEAN, NEW n \in Nat,
         NEW U, NEW o, NEW g, Good(U, o, g),
         NEW h \in Header, h = HeaderOf("regular", p, n, x)
  PROVE  Good(<<With("regular", p, EmptyString, x)>> \o U,
              <<Tok("contents")>> \o (<<Blob(n)>> \o (<<Tok(")")>> \o o)), <<h>> \o g)
<1>1. U \in Seq(Instr) /\ g \in Seq(Header) /\ o \in Seq(Packet)
  BY GoodType
<1>. DEFINE i == With("regular", p, EmptyString, x)
            c == With("contents", p, EmptyString, x)
            k == <<h>> \o g
            e == <<Tok(")")>> \o o
            e1 == <<Blob(n)>> \o e
            U1 == <<Do("end", p)>> \o U
            U2 == <<Do("seek", p)>> \o U
            U3 == <<c>> \o U
<1>2. /\ i \in Instr /\ i.op = "regular" /\ i.path = p /\ i.exec = x
      /\ c \in Instr /\ c.op = "contents" /\ c.path = p /\ c.exec = x
  <2>1. "regular" \in Ops /\ "contents" \in Ops /\ EmptyString \in Strings
    BY OpsAre, Keywords
  <2>2. i \in Instr /\ i.op = "regular" /\ i.path = p /\ i.exec = x
    BY <2>1 DEF With, Instr
  <2>3. c \in Instr /\ c.op = "contents" /\ c.path = p /\ c.exec = x
    BY <2>1 DEF With, Instr
  <2>. QED  BY <2>2, <2>3
<1>3. Do("seek", p) \in Instr /\ Do("seek", p).op = "seek" /\ Do("seek", p).path = p
  <2>1. "seek" \in Ops
    BY OpsAre
  <2>. QED  BY <2>1, DoType
<1>4. k \in Seq(Header) /\ Tail(k) = g /\ Lists(k, HeaderOf("regular", p, n, x))
  BY <1>1, ListsTop
<1>5. Good(U1, e, g)
  BY GoodParen
<1>6. e \in Seq(Packet)
  BY <1>5, GoodType
<1>7. /\ e1 \in Seq(Packet) /\ e1 # <<>> /\ Tail(e1) = e
      /\ e1[1].have = "full" /\ e1[1].size = n
  <2>1. Blob(n) \in Packet /\ Blob(n).have = "full" /\ Blob(n).size = n
    BY MoreKeywords DEF Blob, Packet, Extents
  <2>. HIDE DEF e
  <2>2. e1 \in Seq(Packet) /\ e1 # <<>> /\ Tail(e1) = e /\ e1[1] = Blob(n)
    BY <1>6, <2>1, OnTop
  <2>. QED  BY <2>1, <2>2
<1>. HIDE DEF k, e, e1, i, c
<1>8. Good(U2, e1, g)
  <2>1. Leads(Do("seek", p), U, e1, g, <<U1, e, g>>)
    BY <1>3, <1>7 DEF Leads
  <2>. HIDE DEF U1
  <2>. QED  BY <1>1, <1>3, <1>5, <1>7, <2>1, GoodBefore
<1>9. Good(U3, e1, k)
  <2>1. Leads(c, U, e1, k, <<U2, e1, g>>)
    BY <1>2, <1>4, <1>7 DEF Leads
  <2>. HIDE DEF U2
  <2>. QED  BY <1>1, <1>2, <1>4, <1>7, <1>8, <2>1, GoodBefore
<1>10. Good(<<i>> \o U, <<Tok("contents")>> \o e1, k)
  <2>1. \A f : Reads(f, "contents") => Leads(i, U, f, k, <<U3, Tail(f), k>>)
    BY <1>2 DEF Leads, c
  <2>. HIDE DEF U3
  <2>. QED  BY <1>1, <1>2, <1>4, <1>9, <2>1, MoreKeywords, GoodRead
<1>. QED  BY <1>10 DEF i, k, e, e1

\* The same with the "executable" in front, and its empty placeholder.
LEMMA GoodExecutable ==
  ASSUME NEW p \in Seq(Strings), NEW n \in Nat,
         NEW U, NEW o, NEW g, Good(U, o, g),
         NEW h \in Header, h = HeaderOf("regular", p, n, TRUE)
  PROVE  Good(<<Do("regular", p)>> \o U,
              <<Tok("executable")>> \o (<<Empty>> \o
                (<<Tok("contents")>> \o (<<Blob(n)>> \o (<<Tok(")")>> \o o)))), <<h>> \o g)
<1>. DEFINE i == With("regular", p, EmptyString, TRUE)
            k == <<h>> \o g
            e == <<Tok("contents")>> \o (<<Blob(n)>> \o (<<Tok(")")>> \o o))
            e1 == <<Empty>> \o e
            U1 == <<i>> \o U
            U2 == <<Lit(EmptyString), i>> \o U
<1>1. U \in Seq(Instr) /\ g \in Seq(Header)
  BY GoodType
<1>2. Do("regular", p) \in Instr /\ Do("regular", p).op = "regular"
      /\ Do("regular", p).path = p /\ Do("regular", p).exec = FALSE
  <2>1. "regular" \in Ops
    BY OpsAre
  <2>. QED  BY <2>1, DoType
<1>3. Good(U1, e, k)
  BY GoodContents
<1>4. e \in Seq(Packet) /\ k \in Seq(Header)
  BY <1>3, GoodType
<1>5. i \in Instr /\ Lit(EmptyString) \in Instr
  <2>1. "regular" \in Ops /\ EmptyString \in Strings
    BY OpsAre, Keywords
  <2>2. i \in Instr
    BY <2>1 DEF With, Instr
  <2>. QED  BY <2>1, <2>2, LitType
<1>. HIDE DEF k, e
<1>6. /\ e1 \in Seq(Packet) /\ Tail(e1) = e /\ Reads(e1, EmptyString)
  <2>1. Empty \in Packet /\ Empty.have = "full" /\ Empty.str = EmptyString
    BY Keywords DEF Empty, Packet, Extents
  <2>2. e1 \in Seq(Packet) /\ e1 # <<>> /\ Tail(e1) = e /\ e1[1] = Empty
    BY <1>4, <2>1, OnTop
  <2>. QED  BY <2>1, <2>2 DEF Reads
<1>7. U2 = <<Lit(EmptyString)>> \o U1
  <2>. HIDE DEF i
  <2>. QED  BY <1>1, <1>5, Stack2, Zenon
<1>. HIDE DEF e1
<1>8. U1 \in Seq(Instr)
  BY <1>3, GoodType
<1>9. Good(U2, e1, k)
  <2>1. Lit(EmptyString).op = "lit" /\ Lit(EmptyString).tok = EmptyString
    BY Keywords, LitType
  <2>. HIDE DEF U1
  <2>2. Leads(Lit(EmptyString), U1, e1, k, <<U1, e, k>>)
    BY <1>6, <2>1 DEF Leads
  <2>. HIDE DEF U2
  <2>. QED  BY <1>3, <1>4, <1>5, <1>6, <1>7, <1>8, <2>2, GoodBefore
<1>10. Good(<<Do("regular", p)>> \o U, <<Tok("executable")>> \o e1, k)
  <2>1. \A f : Reads(f, "executable") => Leads(Do("regular", p), U, f, k, <<U2, Tail(f), k>>)
    BY <1>2 DEF Leads
  <2>. HIDE DEF U2
  <2>. QED  BY <1>1, <1>2, <1>4, <1>9, <2>1, Keywords, GoodRead
<1>. QED  BY <1>10 DEF k, e, e1

\* The label of a regular file, or of a directory.
LEMMA GoodRegular ==
  ASSUME NEW p \in Seq(Strings), NEW U, NEW o, NEW g, Good(<<Do("regular", p)>> \o U, o, g),
         U \in Seq(Instr)
  PROVE  Good(<<Do("label", p)>> \o U, <<Tok("regular")>> \o o, g)
<1>1. g \in Seq(Header)
  BY GoodType
<1>2. Do("label", p) \in Instr /\ Do("label", p).op = "label" /\ Do("label", p).path = p
  <2>1. "label" \in Ops
    BY OpsAre
  <2>. QED  BY <2>1, DoType
<1>. DEFINE V == <<Do("regular", p)>> \o U
<1>3. \A f : Reads(f, "regular") => Leads(Do("label", p), U, f, g, <<V, Tail(f), g>>)
  BY <1>2 DEF Leads
<1>4. Good(V, o, g)
  OBVIOUS
<1>. HIDE DEF V
<1>. QED  BY <1>1, <1>2, <1>3, <1>4, MoreKeywords, GoodRead

LEMMA GoodDirectory ==
  ASSUME NEW p \in Seq(Strings), NEW U, NEW o, NEW g, Good(<<Do("entries", p)>> \o U, o, g),
         U \in Seq(Instr), NEW h \in Header, h = HeaderOf("directory", p, 0, FALSE)
  PROVE  Good(<<Do("label", p)>> \o U, <<Tok("directory")>> \o o, <<h>> \o g)
<1>1. g \in Seq(Header)
  BY GoodType
<1>2. Do("label", p) \in Instr /\ Do("label", p).op = "label" /\ Do("label", p).path = p
  <2>1. "label" \in Ops
    BY OpsAre
  <2>. QED  BY <2>1, DoType
<1>. DEFINE V == <<Do("entries", p)>> \o U
            k == <<h>> \o g
<1>3. k \in Seq(Header) /\ Tail(k) = g /\ Lists(k, HeaderOf("directory", p, 0, FALSE))
  BY <1>1, ListsTop
<1>. HIDE DEF k
<1>4. \A f : Reads(f, "directory") => Leads(Do("label", p), U, f, k, <<V, Tail(f), g>>)
  BY <1>2, <1>3 DEF Leads
<1>5. Good(V, o, g)
  OBVIOUS
<1>. HIDE DEF V
<1>6. Good(<<Do("label", p)>> \o U, <<Tok("directory")>> \o o, k)
  BY <1>1, <1>2, <1>3, <1>4, <1>5, MoreKeywords, GoodRead
<1>. QED  BY <1>6 DEF k

\* An entry: its node, and the instructions behind that, are good.
LEMMA GoodEntry ==
  ASSUME NEW p \in Seq(Strings), NEW n \in Strings, ReadableName(n),
         NEW U \in Seq(Instr), NEW o, NEW g,
         Good(<<Do("node", Append(p, n))>> \o
                (<<Lit(")")>> \o (<<With("entryEnd", p, n, FALSE)>> \o U)), o, g)
  PROVE  Good(<<Do("entries", p)>> \o U,
              <<Tok("entry")>> \o (<<Tok("(")>> \o (<<Tok("name")>> \o
                (<<Tok(n)>> \o (<<Tok("node")>> \o o)))), g)
<1>. DEFINE d == Do("node", Append(p, n))
            c == With("entryEnd", p, n, FALSE)
            U1 == <<d>> \o (<<Lit(")")>> \o (<<c>> \o U))
            U2 == <<Lit("node"), d, Lit(")"), c>> \o U
            U3 == <<Do("name", p)>> \o U
            U4 == <<Lit("("), Lit("name"), Do("name", p)>> \o U
            e == <<Tok("node")>> \o o
            e1 == <<Tok(n)>> \o e
            e2 == <<Tok("name")>> \o e1
            e3 == <<Tok("(")>> \o e2
<1>1. g \in Seq(Header)
  BY GoodType
<1>2. /\ Do("name", p) \in Instr /\ Do("name", p).op = "name" /\ Do("name", p).path = p
      /\ Do("entries", p) \in Instr /\ Do("entries", p).op = "entries"
      /\ Do("entries", p).path = p
  <2>1. "name" \in Ops /\ "entries" \in Ops
    BY OpsAre
  <2>2. Do("name", p) \in Instr /\ Do("name", p).op = "name" /\ Do("name", p).path = p
    BY <2>1, DoType
  <2>. QED  BY <2>1, <2>2, DoType
<1>3. d \in Instr /\ c \in Instr
  <2>1. "node" \in Ops /\ "entryEnd" \in Ops /\ Append(p, n) \in Seq(Strings)
    BY OpsAre
  <2>2. c \in Instr
    BY <2>1 DEF With, Instr
  <2>. QED  BY <2>1, <2>2, DoType
<1>4. Lit("node") \in Instr /\ Lit(")") \in Instr /\ Lit("(") \in Instr /\ Lit("name") \in Instr
  BY LitType, Keywords
<1>5. Good(U2, e, g)
  <2>1. Good(<<Lit("node")>> \o U1, e, g)
    BY GoodLit, Keywords
  <2>. HIDE DEF d, c
  <2>2. U2 = <<Lit("node")>> \o U1
    <3>. DEFINE a == Lit("node")
                b == Lit(")")
    <3>1. a \in Instr /\ d \in Instr /\ b \in Instr /\ c \in Instr
      BY <1>3, <1>4
    <3>. HIDE DEF a, b
    <3>2. <<a, d, b, c>> \o U = <<a>> \o (<<d>> \o (<<b>> \o (<<c>> \o U)))
      <4>1. /\ <<a>> \in Seq(Instr) /\ <<d, b, c>> \in Seq(Instr)
            /\ <<a, d, b, c>> = <<a>> \o <<d, b, c>>
        BY <3>1
      <4>2. (<<a>> \o <<d, b, c>>) \o U = <<a>> \o (<<d, b, c>> \o U)
        BY <4>1, ConcatAssociative
      <4>3. <<d, b, c>> \o U = <<d>> \o (<<b>> \o (<<c>> \o U))
        BY <3>1, Stack3
      <4>. QED  BY <4>1, <4>2, <4>3
    <3>. QED  BY <3>2 DEF a, b
  <2>. HIDE DEF U2, U1, e
  <2>. QED  BY <2>1, <2>2
<1>6. e \in Seq(Packet)
  BY <1>5, GoodType
<1>. HIDE DEF e
<1>7. Good(U3, e1, g)
  <2>1. Do("name", p).op = "name" /\ \A f : Reads(f, n) =>
          Leads(Do("name", p), U, f, g, <<U2, Tail(f), g>>)
    BY <1>2 DEF Leads, Reads
  <2>. HIDE DEF U2
  <2>. QED  BY <1>1, <1>2, <1>5, <2>1, GoodRead
<1>. HIDE DEF e1
<1>8. Good(U4, e3, g)
  <2>. HIDE DEF U3
  <2>1. Good(<<Lit("name")>> \o U3, e2, g)
    BY <1>7, GoodLit, Keywords
  <2>. HIDE DEF e2
  <2>2. Good(<<Lit("(")>> \o (<<Lit("name")>> \o U3), e3, g)
    BY <2>1, GoodLit, Keywords
  <2>3. U4 = <<Lit("(")>> \o (<<Lit("name")>> \o U3)
    <3>1. Do("name", p) \in Instr /\ Lit("(") \in Instr /\ Lit("name") \in Instr
      BY <1>2, <1>4
    <3>. QED  BY <3>1, Stack3, Zenon DEF U3
  <2>. QED  BY <2>2, <2>3
<1>. HIDE DEF e2, e3
<1>9. Good(<<Do("entries", p)>> \o U, <<Tok("entry")>> \o e3, g)
  <2>1. \A f : Reads(f, "entry") => Leads(Do("entries", p), U, f, g, <<U4, Tail(f), g>>)
    BY <1>2 DEF Leads
  <2>. HIDE DEF U4
  <2>. QED  BY <1>1, <1>2, <1>8, <2>1, Keywords, GoodRead
<1>. QED  BY <1>9 DEF e, e1, e2, e3

\* The end of the loop body: the loop goes on.
LEMMA GoodEntryEnd ==
  ASSUME NEW p \in Seq(Strings), NEW n \in Strings, n # ")", NEW U \in Seq(Instr),
         NEW o, NEW g, Good(<<Do("entries", p)>> \o U, o, g)
  PROVE  Good(<<With("entryEnd", p, n, FALSE)>> \o U, o, g)
<1>. DEFINE c == With("entryEnd", p, n, FALSE)
            V == <<Do("entries", p)>> \o U
<1>1. o \in Seq(Packet) /\ g \in Seq(Header)
  BY GoodType
<1>2. c \in Instr /\ c.op = "entryEnd" /\ c.tok = n /\ c.path = p
  BY OpsAre DEF With, Instr
<1>. HIDE DEF c
<1>3. Leads(c, U, o, g, <<V, o, g>>)
  BY <1>2 DEF Leads
<1>4. Good(V, o, g)
  OBVIOUS
<1>. HIDE DEF V
<1>5. Good(<<c>> \o U, o, g)
  BY <1>1, <1>2, <1>3, <1>4, GoodBefore
<1>. QED  BY <1>5 DEF c

-----------------------------------------------------------------------------
(* The packets that the grammar writes, one by one.                        *)

LEMMA ToksType ==
  ASSUME NEW ss \in Seq(Strings)
  PROVE  Toks(ss) \in Seq(Packet) /\ Len(Toks(ss)) = Len(ss)
<1>1. \A i \in 1 .. Len(ss) : Tok(ss[i]) \in Packet
  BY PacketIs
<1>. QED  BY <1>1 DEF Toks

LEMMA Toks1 ==
  ASSUME NEW a \in Strings
  PROVE  Toks(<<a>>) = <<Tok(a)>> /\ Toks(<<a>>) \in Seq(Packet)
<1>1. <<a>> \in Seq(Strings) /\ Len(<<a>>) = 1 /\ <<a>>[1] = a
  OBVIOUS
<1>2. Toks(<<a>>) \in Seq(Packet) /\ Len(Toks(<<a>>)) = 1 /\ Toks(<<a>>)[1] = Tok(a)
  <2>1. Toks(<<a>>) \in Seq(Packet) /\ Len(Toks(<<a>>)) = 1
    BY <1>1, ToksType
  <2>2. Toks(<<a>>)[1] = Tok(a)
    BY <1>1 DEF Toks
  <2>. QED  BY <2>1, <2>2
<1>. DEFINE s == Toks(<<a>>)
            t == <<Tok(a)>>
<1>3. t \in Seq(Packet) /\ Len(t) = 1 /\ t[1] = Tok(a)
  BY PacketIs
<1>. HIDE DEF s, t
<1>4. s \in Seq(Packet) /\ Len(s) = 1 /\ s[1] = Tok(a)
  BY <1>2 DEF s
<1>5. s = t
  BY <1>3, <1>4, SeqEqual
<1>. QED  BY <1>4, <1>5 DEF s, t

\* Packets are written from the left.
LEMMA ToksOnto ==
  ASSUME NEW a \in Strings, NEW ss \in Seq(Strings), NEW tt \in Seq(Strings),
         Len(tt) = Len(ss) + 1, tt[1] = a, \A i \in 1 .. Len(ss) : tt[i + 1] = ss[i],
         NEW o \in Seq(Packet)
  PROVE  Toks(tt) \o o = <<Tok(a)>> \o (Toks(ss) \o o)
<1>. DEFINE s == Toks(ss)
            t == Toks(tt)
            h == <<Tok(a)>>
            u == h \o s
<1>1. /\ s \in Seq(Packet) /\ t \in Seq(Packet) /\ Len(s) = Len(ss) /\ Len(t) = Len(ss) + 1
      /\ h \in Seq(Packet) /\ Len(h) = 1 /\ h[1] = Tok(a) /\ Len(ss) \in Nat
  BY PacketIs, ToksType
<1>2. t[1] = Tok(a) /\ (\A i \in 1 .. Len(ss) : t[i + 1] = Tok(ss[i]) /\ s[i] = Tok(ss[i]))
  BY DEF Toks
<1>. HIDE DEF s, t, h
<1>3. /\ u \in Seq(Packet) /\ Len(u) = Len(ss) + 1
      /\ \A i \in 1 .. Len(ss) + 1 : u[i] = IF i <= 1 THEN h[i] ELSE s[i - 1]
  <2>1. h \in Seq(Packet) /\ s \in Seq(Packet)
    BY <1>1
  <2>2. /\ u \in Seq(Packet) /\ Len(u) = Len(h) + Len(s)
        /\ \A i \in 1 .. Len(h) + Len(s) : u[i] = IF i <= Len(h) THEN h[i] ELSE s[i - Len(h)]
    BY <2>1, ConcatProperties
  <2>. HIDE DEF u
  <2>. QED  BY <1>1, <2>2
<1>. HIDE DEF u
<1>4. \A i \in 1 .. Len(ss) + 1 : u[i] = t[i]
  <2>. SUFFICES ASSUME NEW i \in 1 .. Len(ss) + 1 PROVE u[i] = t[i]
    OBVIOUS
  <2>1. CASE i = 1
    BY <1>1, <1>2, <1>3, <2>1
  <2>2. CASE i # 1
    <3>1. i - 1 \in 1 .. Len(ss) /\ (i - 1) + 1 = i
      BY <1>1, <2>2
    <3>2. t[(i - 1) + 1] = s[i - 1]
      BY <1>2, <3>1
    <3>. QED  BY <1>1, <1>3, <2>2, <3>1, <3>2
  <2>. QED  BY <2>1, <2>2
<1>5. u = t
  BY <1>1, <1>3, <1>4, SeqEqual
<1>6. (h \o s) \o o = h \o (s \o o)
  <2>1. h \in Seq(Packet) /\ s \in Seq(Packet)
    BY <1>1
  <2>. QED  BY <2>1, ConcatAssociative
<1>. QED  BY <1>5, <1>6 DEF s, t, h, u

LEMMA Toks2 ==
  ASSUME NEW a \in Strings, NEW b \in Strings, NEW o \in Seq(Packet)
  PROVE  Toks(<<a, b>>) \o o = <<Tok(a)>> \o (<<Tok(b)>> \o o)
<1>1. /\ <<a, b>> \in Seq(Strings) /\ <<b>> \in Seq(Strings)
      /\ Len(<<a, b>>) = Len(<<b>>) + 1 /\ <<a, b>>[1] = a
      /\ \A i \in 1 .. Len(<<b>>) : <<a, b>>[i + 1] = <<b>>[i]
  OBVIOUS
<1>2. Toks(<<a, b>>) \o o = <<Tok(a)>> \o (Toks(<<b>>) \o o)
  BY <1>1, ToksOnto
<1>. QED  BY <1>2, Toks1

LEMMA Toks3 ==
  ASSUME NEW a \in Strings, NEW b \in Strings, NEW c \in Strings, NEW o \in Seq(Packet)
  PROVE  Toks(<<a, b, c>>) \o o = <<Tok(a)>> \o (<<Tok(b)>> \o (<<Tok(c)>> \o o))
<1>1. /\ <<a, b, c>> \in Seq(Strings) /\ <<b, c>> \in Seq(Strings)
      /\ Len(<<a, b, c>>) = Len(<<b, c>>) + 1 /\ <<a, b, c>>[1] = a
      /\ \A i \in 1 .. Len(<<b, c>>) : <<a, b, c>>[i + 1] = <<b, c>>[i]
  OBVIOUS
<1>2. Toks(<<a, b, c>>) \o o = <<Tok(a)>> \o (Toks(<<b, c>>) \o o)
  BY <1>1, ToksOnto
<1>3. Toks(<<b, c>>) \o o = <<Tok(b)>> \o (<<Tok(c)>> \o o)
  BY Toks2
<1>. QED  BY <1>2, <1>3

\* An entry up to its node.
LEMMA IntroOnto ==
  ASSUME NEW n \in Strings, NEW o \in Seq(Packet)
  PROVE  /\ Toks(<<"entry", "(", "name", n, "node">>) \in Seq(Packet)
         /\ Toks(<<"entry", "(", "name", n, "node">>) \o o =
               <<Tok("entry")>> \o (<<Tok("(")>> \o (<<Tok("name")>> \o
                 (<<Tok(n)>> \o (<<Tok("node")>> \o o))))
<1>. DEFINE t == <<"entry", "(", "name", n, "node">>
            u == <<"(", "name", n, "node">>
            v == <<"name", n, "node">>
<1>1. "entry" \in Strings /\ "(" \in Strings /\ "name" \in Strings /\ "node" \in Strings
  BY Keywords
<1>2. /\ t \in Seq(Strings) /\ u \in Seq(Strings) /\ v \in Seq(Strings)
      /\ Len(t) = Len(u) + 1 /\ t[1] = "entry" /\ Len(u) = Len(v) + 1 /\ u[1] = "("
  BY <1>1
<1>3. \A i \in 1 .. Len(u) : t[i + 1] = u[i]
  OBVIOUS
<1>4. \A i \in 1 .. Len(v) : u[i + 1] = v[i]
  OBVIOUS
<1>5. Toks(v) \o o = <<Tok("name")>> \o (<<Tok(n)>> \o (<<Tok("node")>> \o o))
  BY <1>1, Toks3
<1>. HIDE DEF t, u, v
<1>6. Toks(t) \o o = <<Tok("entry")>> \o (Toks(u) \o o)
  BY <1>1, <1>2, <1>3, ToksOnto
<1>7. Toks(u) \o o = <<Tok("(")>> \o (Toks(v) \o o)
  BY <1>1, <1>2, <1>4, ToksOnto
<1>8. Toks(t) \in Seq(Packet)
  BY <1>2, ToksType
<1>. QED  BY <1>5, <1>6, <1>7, <1>8 DEF t

LEMMA HeaderIs ==
  ASSUME NEW h \in Header
  PROVE  /\ h.path \in Seq(Strings) /\ h.type \in Types /\ h.type \in Strings
         /\ h.size \in Nat /\ h.exec \in BOOLEAN
         /\ h = HeaderOf(h.type, h.path, h.size, h.exec)
<1>1. Types \subseteq Strings
  BY KeywordsFit
<1>. QED  BY <1>1 DEF Header, HeaderOf

\* What the grammar writes of a symlink or of a regular file.
LEMMA LeafOnto ==
  ASSUME NEW h \in Header, NEW o \in Seq(Packet)
  PROVE  /\ LeafPackets(h) \in Seq(Packet)
         /\ h.type # "regular" =>
              LeafPackets(h) \o o =
                <<Tok("(")>> \o (<<Tok("type")>> \o (<<Tok(h.type)>> \o (<<Tok("target")>> \o
                  (<<Tok("to")>> \o (<<Tok(")")>> \o o)))))
         /\ h.type = "regular" /\ ~ h.exec =>
              LeafPackets(h) \o o =
                <<Tok("(")>> \o (<<Tok("type")>> \o (<<Tok(h.type)>> \o (<<Tok("contents")>> \o
                  (<<Blob(h.size)>> \o (<<Tok(")")>> \o o)))))
         /\ h.type = "regular" /\ h.exec =>
              LeafPackets(h) \o o =
                <<Tok("(")>> \o (<<Tok("type")>> \o (<<Tok(h.type)>> \o
                  (<<Tok("executable")>> \o (<<Empty>> \o (<<Tok("contents")>> \o
                    (<<Blob(h.size)>> \o (<<Tok(")")>> \o o)))))))
<1>. DEFINE start == Toks(<<"(", "type", h.type>>)
            exec == <<Tok("executable"), Empty>>
            blob == <<Tok("contents"), Blob(h.size)>>
            link == Toks(<<"target", "to">>)
            end == Toks(<<")">>)
            e == <<Tok(")")>> \o o
            mid == IF h.type = "regular"
                   THEN (IF h.exec THEN exec ELSE <<>>) \o blob
                   ELSE link
<1>1. h.type \in Strings /\ h.size \in Nat
  BY HeaderIs
<1>2. start \in Seq(Packet) /\ link \in Seq(Packet)
  <2>1. <<"(", "type", h.type>> \in Seq(Strings) /\ <<"target", "to">> \in Seq(Strings)
    BY <1>1, Keywords, MoreKeywords
  <2>. QED  BY <2>1, ToksType
<1>3. end \in Seq(Packet) /\ end \o o = e
  <2>1. end = <<Tok(")")>> /\ end \in Seq(Packet)
    BY Keywords, Toks1
  <2>. QED  BY <2>1
<1>4. /\ Tok("executable") \in Packet /\ Empty \in Packet
      /\ Tok("contents") \in Packet /\ Blob(h.size) \in Packet
  <2>1. Empty \in Packet /\ Blob(h.size) \in Packet
    BY <1>1, Keywords, MoreKeywords DEF Empty, Blob, Packet, Extents
  <2>. QED  BY <2>1, Keywords, MoreKeywords, PacketIs
<1>5. exec \in Seq(Packet) /\ blob \in Seq(Packet)
  BY <1>4
<1>6. e \in Seq(Packet)
  BY ReadsTop, Keywords
<1>7. start \o (<<Tok("target")>> \o (<<Tok("to")>> \o e)) = start \o (link \o e)
  BY <1>6, Keywords, MoreKeywords, Toks2
<1>8. blob \o e = <<Tok("contents")>> \o (<<Blob(h.size)>> \o e)
  <2>. HIDE DEF e
  <2>. QED  BY <1>4, <1>6, Onto2
<1>9. (exec \o blob) \o e = <<Tok("executable")>> \o (<<Empty>> \o (blob \o e))
  <2>. HIDE DEF exec, blob, e
  <2>1. blob \o e \in Seq(Packet)
    BY <1>5, <1>6
  <2>2. (exec \o blob) \o e = exec \o (blob \o e)
    BY <1>5, <1>6, ConcatAssociative
  <2>. DEFINE f == blob \o e
  <2>. HIDE DEF f
  <2>3. f \in Seq(Packet)
    BY <2>1 DEF f
  <2>4. exec \o f = <<Tok("executable")>> \o (<<Empty>> \o f)
    BY <1>4, <2>3, Onto2 DEF exec
  <2>. QED  BY <2>2, <2>4 DEF f
<1>10. mid \in Seq(Packet)
  <2>. HIDE DEF exec, blob, link
  <2>. QED  BY <1>2, <1>5
<1>11. LeafPackets(h) = start \o mid \o end
  BY DEF LeafPackets
<1>. HIDE DEF end, mid, start
<1>12. LeafPackets(h) \in Seq(Packet) /\ LeafPackets(h) \o o = start \o (mid \o e)
  <2>1. /\ start \in Seq(Packet) /\ mid \in Seq(Packet) /\ end \in Seq(Packet)
        /\ o \in Seq(Packet)
    BY <1>2, <1>3, <1>10
  <2>. DEFINE sm == start \o mid
              eo == end \o o
  <2>2. sm \in Seq(Packet) /\ eo \in Seq(Packet)
    BY <2>1
  <2>3. sm \o eo = start \o (mid \o eo)
    <3>. HIDE DEF eo
    <3>. QED  BY <2>1, <2>2, ConcatAssociative
  <2>. HIDE DEF sm
  <2>4. sm \o end \in Seq(Packet) /\ (sm \o end) \o o = sm \o (end \o o)
    BY <2>1, <2>2, ConcatAssociative
  <2>. QED  BY <1>3, <1>11, <2>3, <2>4 DEF sm
<1>13. ASSUME NEW f \in Seq(Packet)
       PROVE  start \o f = <<Tok("(")>> \o (<<Tok("type")>> \o (<<Tok(h.type)>> \o f))
  <2>1. "(" \in Strings /\ "type" \in Strings
    BY Keywords
  <2>. QED  BY <1>1, <2>1, Toks3 DEF start
<1>14. mid \o e \in Seq(Packet)
  BY <1>6, <1>10
<1>. HIDE DEF link, e
<1>15. LeafPackets(h) \o o = <<Tok("(")>> \o (<<Tok("type")>> \o (<<Tok(h.type)>> \o (mid \o e)))
  BY <1>12, <1>13, <1>14
<1>16. CASE h.type # "regular"
  <2>1. mid = link
    BY <1>16 DEF mid
  <2>2. link \o e = <<Tok("target")>> \o (<<Tok("to")>> \o e)
    BY <1>6, Keywords, MoreKeywords, Toks2 DEF link
  <2>. QED  BY <1>12, <1>15, <1>16, <2>1, <2>2 DEF e
<1>17. CASE h.type = "regular" /\ ~ h.exec
  <2>. HIDE DEF blob
  <2>1. mid = blob
    <3>1. mid = <<>> \o blob
      BY <1>17 DEF mid
    <3>. QED  BY <1>5, <3>1
  <2>. QED  BY <1>8, <1>12, <1>15, <1>17, <2>1 DEF e
<1>18. CASE h.type = "regular" /\ h.exec
  <2>. HIDE DEF blob, exec
  <2>1. mid = exec \o blob
    BY <1>18 DEF mid
  <2>. QED  BY <1>8, <1>9, <1>12, <1>15, <1>18, <2>1 DEF e
<1>. QED  BY <1>16, <1>17, <1>18

\* A regular file, or a symlink, is read as the one header it has.
LEMMA GoodLeaf ==
  ASSUME NEW h \in Header, h.type # "directory", ReadableHeader(h),
         NEW T, NEW o, NEW g, Good(T, o, g)
  PROVE  Good(<<Do("node", h.path)>> \o T, LeafPackets(h) \o o, <<h>> \o g)
<1>. DEFINE p == h.path
            k == <<h>> \o g
            e == <<Tok(")")>> \o o
            e1 == <<Tok("contents")>> \o (<<Blob(h.size)>> \o e)
            e2 == <<Tok("target")>> \o (<<Tok("to")>> \o e)
            e3 == <<Tok("executable")>> \o (<<Empty>> \o e1)
<1>1. T \in Seq(Instr) /\ o \in Seq(Packet)
  BY GoodType
<1>2. /\ p \in Seq(Strings) /\ h.type \in {"regular", "symlink"}
      /\ h.size \in Nat /\ h.exec \in BOOLEAN
      /\ h = HeaderOf(h.type, p, h.size, h.exec)
  BY HeaderIs DEF Types
<1>3. CASE h.type = "symlink"
  <2>1. h = HeaderOf("symlink", p, 0, FALSE)
    BY <1>2, <1>3 DEF ReadableHeader
  <2>. HIDE DEF p
  <2>2. Good(<<Do("label", p)>> \o T, <<Tok("symlink")>> \o e2, k)
    BY <1>2, <2>1, GoodSymlink
  <2>. HIDE DEF e2, k
  <2>3. Good(<<Do("node", p)>> \o T,
             <<Tok("(")>> \o (<<Tok("type")>> \o (<<Tok("symlink")>> \o e2)), k)
    BY <1>1, <1>2, <2>2, GoodNode
  <2>4. LeafPackets(h) \o o = <<Tok("(")>> \o (<<Tok("type")>> \o (<<Tok("symlink")>> \o e2))
    <3>1. LeafPackets(h) \o o = <<Tok("(")>> \o (<<Tok("type")>> \o (<<Tok(h.type)>> \o e2))
      BY <1>1, <1>3, LeafOnto, Zenon DEF e2
    <3>. QED  BY <1>3, <3>1
  <2>. QED  BY <2>3, <2>4 DEF p, k
<1>4. CASE h.type = "regular" /\ ~ h.exec
  <2>1. h = HeaderOf("regular", p, h.size, FALSE)
    BY <1>2, <1>4
  <2>. HIDE DEF p
  <2>2. Good(<<Do("regular", p)>> \o T, e1, k)
    <3>1. Do("regular", p) = With("regular", p, EmptyString, FALSE)
      BY DEF Do
    <3>. QED  BY <1>2, <2>1, <3>1, GoodContents
  <2>. HIDE DEF e1, k
  <2>3. Good(<<Do("label", p)>> \o T, <<Tok("regular")>> \o e1, k)
    BY <1>1, <1>2, <2>2, GoodRegular
  <2>4. Good(<<Do("node", p)>> \o T,
             <<Tok("(")>> \o (<<Tok("type")>> \o (<<Tok("regular")>> \o e1)), k)
    BY <1>1, <1>2, <2>3, GoodNode
  <2>5. LeafPackets(h) \o o = <<Tok("(")>> \o (<<Tok("type")>> \o (<<Tok("regular")>> \o e1))
    <3>1. LeafPackets(h) \o o = <<Tok("(")>> \o (<<Tok("type")>> \o (<<Tok(h.type)>> \o e1))
      BY <1>1, <1>4, LeafOnto, Zenon DEF e1
    <3>. QED  BY <1>4, <3>1
  <2>. QED  BY <2>4, <2>5 DEF p, k
<1>5. CASE h.type = "regular" /\ h.exec
  <2>1. h = HeaderOf("regular", p, h.size, TRUE)
    BY <1>2, <1>5
  <2>. HIDE DEF p
  <2>2. Good(<<Do("regular", p)>> \o T, e3, k)
    BY <1>2, <2>1, GoodExecutable
  <2>. HIDE DEF e3, k
  <2>3. Good(<<Do("label", p)>> \o T, <<Tok("regular")>> \o e3, k)
    BY <1>1, <1>2, <2>2, GoodRegular
  <2>4. Good(<<Do("node", p)>> \o T,
             <<Tok("(")>> \o (<<Tok("type")>> \o (<<Tok("regular")>> \o e3)), k)
    BY <1>1, <1>2, <2>3, GoodNode
  <2>5. LeafPackets(h) \o o = <<Tok("(")>> \o (<<Tok("type")>> \o (<<Tok("regular")>> \o e3))
    <3>1. LeafPackets(h) \o o = <<Tok("(")>> \o (<<Tok("type")>> \o (<<Tok(h.type)>> \o e3))
      BY <1>1, <1>5, LeafOnto, Zenon DEF e3
    <3>. QED  BY <1>5, <3>1
  <2>. QED  BY <2>4, <2>5 DEF p, k
<1>. QED  BY <1>2, <1>3, <1>4, <1>5

-----------------------------------------------------------------------------
(* Every archive is read: rule induction.                                  *)

InOrder(hs) == \A i \in 1 .. Len(hs) - 1 : TreeLeq(hs[i].path, hs[i + 1].path)

\* With the node in front of it, what was good for the instructions behind
\* the node (for the loop over its entries, if it is open) is good for the
\* call of parseNode.
Lifts(k, hs, o) ==
  \A T \in Seq(Instr) : \A e, g :
    Good(IF k = "node" THEN T ELSE <<Do("entries", hs[1].path)>> \o T, e, g)
      => Good(<<Do("node", hs[1].path)>> \o T, o \o e, hs \o g)

ReadNodes ==
  {x \in {"node", "open"} \X Seq(Header) \X Seq(Packet) :
     /\ x[2] # <<>> /\ InOrder(x[2])
     /\ Readable(x[2]) => Lifts(x[1], x[2], x[3])}

LEMMA ReadNode ==
  ASSUME NEW k \in {"node", "open"}, NEW hs \in Seq(Header), NEW o \in Seq(Packet)
  PROVE  <<k, hs, o>> \in ReadNodes <=>
           hs # <<>> /\ InOrder(hs) /\ (Readable(hs) => Lifts(k, hs, o))
BY DEF ReadNodes

LEMMA SingleHeader ==
  ASSUME NEW h \in Header
  PROVE  /\ <<h>> \in Seq(Header) /\ <<h>> # <<>> /\ <<h>>[1] = h
         /\ InOrder(<<h>>) /\ (Readable(<<h>>) <=> ReadableHeader(h))
<1>1. /\ <<h>> \in Seq(Header) /\ <<h>> # <<>> /\ <<h>>[1] = h
      /\ 1 .. Len(<<h>>) - 1 = {} /\ 1 .. Len(<<h>>) = {1}
  OBVIOUS
<1>. QED  BY <1>1 DEF InOrder, Readable

\* The headers of a directory with one more entry.
LEMMA JoinHeaders ==
  ASSUME NEW hs \in Seq(Header), hs # <<>>, NEW es \in Seq(Header), es # <<>>
  PROVE  /\ hs \o es \in Seq(Header) /\ hs \o es # <<>> /\ (hs \o es)[1] = hs[1]
         /\ InOrder(hs) /\ InOrder(es) /\ TreeLeq(LastOf(hs), es[1].path) => InOrder(hs \o es)
         /\ Readable(hs \o es) => Readable(hs) /\ Readable(es)
<1>. DEFINE c == hs \o es
            n == Len(hs)
<1>1. /\ c \in Seq(Header) /\ n \in Nat \ {0} /\ Len(es) \in Nat \ {0} /\ Len(c) = n + Len(es)
      /\ (\A i \in 1 .. n : c[i] = hs[i]) /\ (\A i \in 1 .. Len(es) : c[n + i] = es[i])
  <2>1. c \in Seq(Header) /\ Len(c) = n + Len(es)
    OBVIOUS
  <2>2. n \in Nat \ {0} /\ Len(es) \in Nat \ {0}
    OBVIOUS
  <2>3. \A i \in 1 .. n : c[i] = hs[i]
    OBVIOUS
  <2>4. \A i \in 1 .. Len(es) : c[n + i] = es[i]
    BY <2>2
  <2>. QED  BY <2>1, <2>2, <2>3, <2>4
<1>. HIDE DEF c
<1>2. c[1] = hs[1] /\ c # <<>>
  <2>1. 1 \in 1 .. n
    BY <1>1
  <2>. QED  BY <1>1, <2>1
<1>3. ASSUME InOrder(hs), InOrder(es), TreeLeq(LastOf(hs), es[1].path), NEW i \in 1 .. Len(c) - 1
      PROVE  TreeLeq(c[i].path, c[i + 1].path)
  <2>1. CASE i < n
    <3>1. i \in 1 .. n - 1 /\ i \in 1 .. n /\ i + 1 \in 1 .. n
      BY <1>1, <2>1
    <3>. QED  BY <1>1, <1>3, <3>1 DEF InOrder
  <2>2. CASE i = n
    <3>1. n \in 1 .. n /\ 1 \in 1 .. Len(es)
      BY <1>1
    <3>. QED  BY <1>1, <1>3, <2>2, <3>1 DEF LastOf
  <2>3. CASE i > n
    <3>1. /\ i - n \in 1 .. Len(es) - 1 /\ i - n \in 1 .. Len(es)
          /\ (i - n) + 1 \in 1 .. Len(es)
          /\ n + (i - n) = i /\ n + ((i - n) + 1) = i + 1
      BY <1>1, <2>3
    <3>2. c[n + (i - n)] = es[i - n] /\ c[n + ((i - n) + 1)] = es[(i - n) + 1]
      BY <1>1, <3>1
    <3>3. c[i] = es[i - n] /\ c[i + 1] = es[(i - n) + 1]
      BY <3>1, <3>2
    <3>. QED  BY <1>3, <3>1, <3>3 DEF InOrder
  <2>. QED  BY <1>1, <2>1, <2>2, <2>3
<1>4. ASSUME Readable(c) PROVE Readable(hs) /\ Readable(es)
  <2>1. \A i \in 1 .. n : i \in 1 .. Len(c)
    BY <1>1
  <2>2. \A i \in 1 .. Len(es) : n + i \in 1 .. Len(c)
    BY <1>1
  <2>3. Readable(hs)
    BY <1>1, <1>4, <2>1 DEF Readable
  <2>4. Readable(es)
    BY <1>1, <1>4, <2>2 DEF Readable
  <2>. QED  BY <2>3, <2>4
<1>. QED  BY <1>1, <1>2, <1>3, <1>4 DEF c, InOrder

LEMMA LeafLifts ==
  ASSUME NEW h \in Header, h.type # "directory", ReadableHeader(h)
  PROVE  Lifts("node", <<h>>, LeafPackets(h))
<1>1. <<h>>[1] = h
  OBVIOUS
<1>2. ASSUME NEW T \in Seq(Instr), NEW e, NEW g, Good(T, e, g)
      PROVE  Good(<<Do("node", h.path)>> \o T, LeafPackets(h) \o e, <<h>> \o g)
  BY <1>2, GoodLeaf
<1>. QED  BY <1>1, <1>2 DEF Lifts

LEMMA OpenLifts ==
  ASSUME NEW h \in Header, h.type = "directory", ReadableHeader(h)
  PROVE  Lifts("open", <<h>>, Toks(<<"(", "type", "directory">>))
<1>. DEFINE p == h.path
<1>1. <<h>>[1] = h /\ p \in Seq(Strings) /\ h = HeaderOf("directory", p, 0, FALSE)
  BY HeaderIs DEF ReadableHeader
<1>2. ASSUME NEW T \in Seq(Instr), NEW e, NEW g, Good(<<Do("entries", p)>> \o T, e, g)
      PROVE  Good(<<Do("node", p)>> \o T, Toks(<<"(", "type", "directory">>) \o e, <<h>> \o g)
  <2>. HIDE DEF p
  <2>1. Good(<<Do("label", p)>> \o T, <<Tok("directory")>> \o e, <<h>> \o g)
    BY <1>1, <1>2, GoodDirectory
  <2>2. Good(<<Do("node", p)>> \o T,
             <<Tok("(")>> \o (<<Tok("type")>> \o (<<Tok("directory")>> \o e)), <<h>> \o g)
    BY <1>1, <2>1, GoodNode
  <2>3. e \in Seq(Packet)
    BY <1>2, GoodType
  <2>4. Toks(<<"(", "type", "directory">>) \o e =
          <<Tok("(")>> \o (<<Tok("type")>> \o (<<Tok("directory")>> \o e))
    <3>1. "(" \in Strings /\ "type" \in Strings /\ "directory" \in Strings
      BY Keywords, MoreKeywords
    <3>. QED  BY <2>3, <3>1, Toks3
  <2>. QED  BY <2>2, <2>4
<1>. QED  BY <1>1, <1>2 DEF Lifts

LEMMA CloseLifts ==
  ASSUME NEW hs \in Seq(Header), hs # <<>>, NEW o \in Seq(Packet), Lifts("open", hs, o)
  PROVE  Lifts("node", hs, o \o Toks(<<")">>))
<1>. DEFINE p == hs[1].path
            end == Toks(<<")">>)
<1>1. p \in Seq(Strings)
  <2>1. hs[1] \in Header
    OBVIOUS
  <2>. QED  BY <2>1, HeaderIs
<1>2. end = <<Tok(")")>> /\ end \in Seq(Packet)
  BY Keywords, Toks1
<1>3. ASSUME NEW T \in Seq(Instr), NEW e, NEW g, Good(T, e, g)
      PROVE  Good(<<Do("node", p)>> \o T, (o \o end) \o e, hs \o g)
  <2>1. Good(<<Do("entries", p)>> \o T, <<Tok(")")>> \o e, g)
    BY <1>1, <1>3, GoodParen
  <2>2. Good(<<Do("node", p)>> \o T, o \o (<<Tok(")")>> \o e), hs \o g)
    BY <2>1 DEF Lifts
  <2>3. e \in Seq(Packet)
    BY <1>3, GoodType
  <2>. HIDE DEF end, p
  <2>4. (o \o end) \o e = o \o (end \o e)
    BY <1>2, <2>3, ConcatAssociative
  <2>. QED  BY <1>2, <2>2, <2>4
<1>. QED  BY <1>3 DEF Lifts

LEMMA PacketsJoin ==
  ASSUME NEW a \in Seq(Packet), NEW b \in Seq(Packet), NEW c \in Seq(Packet)
  PROVE  (a \o b) \o c = a \o (b \o c)
BY ConcatAssociative

LEMMA EntryLifts ==
  ASSUME NEW hs \in Seq(Header), hs # <<>>, NEW es \in Seq(Header), es # <<>>,
         NEW o \in Seq(Packet), NEW e \in Seq(Packet), EntryOf(hs, es[1]),
         ReadableHeader(es[1]), Lifts("open", hs, o), Lifts("node", es, e)
  PROVE  /\ o \o Intro(es[1]) \o e \o Toks(<<")">>) \in Seq(Packet)
         /\ Lifts("open", hs \o es, o \o Intro(es[1]) \o e \o Toks(<<")">>))
<1>. DEFINE p == hs[1].path
            q == es[1].path
            intro == Intro(es[1])
            end == Toks(<<")">>)
            oi == o \o intro
            oie == oi \o e
<1>1. hs[1] \in Header /\ es[1] \in Header /\ (hs \o es)[1] = hs[1]
  OBVIOUS
<1>2. p \in Seq(Strings) /\ q \in Seq(Strings)
  BY <1>1, HeaderIs
<1>3. PICK n \in Strings : q = Append(p, n)
  BY DEF EntryOf
<1>4. q[Len(q)] = n /\ Len(q) \in 1 .. Len(q)
  BY <1>2, <1>3
<1>5. ReadableName(n) /\ n # ")"
  BY <1>4 DEF ReadableHeader, ReadableName
<1>6. intro = Toks(<<"entry", "(", "name", n, "node">>)
  BY <1>4 DEF Intro
<1>7. intro \in Seq(Packet)
  <2>1. <<>> \in Seq(Packet)
    OBVIOUS
  <2>. QED  BY <1>6, <2>1, IntroOnto
<1>8. end = <<Tok(")")>> /\ end \in Seq(Packet)
  BY Keywords, Toks1
<1>. HIDE DEF intro, end
<1>9. oi \in Seq(Packet)
  BY <1>7
<1>. HIDE DEF oi
<1>10. oie \in Seq(Packet)
  BY <1>9
<1>. HIDE DEF oie
<1>11. oie \o end \in Seq(Packet)
  BY <1>8, <1>10
<1>12. ASSUME NEW T \in Seq(Instr), NEW f, NEW g, Good(<<Do("entries", p)>> \o T, f, g)
       PROVE  Good(<<Do("node", p)>> \o T, (oie \o end) \o f, (hs \o es) \o g)
  <2>. DEFINE c == With("entryEnd", p, n, FALSE)
              T1 == <<c>> \o T
              T2 == <<Lit(")")>> \o T1
              f1 == <<Tok(")")>> \o f
              f2 == e \o f1
              g1 == es \o g
  <2>1. f \in Seq(Packet) /\ g \in Seq(Header)
    BY <1>12, GoodType
  <2>2. Good(T1, f, g)
    BY <1>2, <1>5, <1>12, GoodEntryEnd
  <2>3. Good(T2, f1, g)
    BY <2>2, Keywords, GoodLit
  <2>4. T2 \in Seq(Instr) /\ f1 \in Seq(Packet)
    BY <2>3, GoodType
  <2>5. f1 = end \o f
    BY <1>8
  <2>. HIDE DEF f1
  <2>6. Good(<<Do("node", q)>> \o T2, f2, g1)
    <3>. HIDE DEF T2, q
    <3>. QED  BY <2>3, <2>4 DEF Lifts, q
  <2>7. f2 \in Seq(Packet) /\ g1 \in Seq(Header)
    BY <2>6, GoodType
  <2>8. Good(<<Do("entries", p)>> \o T, intro \o f2, g1)
    <3>. HIDE DEF f2, g1, p, q
    <3>1. Good(<<Do("node", Append(p, n))>> \o (<<Lit(")")>> \o (<<c>> \o T)), f2, g1)
      BY <1>3, <2>6
    <3>2. intro \o f2 = <<Tok("entry")>> \o (<<Tok("(")>> \o (<<Tok("name")>> \o
                           (<<Tok(n)>> \o (<<Tok("node")>> \o f2))))
      BY <1>6, <2>7, IntroOnto
    <3>. QED  BY <1>2, <1>5, <3>1, <3>2, GoodEntry
  <2>9. Good(<<Do("node", p)>> \o T, o \o (intro \o f2), hs \o g1)
    BY <2>8 DEF Lifts
  <2>10. hs \o g1 = (hs \o es) \o g
    BY <2>1, ConcatAssociative
  <2>11. o \o (intro \o f2) = oi \o f2
    <3>. HIDE DEF f2
    <3>1. intro \in Seq(Packet) /\ f2 \in Seq(Packet)
      BY <1>7, <2>7
    <3>. QED  BY <3>1, PacketsJoin DEF oi
  <2>12. oi \o f2 = oie \o f1
    <3>1. oi \in Seq(Packet) /\ f1 \in Seq(Packet)
      BY <1>9, <2>4
    <3>. QED  BY <3>1, PacketsJoin DEF oie
  <2>13. oie \o (end \o f) = (oie \o end) \o f
    <3>1. oie \in Seq(Packet) /\ end \in Seq(Packet) /\ f \in Seq(Packet)
      BY <1>8, <1>10, <2>1
    <3>. QED  BY <3>1, PacketsJoin
  <2>. HIDE DEF f2, g1, p
  <2>. QED  BY <2>5, <2>9, <2>10, <2>11, <2>12, <2>13
<1>13. Lifts("open", hs \o es, oie \o end)
  BY <1>1, <1>12 DEF Lifts
<1>. QED  BY <1>11, <1>13 DEF oie, oi, intro, end

LEMMA ReadGrammar == Grammar(ReadNodes)
<1>1. ASSUME NEW h \in Header, h.type # "directory"
      PROVE  <<"node", <<h>>, LeafPackets(h)>> \in ReadNodes
  <2>1. LeafPackets(h) \in Seq(Packet)
    <3>1. <<>> \in Seq(Packet)
      OBVIOUS
    <3>. QED  BY <3>1, LeafOnto
  <2>. QED  BY <1>1, <2>1, SingleHeader, LeafLifts, ReadNode
<1>2. ASSUME NEW h \in Header, h.type = "directory"
      PROVE  <<"open", <<h>>, Toks(<<"(", "type", "directory">>)>> \in ReadNodes
  <2>1. <<"(", "type", "directory">> \in Seq(Strings)
    BY Keywords, MoreKeywords
  <2>. DEFINE t == Toks(<<"(", "type", "directory">>)
  <2>2. t \in Seq(Packet)
    BY <2>1, ToksType
  <2>3. ReadableHeader(h) => Lifts("open", <<h>>, t)
    BY <1>2, OpenLifts
  <2>4. /\ <<h>> \in Seq(Header) /\ <<h>> # <<>>
        /\ InOrder(<<h>>) /\ (Readable(<<h>>) <=> ReadableHeader(h))
    BY SingleHeader
  <2>. HIDE DEF t
  <2>5. <<"open", <<h>>, t>> \in ReadNodes
    BY <2>2, <2>3, <2>4, ReadNode
  <2>. QED  BY <2>5 DEF t
<1>3. ASSUME NEW hs \in Seq(Header), NEW es \in Seq(Header),
             NEW o \in Seq(Packet), NEW e \in Seq(Packet),
             <<"open", hs, o>> \in ReadNodes, <<"node", es, e>> \in ReadNodes,
             EntryOf(hs, es[1])
      PROVE  <<"open", hs \o es, o \o Intro(es[1]) \o e \o Toks(<<")">>)>> \in ReadNodes
  <2>. DEFINE c == hs \o es
              t == o \o Intro(es[1]) \o e \o Toks(<<")">>)
  <2>1. /\ hs # <<>> /\ InOrder(hs) /\ (Readable(hs) => Lifts("open", hs, o))
        /\ es # <<>> /\ InOrder(es) /\ (Readable(es) => Lifts("node", es, e))
    BY <1>3, ReadNode
  <2>2. /\ c \in Seq(Header) /\ c # <<>> /\ InOrder(c)
        /\ Readable(c) => Readable(hs) /\ Readable(es)
    BY <1>3, <2>1, JoinHeaders DEF EntryOf
  <2>3. t \in Seq(Packet) /\ (Readable(c) => Lifts("open", c, t))
    <3>1. es[1] \in Header /\ (Readable(es) => ReadableHeader(es[1]))
      <4>1. 1 \in 1 .. Len(es)
        BY <2>1
      <4>. QED  BY <4>1 DEF Readable
    <3>2. t \in Seq(Packet)
      <4>1. es[1].path \in Seq(Strings) /\ hs[1] \in Header
        BY <2>1, <3>1, HeaderIs
      <4>2. PICK n \in Strings : es[1].path = Append(hs[1].path, n)
        BY <1>3 DEF EntryOf
      <4>3. hs[1].path \in Seq(Strings)
        BY <4>1, HeaderIs
      <4>4. es[1].path[Len(es[1].path)] \in Strings
        BY <4>2, <4>3
      <4>5. <<"entry", "(", "name", es[1].path[Len(es[1].path)], "node">> \in Seq(Strings)
        BY <4>4, Keywords
      <4>. DEFINE i == Intro(es[1])
                  z == Toks(<<")">>)
                  oi == o \o i
                  oie == oi \o e
      <4>6. i \in Seq(Packet)
        BY <4>5, ToksType DEF Intro
      <4>7. z \in Seq(Packet)
        BY Keywords, Toks1
      <4>. HIDE DEF i, z
      <4>8. oi \in Seq(Packet)
        BY <4>6
      <4>. HIDE DEF oi
      <4>9. oie \in Seq(Packet)
        BY <4>8
      <4>. HIDE DEF oie
      <4>10. oie \o z \in Seq(Packet)
        BY <4>7, <4>9
      <4>. QED  BY <4>10 DEF oie, oi, i, z
    <3>3. Readable(c) => Lifts("open", c, t)
      BY <1>3, <2>1, <2>2, <3>1, EntryLifts
    <3>. QED  BY <3>2, <3>3
  <2>. HIDE DEF c, t
  <2>4. <<"open", c, t>> \in ReadNodes
    BY <2>2, <2>3, ReadNode
  <2>. QED  BY <2>4 DEF c, t
<1>4. ASSUME NEW hs \in Seq(Header), NEW o \in Seq(Packet), <<"open", hs, o>> \in ReadNodes
      PROVE  <<"node", hs, o \o Toks(<<")">>)>> \in ReadNodes
  <2>. DEFINE t == o \o Toks(<<")">>)
  <2>1. hs # <<>> /\ InOrder(hs) /\ (Readable(hs) => Lifts("open", hs, o))
    BY <1>4, ReadNode
  <2>2. t \in Seq(Packet)
    <3>1. Toks(<<")">>) \in Seq(Packet)
      BY Keywords, Toks1
    <3>. QED  BY <3>1
  <2>3. Readable(hs) => Lifts("node", hs, t)
    BY <2>1, CloseLifts
  <2>. HIDE DEF t
  <2>4. <<"node", hs, t>> \in ReadNodes
    BY <2>1, <2>2, <2>3, ReadNode
  <2>. QED  BY <2>4 DEF t
<1>5. \A k, hs, o : <<k, hs, o>> \in ReadNodes => hs \in Seq(Header) /\ o \in Seq(Packet)
  BY DEF ReadNodes
<1>. QED  BY <1>1, <1>2, <1>3, <1>4, <1>5 DEF Grammar

\* The archive of a tree is what the parser expects from its first call on,
\* and its headers are in the order Next checks.
LEMMA ArchiveIsGood ==
  ASSUME NEW hs, NEW o, ArchiveOf(hs, o)
  PROVE  /\ hs \in Seq(Header) /\ hs # <<>> /\ InOrder(hs)
         /\ Good(<<Do("node", <<>>)>>, o, hs)
<1>1. <<"node", hs, o>> \in ReadNodes /\ hs[1].path = <<>> /\ Readable(hs)
  BY ReadGrammar DEF ArchiveOf, IsArchive
<1>2. hs \in Seq(Header) /\ o \in Seq(Packet)
  BY <1>1 DEF ReadNodes
<1>3. hs # <<>> /\ InOrder(hs) /\ Lifts("node", hs, o)
  BY <1>1, <1>2, ReadNode
<1>4. <<>> \in Seq(Instr)
  OBVIOUS
<1>5. Good(<<Do("node", <<>>)>> \o <<>>, o \o <<>>, hs \o <<>>)
  BY <1>1, <1>3, <1>4, GoodEnd DEF Lifts
<1>6. /\ <<Do("node", <<>>)>> \o <<>> = <<Do("node", <<>>)>>
      /\ o \o <<>> = o /\ hs \o <<>> = hs
  <2>1. <<>> \in Seq(Strings)
    OBVIOUS
  <2>2. "node" \in Ops
    BY OpsAre
  <2>3. Do("node", <<>>) \in Instr
    BY <2>1, <2>2, DoType
  <2>. QED  BY <1>2, <2>3
<1>. QED  BY <1>2, <1>3, <1>5, <1>6

-----------------------------------------------------------------------------
(* The Reader on the archive of a tree.                                    *)

\* What nr.r has not handed out.
Ahead == SubSeq(stream, pos, Len(stream))

\* On an archive with the headers hs, of which d have been delivered: what a
\* parser at ppc = at, with the stack T, has before it is good.
Reading(hs, d, at, T, m, o, within) ==
  /\ at = "start" => d = <<>> /\ ~ within /\ Good(<<Do("node", <<>>)>>, o, hs)
  /\ at \in {"run", "await"} => \E g : hs = d \o g /\ Good(T, o, g)
  /\ at = "offer" => \E g : hs = d \o (<<m.hdr>> \o g) /\ Good(T, o, g)
  /\ at = "fail" => m.err = "EOF" /\ d = hs
  /\ within => T # <<>> /\ Head(T).op = "seek"

\* On the archive of a tree, Next returns the headers of the tree one after
\* the other, and io.EOF when it has returned them all; no other error.
TreeIsRead ==
  \A hs : ArchiveOf(hs, stream) =>
    /\ \E g : hs = delivered \o g
    /\ fuse \in {"none", "EOF"}
    /\ fuse = "EOF" => delivered = hs

ReadInv ==
  /\ TreeIsRead
  /\ \A hs : ArchiveOf(hs, stream) /\ ~ closed =>
       Reading(hs, delivered, ppc, todo, msg, Ahead, inside)

LEMMA AheadIs ==
  ASSUME TypeOK
  PROVE  /\ Ahead \in Seq(Packet)
         /\ Ahead # <<>> =>
              /\ pos \in 1 .. Len(stream) /\ Ahead[1] = stream[pos]
              /\ SubSeq(stream, pos + 1, Len(stream)) = Tail(Ahead)
<1>1. stream \in Seq(Packet) /\ pos \in Nat \ {0} /\ Len(stream) \in Nat
  BY DEF TypeOK
<1>2. /\ \A i \in pos .. Len(stream) : stream[i] \in Packet
      /\ \A i \in pos + 1 .. Len(stream) : stream[i] \in Packet
  BY <1>1
<1>3. /\ Ahead \in Seq(Packet)
      /\ Len(Ahead) = IF pos <= Len(stream) THEN Len(stream) - pos + 1 ELSE 0
      /\ \A i \in 1 .. Len(stream) - pos + 1 : Ahead[i] = stream[pos + i - 1]
  BY <1>1, <1>2, SubSeqProperties DEF Ahead
<1>. DEFINE t == SubSeq(stream, pos + 1, Len(stream))
<1>4. /\ t \in Seq(Packet)
      /\ Len(t) = IF pos + 1 <= Len(stream) THEN Len(stream) - (pos + 1) + 1 ELSE 0
      /\ \A i \in 1 .. Len(stream) - (pos + 1) + 1 : t[i] = stream[(pos + 1) + i - 1]
  BY <1>1, <1>2, SubSeqProperties
<1>5. ASSUME Ahead # <<>>
      PROVE  pos \in 1 .. Len(stream) /\ Ahead[1] = stream[pos] /\ t = Tail(Ahead)
  <2>1. pos \in 1 .. Len(stream) /\ Len(Ahead) = Len(stream) - pos + 1
    BY <1>1, <1>3, <1>5
  <2>2. Ahead[1] = stream[pos]
    BY <1>1, <1>3, <2>1
  <2>3. /\ Tail(Ahead) \in Seq(Packet) /\ Len(Tail(Ahead)) = Len(Ahead) - 1
        /\ \A i \in 1 .. Len(Ahead) - 1 : Tail(Ahead)[i] = Ahead[i + 1]
    BY <1>3, <1>5
  <2>. HIDE DEF t
  <2>4. Len(t) = Len(Ahead) - 1
    BY <1>1, <1>4, <2>1
  <2>5. \A i \in 1 .. Len(t) : t[i] = Tail(Ahead)[i]
    BY <1>1, <1>3, <1>4, <2>1, <2>3, <2>4
  <2>6. t = Tail(Ahead)
    BY <1>4, <2>3, <2>4, <2>5, SeqEqual
  <2>. QED  BY <2>1, <2>2, <2>6
<1>. QED  BY <1>3, <1>5

\* A packet that is whole and short enough is read.
LEMMA ReadsPacket ==
  ASSUME TypeOK, ~ inside, Ahead # <<>>, Ahead[1].have = "full",
         NEW m \in Nat, Len(Bytes[Ahead[1].str]) <= m, NEW o \in ReadString(m), Read1(o)
  PROVE  /\ o.err = "none" /\ o.tok = Ahead[1].str
         /\ Ahead' = Tail(Ahead) /\ inside' = FALSE
<1>1. pos \in 1 .. Len(stream) /\ Ahead[1] = stream[pos] /\ Len(stream) \in Nat
  BY AheadIs DEF TypeOK
<1>2. o = Got(Ahead[1].str)
  <2>1. Ahead[1] \in Packet
    BY AheadIs
  <2>2. Ahead[1].str \in Strings
    BY <2>1 DEF Packet
  <2>3. Len(Bytes[Ahead[1].str]) \in Nat
    BY <2>2, TextOf DEF Text
  <2>4. ~ (pos > Len(stream)) /\ ~ (Len(Bytes[stream[pos].str]) > m) /\ stream[pos].have = "full"
    BY <1>1, <2>3
  <2>5. ReadString(m) = {Got(stream[pos].str)}
    BY <2>4, SMTT(30) DEF ReadString
  <2>. QED  BY <1>1, <2>5
<1>3. pos' = pos + 1 /\ stream' = stream /\ inside' = FALSE
  BY <1>2 DEF Got, Read1
<1>. QED  BY <1>2, <1>3, AheadIs DEF Got, Ahead

LEMMA GoesOn ==
  ASSUME NEW hs, NEW d, NEW m, NEW T, NEW o, NEW g, hs = d \o g, Good(T, o, g)
  PROVE  Reading(hs, d, "run", T, m, o, FALSE)
BY DEF Reading

\* What is left of the headers, when the next one has been taken from them.
LEMMA ListsFirst ==
  ASSUME NEW g \in Seq(Header), NEW h, Lists(g, h)
  PROVE  g = <<h>> \o Tail(g)
BY DEF Lists

LEMMA OffersOn ==
  ASSUME NEW hs, NEW d, NEW m, NEW T, NEW o, NEW g \in Seq(Header),
         hs = d \o g, Lists(g, m.hdr), Good(T, o, Tail(g)), NEW within \in BOOLEAN,
         within => T # <<>> /\ Head(T).op = "seek"
  PROVE  Reading(hs, d, "offer", T, m, o, within)
<1>1. hs = d \o (<<m.hdr>> \o Tail(g))
  BY ListsFirst
<1>. QED  BY <1>1 DEF Reading

\* The instruction that runs finds what it expects.
LEMMA Instruction ==
  ASSUME IInv, NEW hs, Reading(hs, delivered, ppc, todo, msg, Ahead, inside),
         NEW op, Running(op)
  PROVE  /\ TypeOK /\ todo # <<>> /\ Head(todo).op = op
         /\ inside => op = "seek"
         /\ \E g : /\ hs = delivered \o g /\ g \in Seq(Header)
                   /\ \E V, e, k : /\ Leads(Head(todo), Tail(todo), Ahead, g, <<V, e, k>>)
                                   /\ Good(V, e, k)
<1>1. TypeOK /\ ppc = "run" /\ todo # <<>> /\ Head(todo).op = op
  BY DEF IInv, Running
<1>2. PICK g : hs = delivered \o g /\ Good(todo, Ahead, g)
  BY <1>1 DEF Reading
<1>3. g \in Seq(Header)
  BY <1>2, GoodType
<1>4. \E V, e, k : Leads(Head(todo), Tail(todo), Ahead, g, <<V, e, k>>) /\ Good(V, e, k)
  BY <1>1, <1>2, GoodStep
<1>. QED  BY <1>1, <1>2, <1>3, <1>4 DEF Reading

LEMMA BufferSizes ==
  /\ tokenLenMax \in Nat /\ nameLenMax = 255 /\ pathLenMax \in Nat
  /\ \A s \in Strings : Len(Bytes[s]) \in Nat
<1>1. \A s \in Strings : Len(Bytes[s]) \in Nat
  BY TextOf DEF Text
<1>. QED  BY <1>1 DEF tokenLenMax, nameLenMax, pathLenMax

LEMMA ParseNodeReads ==
  ASSUME IInv, NEW hs, Reading(hs, delivered, ppc, todo, msg, Ahead, inside), ParseNode
  PROVE  Reading(hs, delivered, ppc', todo', msg', Ahead', inside')
<1>1. Running("node")
  BY DEF ParseNode
<1>2. /\ todo # <<>> /\ Head(todo).op = "node" /\ ~ inside
  BY <1>1, Instruction
<1>3. PICK g, V, e, k : /\ hs = delivered \o g /\ Good(V, e, k)
                        /\ Leads(Head(todo), Tail(todo), Ahead, g, <<V, e, k>>)
  BY <1>1, Instruction
<1>4. V = <<Lit("("), Lit("type"), Do("label", Head(todo).path)>> \o Tail(todo) /\ e = Ahead /\ k = g
  BY <1>2, <1>3 DEF Leads
<1>5. ppc' = "run" /\ todo' = V /\ Ahead' = Ahead /\ inside' = FALSE
  BY <1>2, <1>4 DEF ParseNode, Continue, Ahead, input, IInv, TypeOK
<1>. QED  BY <1>2, <1>3, <1>4, <1>5, GoesOn

LEMMA ExpectStringReads ==
  ASSUME IInv, NEW hs, Reading(hs, delivered, ppc, todo, msg, Ahead, inside), ExpectString
  PROVE  Reading(hs, delivered, ppc', todo', msg', Ahead', inside')
<1>. DEFINE t == Head(todo).tok
<1>1. Running("lit")
  BY DEF ExpectString
<1>2. TypeOK /\ todo # <<>> /\ Head(todo).op = "lit" /\ ~ inside
  BY <1>1, Instruction
<1>3. PICK g, V, e, k : /\ hs = delivered \o g /\ Good(V, e, k)
                        /\ Leads(Head(todo), Tail(todo), Ahead, g, <<V, e, k>>)
  BY <1>1, Instruction
<1>4. Reads(Ahead, t) /\ V = Tail(todo) /\ e = Tail(Ahead) /\ k = g
  BY <1>2, <1>3 DEF Leads
<1>5. t \in Strings /\ Len(Bytes[t]) \in Nat
  BY <1>1, RunningState, BufferSizes
<1>6. PICK o \in ReadString(Len(Bytes[t])) :
        Read1(o) /\ (IF o.err = "none" /\ o.tok = t THEN Continue(<<>>) ELSE Fail("error"))
  BY DEF ExpectString
<1>7. o.err = "none" /\ o.tok = t /\ Ahead' = Tail(Ahead) /\ inside' = FALSE
  <2>1. Ahead # <<>> /\ Ahead[1].have = "full" /\ Ahead[1].str = t
    BY <1>4 DEF Reads
  <2>2. Len(Bytes[Ahead[1].str]) <= Len(Bytes[t])
    BY <1>5, <2>1
  <2>. HIDE DEF t
  <2>. QED  BY <1>2, <1>5, <1>6, <2>1, <2>2, ReadsPacket
<1>8. ppc' = "run" /\ todo' = <<>> \o Tail(todo)
  BY <1>6, <1>7 DEF Continue
<1>9. <<>> \o Tail(todo) = V
  BY <1>2, <1>4, StackType DEF TypeOK
<1>. QED  BY <1>3, <1>4, <1>7, <1>8, <1>9, GoesOn

LEMMA LabelReads ==
  ASSUME IInv, NEW hs, Reading(hs, delivered, ppc, todo, msg, Ahead, inside), Label
  PROVE  Reading(hs, delivered, ppc', todo', msg', Ahead', inside')
<1>. DEFINE p == Head(todo).path
            t == Ahead[1].str
<1>1. Running("label")
  BY DEF Label
<1>2. TypeOK /\ todo # <<>> /\ Head(todo).op = "label" /\ ~ inside
  BY <1>1, Instruction
<1>3. PICK g, V, e, k : /\ hs = delivered \o g /\ g \in Seq(Header) /\ Good(V, e, k)
                        /\ Leads(Head(todo), Tail(todo), Ahead, g, <<V, e, k>>)
  BY <1>1, Instruction
<1>4. /\ Reads(Ahead, t) /\ e = Tail(Ahead)
      /\ \/ t = "regular" /\ V = <<Do("regular", p)>> \o Tail(todo) /\ k = g
         \/ t = "symlink" /\ V = <<Lit("target"), Do("target", p)>> \o Tail(todo) /\ k = g
         \/ /\ t = "directory" /\ V = <<Do("entries", p)>> \o Tail(todo) /\ k = Tail(g)
            /\ Lists(g, HeaderOf("directory", p, 0, FALSE))
  BY <1>2, <1>3 DEF Leads, Reads
<1>5. t \in Types /\ Len(Bytes[t]) <= tokenLenMax
  <2>1. t \in Types
    BY <1>4 DEF Types
  <2>. HIDE DEF t
  <2>. QED  BY <2>1, KeywordsFit
<1>6. PICK o \in ReadString(tokenLenMax) :
        /\ Read1(o)
        /\ \/ /\ o.err = "none" /\ o.tok = "regular" /\ Continue(<<Do("regular", p)>>)
           \/ /\ o.err = "none" /\ o.tok = "symlink"
              /\ Continue(<<Lit("target"), Do("target", p)>>)
           \/ /\ o.err = "none" /\ o.tok = "directory"
              /\ Offer([NoHeader EXCEPT !.path = p], Do("entries", p))
           \/ o.err = "none" /\ o.tok = ")"
           \/ o.err = "none" /\ o.tok \notin {"regular", "symlink", "directory", ")"}
           \/ o.err # "none"
  BY DEF Label
<1>7. o.err = "none" /\ o.tok = t /\ Ahead' = Tail(Ahead) /\ inside' = FALSE
  BY <1>2, <1>4, <1>5, <1>6, BufferSizes, ReadsPacket DEF Reads
<1>8. CASE t = "regular"
  <2>1. V = <<Do("regular", p)>> \o Tail(todo) /\ k = g
    BY <1>4, <1>8
  <2>2. ppc' = "run" /\ todo' = V
    BY <1>6, <1>7, <1>8, <2>1 DEF Continue
  <2>. QED  BY <1>3, <1>4, <1>7, <2>1, <2>2, GoesOn
<1>9. CASE t = "symlink"
  <2>1. V = <<Lit("target"), Do("target", p)>> \o Tail(todo) /\ k = g
    BY <1>4, <1>9
  <2>2. ppc' = "run" /\ todo' = V
    BY <1>6, <1>7, <1>9, <2>1 DEF Continue
  <2>. QED  BY <1>3, <1>4, <1>7, <2>1, <2>2, GoesOn
<1>10. CASE t = "directory"
  <2>1. /\ V = <<Do("entries", p)>> \o Tail(todo) /\ k = Tail(g)
        /\ Lists(g, HeaderOf("directory", p, 0, FALSE))
    BY <1>4, <1>10
  <2>2. ppc' = "offer" /\ todo' = V /\ msg'.hdr = [NoHeader EXCEPT !.path = p]
    BY <1>6, <1>7, <1>10, <2>1 DEF Offer
  <2>3. msg'.hdr = HeaderOf("directory", p, 0, FALSE)
    BY <2>2 DEF NoHeader, HeaderOf
  <2>. QED  BY <1>3, <1>4, <1>7, <2>1, <2>2, <2>3, OffersOn
<1>. QED  BY <1>4, <1>8, <1>9, <1>10

LEMMA RegularTokenReads ==
  ASSUME IInv, NEW hs, Reading(hs, delivered, ppc, todo, msg, Ahead, inside), RegularToken
  PROVE  Reading(hs, delivered, ppc', todo', msg', Ahead', inside')
<1>. DEFINE i == Head(todo)
            t == Ahead[1].str
            m == IF i.exec THEN tokenLenMax ELSE Len(Bytes["executable"])
            c == <<With("contents", i.path, EmptyString, i.exec)>>
            again == <<Lit(EmptyString), With("regular", i.path, EmptyString, TRUE)>>
<1>1. Running("regular")
  BY DEF RegularToken
<1>2. TypeOK /\ todo # <<>> /\ i.op = "regular" /\ ~ inside
  BY <1>1, Instruction
<1>3. PICK g, V, e, k : /\ hs = delivered \o g /\ Good(V, e, k)
                        /\ Leads(i, Tail(todo), Ahead, g, <<V, e, k>>)
  BY <1>1, Instruction
<1>4. /\ Reads(Ahead, t) /\ e = Tail(Ahead) /\ k = g
      /\ \/ t = "contents" /\ V = c \o Tail(todo)
         \/ t = "executable" /\ ~ i.exec /\ V = again \o Tail(todo)
  BY <1>2, <1>3 DEF Leads, Reads
<1>5. m \in Nat /\ Len(Bytes[t]) <= m
  <2>1. /\ Len(Bytes["executable"]) \in Nat /\ tokenLenMax \in Nat
        /\ Len(Bytes["contents"]) \in Nat
    BY Keywords, MoreKeywords, BufferSizes
  <2>2. /\ Len(Bytes["contents"]) <= tokenLenMax
        /\ Len(Bytes["contents"]) <= Len(Bytes["executable"])
    BY KeywordsFit
  <2>. QED  BY <1>4, <2>1, <2>2
<1>6. PICK o \in ReadString(m) :
        /\ Read1(o)
        /\ \/ o.err = "none" /\ o.tok = "contents" /\ Continue(c)
           \/ o.err = "none" /\ o.tok = "executable" /\ ~ i.exec /\ Continue(again)
           \/ o.err = "none" /\ o.tok # "contents" /\ (o.tok = "executable" => i.exec)
           \/ o.err # "none"
  BY DEF RegularToken
<1>. HIDE DEF c, again, i, m
<1>7. o.err = "none" /\ o.tok = t /\ Ahead' = Tail(Ahead) /\ inside' = FALSE
  BY <1>2, <1>4, <1>5, <1>6, ReadsPacket DEF Reads
<1>8. ppc' = "run" /\ todo' = V
  BY <1>4, <1>6, <1>7 DEF Continue
<1>. QED  BY <1>3, <1>4, <1>7, <1>8, GoesOn

LEMMA ContentsReads ==
  ASSUME IInv, NEW hs, Reading(hs, delivered, ppc, todo, msg, Ahead, inside), Contents
  PROVE  Reading(hs, delivered, ppc', todo', msg', Ahead', inside')
<1>. DEFINE i == Head(todo)
            h == HeaderOf("regular", i.path, Ahead[1].size, i.exec)
<1>1. Running("contents")
  BY DEF Contents
<1>2. TypeOK /\ todo # <<>> /\ i.op = "contents" /\ ~ inside
  BY <1>1, Instruction
<1>3. PICK g, V, e, k : /\ hs = delivered \o g /\ g \in Seq(Header) /\ Good(V, e, k)
                        /\ Leads(i, Tail(todo), Ahead, g, <<V, e, k>>)
  BY <1>1, Instruction
<1>4. /\ Ahead # <<>> /\ Ahead[1].have = "full" /\ Lists(g, h)
      /\ V = <<Do("seek", i.path)>> \o Tail(todo) /\ e = Ahead /\ k = Tail(g)
  BY <1>2, <1>3 DEF Leads
<1>5. pos \in 1 .. Len(stream) /\ Ahead[1] = stream[pos]
  BY <1>2, <1>4, AheadIs
<1>6. /\ inside' = TRUE /\ stream' = stream /\ pos' = pos
      /\ Offer([path |-> i.path, type |-> "regular", size |-> stream[pos].size,
                exec |-> i.exec], Do("seek", i.path))
  <2>1. ~ (pos > Len(stream)) /\ stream[pos].have \notin {"length", "huge"}
    BY <1>2, <1>4, <1>5 DEF TypeOK
  <2>. QED  BY <2>1 DEF Contents
<1>7. Ahead' = Ahead /\ ppc' = "offer" /\ todo' = V /\ msg'.hdr = h
  BY <1>4, <1>5, <1>6 DEF Offer, Ahead, HeaderOf
<1>8. V # <<>> /\ Head(V).op = "seek"
  <2>1. i.path \in Seq(Strings) /\ Tail(todo) \in Seq(Instr) /\ "seek" \in Ops
    BY <1>1, <1>2, RunningState, StackType, OpsAre
  <2>2. Do("seek", i.path) \in Instr /\ Do("seek", i.path).op = "seek"
    BY <2>1, DoType
  <2>. QED  BY <1>4, <2>1, <2>2, OnTop
<1>. QED  BY <1>3, <1>4, <1>6, <1>7, <1>8, OffersOn

LEMMA SeekReads ==
  ASSUME IInv, NEW hs, Reading(hs, delivered, ppc, todo, msg, Ahead, inside), Seek
  PROVE  Reading(hs, delivered, ppc', todo', msg', Ahead', inside')
<1>. DEFINE p == Head(todo).path
<1>1. Running("seek")
  BY DEF Seek
<1>2. TypeOK /\ todo # <<>> /\ Head(todo).op = "seek"
  BY <1>1, Instruction
<1>3. PICK g, V, e, k : /\ hs = delivered \o g /\ Good(V, e, k)
                        /\ Leads(Head(todo), Tail(todo), Ahead, g, <<V, e, k>>)
  BY <1>1, Instruction
<1>4. /\ Ahead # <<>> /\ Ahead[1].have = "full"
      /\ V = <<Do("end", p)>> \o Tail(todo) /\ e = Tail(Ahead) /\ k = g
  BY <1>2, <1>3 DEF Leads
<1>5. /\ Ahead[1] = stream[pos] /\ SubSeq(stream, pos + 1, Len(stream)) = Tail(Ahead)
  BY <1>2, <1>4, AheadIs
<1>6. CloseContent(stream[pos]) = "none"
  BY <1>4, <1>5 DEF CloseContent
<1>7. ppc' = "run" /\ todo' = V /\ Ahead' = Tail(Ahead) /\ inside' = FALSE
  BY <1>4, <1>5, <1>6 DEF Seek, Continue, Ahead
<1>. QED  BY <1>3, <1>4, <1>7, GoesOn

LEMMA TargetReads ==
  ASSUME IInv, NEW hs, Reading(hs, delivered, ppc, todo, msg, Ahead, inside), Target
  PROVE  Reading(hs, delivered, ppc', todo', msg', Ahead', inside')
<1>. DEFINE p == Head(todo).path
            h == HeaderOf("symlink", p, 0, FALSE)
<1>1. Running("target")
  BY DEF Target
<1>2. TypeOK /\ todo # <<>> /\ Head(todo).op = "target" /\ ~ inside
  BY <1>1, Instruction
<1>3. PICK g, V, e, k : /\ hs = delivered \o g /\ g \in Seq(Header) /\ Good(V, e, k)
                        /\ Leads(Head(todo), Tail(todo), Ahead, g, <<V, e, k>>)
  BY <1>1, Instruction
<1>4. /\ Reads(Ahead, "to") /\ Lists(g, h)
      /\ V = <<Do("end", p)>> \o Tail(todo) /\ e = Tail(Ahead) /\ k = Tail(g)
  BY <1>2, <1>3 DEF Leads
<1>5. PICK o \in ReadString(pathLenMax) :
        /\ Read1(o)
        /\ o.err = "none" => Offer([NoHeader EXCEPT !.path = p, !.type = "symlink"], Do("end", p))
  BY DEF Target
<1>6. o.err = "none" /\ Ahead' = Tail(Ahead) /\ inside' = FALSE
  BY <1>2, <1>4, <1>5, BufferSizes, KeywordsFit, ReadsPacket DEF Reads
<1>7. ppc' = "offer" /\ todo' = V /\ msg'.hdr = [NoHeader EXCEPT !.path = p, !.type = "symlink"]
  BY <1>4, <1>5, <1>6 DEF Offer
<1>8. msg'.hdr = h
  BY <1>7 DEF NoHeader, HeaderOf
<1>. QED  BY <1>3, <1>4, <1>6, <1>7, <1>8, OffersOn

LEMMA EndNodeReads ==
  ASSUME IInv, NEW hs, Reading(hs, delivered, ppc, todo, msg, Ahead, inside), EndNode
  PROVE  Reading(hs, delivered, ppc', todo', msg', Ahead', inside')
<1>1. Running("end")
  BY DEF EndNode
<1>2. TypeOK /\ todo # <<>> /\ Head(todo).op = "end" /\ ~ inside
  BY <1>1, Instruction
<1>3. PICK g, V, e, k : /\ hs = delivered \o g /\ Good(V, e, k)
                        /\ Leads(Head(todo), Tail(todo), Ahead, g, <<V, e, k>>)
  BY <1>1, Instruction
<1>4. Reads(Ahead, ")") /\ V = Tail(todo) /\ e = Tail(Ahead) /\ k = g
  BY <1>2, <1>3 DEF Leads
<1>5. PICK o \in ReadString(tokenLenMax) :
        /\ Read1(o)
        /\ o.err = "none" /\ o.tok = ")" => Continue(<<>>)
  BY DEF EndNode
<1>6. o.err = "none" /\ o.tok = ")" /\ Ahead' = Tail(Ahead) /\ inside' = FALSE
  BY <1>2, <1>4, <1>5, BufferSizes, KeywordsFit, ReadsPacket DEF Reads
<1>7. ppc' = "run" /\ todo' = <<>> \o Tail(todo)
  BY <1>5, <1>6 DEF Continue
<1>8. <<>> \o Tail(todo) = V
  BY <1>2, <1>4, StackType DEF TypeOK
<1>. QED  BY <1>3, <1>4, <1>6, <1>7, <1>8, GoesOn

LEMMA EntriesReads ==
  ASSUME IInv, NEW hs, Reading(hs, delivered, ppc, todo, msg, Ahead, inside), Entries
  PROVE  Reading(hs, delivered, ppc', todo', msg', Ahead', inside')
<1>. DEFINE p == Head(todo).path
            t == Ahead[1].str
            entry == <<Lit("("), Lit("name"), Do("name", p)>>
<1>1. Running("entries")
  BY DEF Entries
<1>2. TypeOK /\ todo # <<>> /\ Head(todo).op = "entries" /\ ~ inside
  BY <1>1, Instruction
<1>3. PICK g, V, e, k : /\ hs = delivered \o g /\ Good(V, e, k)
                        /\ Leads(Head(todo), Tail(todo), Ahead, g, <<V, e, k>>)
  BY <1>1, Instruction
<1>4. /\ Reads(Ahead, t) /\ e = Tail(Ahead) /\ k = g
      /\ \/ t = "entry" /\ V = entry \o Tail(todo)
         \/ t = ")" /\ V = Tail(todo)
  BY <1>2, <1>3 DEF Leads, Reads
<1>5. Len(Bytes[t]) <= tokenLenMax
  BY <1>4, KeywordsFit
<1>6. PICK o \in ReadString(tokenLenMax) :
        /\ Read1(o)
        /\ o.err = "none" /\ o.tok = "entry" => Continue(entry)
        /\ o.err = "none" /\ o.tok = ")" => Continue(<<>>)
  BY DEF Entries
<1>. HIDE DEF entry
<1>7. o.err = "none" /\ o.tok = t /\ Ahead' = Tail(Ahead) /\ inside' = FALSE
  BY <1>2, <1>4, <1>5, <1>6, BufferSizes, ReadsPacket DEF Reads
<1>8. <<>> \o Tail(todo) = Tail(todo)
  BY <1>2, StackType DEF TypeOK
<1>9. ppc' = "run" /\ todo' = V
  BY <1>4, <1>6, <1>7, <1>8 DEF Continue
<1>. QED  BY <1>3, <1>4, <1>7, <1>9, GoesOn

LEMMA EntryNameReads ==
  ASSUME IInv, NEW hs, Reading(hs, delivered, ppc, todo, msg, Ahead, inside), EntryName
  PROVE  Reading(hs, delivered, ppc', todo', msg', Ahead', inside')
<1>. DEFINE p == Head(todo).path
            n == Ahead[1].str
            node(q) == <<Lit("node"), Do("node", q), Lit(")"), With("entryEnd", p, n, FALSE)>>
<1>1. Running("name")
  BY DEF EntryName
<1>2. TypeOK /\ todo # <<>> /\ Head(todo).op = "name" /\ ~ inside
  BY <1>1, Instruction
<1>3. PICK g, V, e, k : /\ hs = delivered \o g /\ Good(V, e, k)
                        /\ Leads(Head(todo), Tail(todo), Ahead, g, <<V, e, k>>)
  BY <1>1, Instruction
<1>4. /\ Ahead # <<>> /\ Ahead[1].have = "full" /\ ReadableName(n)
      /\ V = node(Append(p, n)) \o Tail(todo) /\ e = Tail(Ahead) /\ k = g
  BY <1>2, <1>3 DEF Leads
<1>5. IsValidNodeName(n) /\ Len(Bytes[n]) <= nameLenMax /\ Join(p, n) = Append(p, n)
  BY <1>4 DEF ReadableName, Join, nameLenMax
<1>6. PICK o \in ReadString(nameLenMax) :
        /\ Read1(o)
        /\ o.err = "none" /\ IsValidNodeName(o.tok) =>
             Continue(<<Lit("node"), Do("node", Join(p, o.tok)), Lit(")"),
                        With("entryEnd", p, o.tok, FALSE)>>)
  BY DEF EntryName
<1>7. o.err = "none" /\ o.tok = n /\ Ahead' = Tail(Ahead) /\ inside' = FALSE
  BY <1>2, <1>4, <1>5, <1>6, BufferSizes, ReadsPacket
<1>8. Continue(node(Append(p, n)))
  <2>1. Continue(node(Join(p, n)))
    BY <1>5, <1>6, <1>7
  <2>. QED  BY <1>5, <2>1
<1>. HIDE DEF node
<1>9. ppc' = "run" /\ todo' = V
  BY <1>4, <1>8 DEF Continue
<1>. QED  BY <1>3, <1>4, <1>7, <1>9, GoesOn

LEMMA EntryEndReads ==
  ASSUME IInv, NEW hs, Reading(hs, delivered, ppc, todo, msg, Ahead, inside), EntryEnd
  PROVE  Reading(hs, delivered, ppc', todo', msg', Ahead', inside')
<1>1. Running("entryEnd")
  BY DEF EntryEnd
<1>2. TypeOK /\ todo # <<>> /\ Head(todo).op = "entryEnd" /\ ~ inside
  BY <1>1, Instruction
<1>3. PICK g, V, e, k : /\ hs = delivered \o g /\ Good(V, e, k)
                        /\ Leads(Head(todo), Tail(todo), Ahead, g, <<V, e, k>>)
  BY <1>1, Instruction
<1>4. /\ Head(todo).tok # ")"
      /\ V = <<Do("entries", Head(todo).path)>> \o Tail(todo) /\ e = Ahead /\ k = g
  BY <1>2, <1>3 DEF Leads
<1>5. ppc' = "run" /\ todo' = V /\ Ahead' = Ahead /\ inside' = FALSE
  BY <1>2, <1>4 DEF EntryEnd, Continue, Ahead, input, TypeOK
<1>. QED  BY <1>3, <1>4, <1>5, GoesOn

\* The parser is done when all of the archive has been read.
LEMMA FinishReads ==
  ASSUME IInv, NEW hs, Reading(hs, delivered, ppc, todo, msg, Ahead, inside), Finish
  PROVE  Reading(hs, delivered, ppc', todo', msg', Ahead', inside')
<1>1. /\ ppc = "run" /\ todo = <<>> /\ ppc' = "fail" /\ msg'.err = "EOF"
      /\ inside' = inside
  BY DEF Finish, Fail, input
<1>2. PICK g : hs = delivered \o g /\ Good(todo, Ahead, g)
  BY <1>1 DEF Reading
<1>3. g = <<>>
  BY <1>1, <1>2, GoodAtEnd
<1>4. hs = delivered
  BY <1>2, <1>3 DEF IInv, TypeOK
<1>5. ~ inside
  BY <1>1 DEF Reading
<1>. QED  BY <1>1, <1>4, <1>5 DEF Reading

LEMMA ParserKeeps ==
  ASSUME ParserAlone
  PROVE  UNCHANGED caller /\ stream' = stream
BY DEF ParserAlone, ParseNode, ExpectString, Label, RegularToken, Contents, Seek, Target, EndNode,
       Entries, EntryName, EntryEnd, Finish, StoppedByClose, Read1, input

\* No step of the parser leads away from the archive.
LEMMA ParserReads ==
  ASSUME IInv, ReadInv, ParserAlone
  PROVE  ReadInv'
<1>1. UNCHANGED caller /\ stream' = stream
  BY ParserKeeps
<1>2. ASSUME NEW hs, ArchiveOf(hs, stream), ~ closed
      PROVE  Reading(hs, delivered, ppc', todo', msg', Ahead', inside')
  <2>1. Reading(hs, delivered, ppc, todo, msg, Ahead, inside)
    BY <1>2 DEF ReadInv
  <2>2. ~ StoppedByClose
    BY <1>2 DEF StoppedByClose
  <2>. QED  BY <2>1, <2>2, ParseNodeReads, ExpectStringReads, LabelReads, RegularTokenReads,
               ContentsReads, SeekReads, TargetReads, EndNodeReads, EntriesReads,
               EntryNameReads, EntryEndReads, FinishReads DEF ParserAlone
<1>. QED  BY <1>1, <1>2 DEF ReadInv, TreeIsRead, caller

LEMMA ReadInit == Init => ReadInv
<1>. SUFFICES ASSUME Init PROVE ReadInv
  OBVIOUS
<1>1. /\ stream \in Seq(Packet) /\ pos = 1 /\ ~ inside
      /\ ppc = "start" /\ delivered = <<>> /\ fuse = "none"
  BY NarReaderAssumption DEF Init
<1>2. Ahead = stream
  BY <1>1, SubSeqFull DEF Ahead
<1>3. ASSUME NEW hs, ArchiveOf(hs, stream)
      PROVE  /\ hs = delivered \o hs
             /\ Reading(hs, delivered, ppc, todo, msg, Ahead, inside)
  <2>1. hs \in Seq(Header) /\ Good(<<Do("node", <<>>)>>, stream, hs)
    BY <1>3, ArchiveIsGood
  <2>2. hs = delivered \o hs
    BY <1>1, <2>1
  <2>. QED  BY <1>1, <1>2, <2>1, <2>2 DEF Reading
<1>. QED  BY <1>1, <1>3 DEF ReadInv, TreeIsRead

\* A step that delivers nothing and ends nothing.
LEMMA Undelivered ==
  ASSUME ReadInv, stream' = stream, UNCHANGED <<delivered, fuse>>, ~ closed' => ~ closed,
         ASSUME NEW hs, ArchiveOf(hs, stream), ~ closed, ~ closed',
                Reading(hs, delivered, ppc, todo, msg, Ahead, inside)
         PROVE  Reading(hs, delivered, ppc', todo', msg', Ahead', inside')
  PROVE  ReadInv'
<1>1. TreeIsRead'
  BY DEF ReadInv, TreeIsRead
<1>2. ASSUME NEW hs, ArchiveOf(hs, stream'), ~ closed'
      PROVE  Reading(hs, delivered', ppc', todo', msg', Ahead', inside')
  <2>1. Reading(hs, delivered, ppc, todo, msg, Ahead, inside)
    BY <1>2 DEF ReadInv
  <2>2. Reading(hs, delivered, ppc', todo', msg', Ahead', inside')
    BY <1>2, <2>1
  <2>. QED  BY <2>2
<1>. QED  BY <1>1, <1>2 DEF ReadInv

LEMMA StartReads == ASSUME IInv, ReadInv, Start PROVE ReadInv'
<1>1. /\ stream' = stream /\ Ahead' = Ahead /\ inside' = inside
      /\ UNCHANGED <<delivered, fuse, closed, msg>>
  BY DEF Start, input, Ahead
<1>2. ASSUME NEW hs, ArchiveOf(hs, stream), ~ closed, ~ closed',
             Reading(hs, delivered, ppc, todo, msg, Ahead, inside)
      PROVE  Reading(hs, delivered, ppc', todo', msg', Ahead', inside')
  <2>1. ppc = "start" /\ ppc' = "run" /\ todo' = <<Do("node", <<>>)>>
    BY <1>2 DEF Start
  <2>2. delivered = <<>> /\ Good(<<Do("node", <<>>)>>, Ahead, hs) /\ hs \in Seq(Header)
    BY <1>2, <2>1, ArchiveIsGood DEF Reading
  <2>3. hs = delivered \o hs
    BY <2>2
  <2>4. inside' = FALSE
    BY <1>1, <1>2, <2>1 DEF IInv, TypeOK, Reading
  <2>. QED  BY <1>1, <2>1, <2>2, <2>3, <2>4, GoesOn
<1>. QED  BY <1>1, <1>2, Undelivered

LEMMA ResumeReads == ASSUME ReadInv, Resume PROVE ReadInv'
<1>1. /\ stream' = stream /\ Ahead' = Ahead /\ inside' = inside
      /\ UNCHANGED <<delivered, fuse, closed, msg, todo>>
      /\ ppc = "await" /\ ppc' = "run"
  BY DEF Resume, input, Ahead
<1>2. ASSUME NEW hs, ArchiveOf(hs, stream), ~ closed, ~ closed',
             Reading(hs, delivered, ppc, todo, msg, Ahead, inside)
      PROVE  Reading(hs, delivered, ppc', todo', msg', Ahead', inside')
  BY <1>1, <1>2 DEF Reading
<1>. QED  BY <1>1, <1>2, Undelivered

\* The header of an archive passes the check of Next.
LEMMA NextAccepts ==
  ASSUME TypeOK, OrderInv, ~ closed, fuse = "none", ppc = "offer",
         NEW hs, ArchiveOf(hs, stream), NEW g \in Seq(Header),
         hs = delivered \o (<<msg.hdr>> \o g)
  PROVE  PathIsLexicographicallyOrdered(PathString(prevPath), PathString(msg.hdr.path))
<1>. DEFINE h == msg.hdr
            n == Len(delivered)
<1>1. h \in Header /\ h.path \in Seq(Strings) /\ prevPath \in Seq(Strings)
      /\ delivered \in Seq(Header) /\ n \in Nat
  BY DEF TypeOK, Header
<1>2. Proper(h.path) /\ Proper(prevPath) /\ prevPath = LastPath
  BY DEF OrderInv, StackInOrder, MayFollow
<1>3. TreeLeq(prevPath, h.path)
  <2>1. CASE delivered = <<>>
    <3>1. prevPath = <<>>
      BY <1>2, <2>1 DEF LastPath
    <3>2. Parts(<<>>, h.path, 0)
      BY <1>1 DEF Parts, SameNames
    <3>. QED  BY <3>1, <3>2 DEF TreeLeq
  <2>2. CASE delivered # <<>>
    <3>. HIDE DEF h
    <3>1. hs \in Seq(Header) /\ InOrder(hs)
      BY ArchiveIsGood
    <3>2. <<h>> \o g \in Seq(Header) /\ (<<h>> \o g)[1] = h /\ Len(<<h>> \o g) >= 1
      BY <1>1
    <3>3. hs = delivered \o (<<h>> \o g)
      BY DEF h
    <3>. HIDE DEF n
    <3>4. n \in 1 .. Len(hs) - 1 /\ hs[n] = delivered[n] /\ hs[n + 1] = h
      BY <1>1, <2>2, <3>2, <3>3 DEF n
    <3>5. TreeLeq(hs[n].path, hs[n + 1].path)
      BY <3>1, <3>4 DEF InOrder
    <3>6. prevPath = delivered[n].path
      BY <1>2, <2>2 DEF LastPath, n
    <3>. QED  BY <3>4, <3>5, <3>6
  <2>. QED  BY <2>1, <2>2
<1>. QED  BY <1>1, <1>2, <1>3, TreeOrderAccepted

LEMMA TakeHeaderReads ==
  ASSUME IInv, PlaceInv, OrderInv, ReadInv, TakeHeader
  PROVE  ReadInv'
<1>1. /\ stream' = stream /\ Ahead' = Ahead /\ inside' = inside
      /\ UNCHANGED <<closed, todo, msg>>
      /\ cpc = "select" /\ ppc = "offer" /\ ppc' = "await"
  BY DEF TakeHeader, input, Ahead
<1>2. ~ closed /\ fuse = "none" /\ TypeOK
  BY <1>1 DEF IInv, PlaceInv, CallIsOpen, CallHasNoFuse
<1>3. ASSUME NEW hs, ArchiveOf(hs, stream)
      PROVE  /\ \E g : hs = delivered' \o g
             /\ fuse' = "none"
             /\ Reading(hs, delivered', ppc', todo', msg', Ahead', inside')
  <2>1. Reading(hs, delivered, ppc, todo, msg, Ahead, inside)
    BY <1>2, <1>3 DEF ReadInv
  <2>2. PICK g : hs = delivered \o (<<msg.hdr>> \o g) /\ Good(todo, Ahead, g)
    BY <1>1, <2>1 DEF Reading
  <2>3. g \in Seq(Header) /\ msg.hdr \in Header /\ delivered \in Seq(Header)
    BY <1>2, <2>2, GoodType DEF TypeOK
  <2>4. PathIsLexicographicallyOrdered(PathString(prevPath), PathString(msg.hdr.path))
    BY <1>1, <1>2, <1>3, <2>2, <2>3, NextAccepts
  <2>5. delivered' = Append(delivered, msg.hdr) /\ fuse' = fuse
    BY <2>4 DEF TakeHeader
  <2>6. delivered \o (<<msg.hdr>> \o g) = Append(delivered, msg.hdr) \o g
    <3>. DEFINE h == msg.hdr
                d == delivered
    <3>1. h \in Header /\ d \in Seq(Header) /\ g \in Seq(Header)
      BY <2>3
    <3>. HIDE DEF h, d
    <3>2. d \o (<<h>> \o g) = Append(d, h) \o g
      BY <3>1
    <3>. QED  BY <3>2 DEF h, d
  <2>7. hs = delivered' \o g
    BY <2>2, <2>5, <2>6
  <2>8. Reading(hs, delivered', ppc', todo', msg', Ahead', inside')
    BY <1>1, <2>1, <2>2, <2>7 DEF Reading
  <2>. QED  BY <1>2, <2>5, <2>7, <2>8
<1>. QED  BY <1>1, <1>3 DEF ReadInv, TreeIsRead

LEMMA TakeErrorReads ==
  ASSUME IInv, PlaceInv, ReadInv, TakeError
  PROVE  ReadInv'
<1>1. /\ stream' = stream /\ Ahead' = Ahead /\ inside' = inside
      /\ UNCHANGED <<closed, todo, msg, delivered>>
      /\ cpc = "select" /\ ppc = "fail" /\ ppc' = "exited" /\ fuse' = msg.err
  BY DEF TakeError, input, Ahead
<1>2. ~ closed
  BY <1>1 DEF PlaceInv, CallIsOpen
<1>3. ASSUME NEW hs, ArchiveOf(hs, stream)
      PROVE  /\ delivered = hs /\ fuse' = "EOF"
             /\ \E g : hs = delivered \o g
             /\ Reading(hs, delivered', ppc', todo', msg', Ahead', inside')
  <2>1. Reading(hs, delivered, ppc, todo, msg, Ahead, inside)
    BY <1>2, <1>3 DEF ReadInv
  <2>. QED  BY <1>1, <1>2, <1>3, <2>1 DEF Reading, ReadInv, TreeIsRead
<1>. QED  BY <1>1, <1>3 DEF ReadInv, TreeIsRead

\* What the caller does outside of Next leaves the archive where it is.
LEMMA CallerReads ==
  ASSUME TypeOK, ReadInv, CallNext \/ Read \/ Close \/ UNCHANGED vars
  PROVE  ReadInv'
<1>1. /\ stream' = stream /\ Ahead' = Ahead /\ inside' = inside
      /\ UNCHANGED <<ppc, todo, msg, delivered, fuse>>
      /\ ~ closed' => ~ closed
  <2>1. CASE CallNext
    BY <2>1 DEF CallNext, input, parser, Ahead
  <2>2. CASE Read
    BY <2>2 DEF Read, parser, caller, Ahead
  <2>3. CASE Close
    BY <2>3 DEF TypeOK, Close, input, parser, Ahead
  <2>4. CASE UNCHANGED vars
    BY <2>4 DEF vars, Ahead
  <2>. QED  BY <2>1, <2>2, <2>3, <2>4
<1>. QED  BY <1>1, Undelivered

LEMMA ReadNext == IInv /\ PlaceInv /\ OrderInv /\ ReadInv /\ [Next]_vars => ReadInv'
BY ParserReads, StartReads, ResumeReads, TakeHeaderReads, TakeErrorReads, CallerReads
   DEF IInv, Next, Library

\* A Reader that is opened on the archive of a tree returns from Next the
\* headers of the tree, one after the other, and io.EOF behind the last of
\* them: whatever of the contents is read, no archive fails, and none ends
\* early.  The archive is what the grammar of NarGrammar derives, with names
\* that IsValidNodeName and path.Join leave alone.
THEOREM ArchivesAreRead == Spec => []TreeIsRead
<1>1. ReadInv => TreeIsRead
  BY DEF ReadInv
<1>2. IInv /\ PlaceInv /\ OrderInv /\ ReadInv /\ [Next]_vars => (PlaceInv /\ OrderInv /\ ReadInv)'
  BY PlaceNext, OrderNext, ReadNext
<1>3. Init => PlaceInv
  BY DEF Init, PlaceInv, ParentsFirst, StackInPlace, CallIsOpen, Shown
<1>. QED  BY <1>1, <1>2, <1>3, Invariance, OrderInit, ReadInit, PTL DEF Spec

-----------------------------------------------------------------------------
(* The Reader implements its abstract specification.                       *)

\* The limited reader allows nothing but behind the header of a regular
\* file, until the parser skips the content; while that header is on its
\* way, it allows all of the file.
LimitInv ==
  ~ closed =>
    /\ content.limit # 0 =>
         ppc \in {"run", "offer", "await"} /\ todo # <<>> /\ Head(todo).op = "seek"
    /\ ppc = "offer" => content.limit = msg.hdr.size

LEMMA LimitInit == Init => LimitInv
BY DEF Init, LimitInv, Dummy

LEMMA LimitStays ==
  ASSUME LimitInv, closed' = closed, content' = content, ppc' # "offer",
         ~ closed => todo = <<>> \/ Head(todo).op # "seek"
  PROVE  LimitInv'
BY DEF LimitInv

LEMMA ContentsLimit == ASSUME IInv, LimitInv, Contents PROVE LimitInv'
<1>. DEFINE i == Head(todo)
<1>1. /\ Running("contents") /\ closed' = closed
  BY DEF Contents, caller
<1>2. /\ i.path \in Seq(Strings) /\ Tail(todo) \in Seq(Instr) /\ "seek" \in Ops
      /\ i.op = "contents"
  BY <1>1, RunningState, StackType, OpsAre DEF Running
<1>3. Do("seek", i.path) \in Instr /\ Do("seek", i.path).op = "seek"
  BY <1>2, DoType
<1>4. CASE content' = content /\ ppc' = "fail"
  BY <1>1, <1>2, <1>4, LimitStays
<1>5. CASE /\ content' = [limit |-> stream[pos].size, owner |-> i.path, dummy |-> FALSE]
           /\ Offer([path |-> i.path, type |-> "regular",
                     size |-> stream[pos].size, exec |-> i.exec], Do("seek", i.path))
  <2>1. content'.limit = msg'.hdr.size /\ ppc' = "offer"
        /\ todo' = <<Do("seek", i.path)>> \o Tail(todo)
    BY <1>5 DEF Offer
  <2>. HIDE DEF i
  <2>2. todo' # <<>> /\ Head(todo').op = "seek"
    BY <1>2, <1>3, <2>1, OnTop
  <2>. QED  BY <2>1, <2>2 DEF LimitInv
<1>. QED  BY <1>4, <1>5 DEF Contents, Fail

LEMMA LabelLimit == ASSUME LimitInv, Label PROVE LimitInv'
<1>. DEFINE p == Head(todo).path
<1>1. /\ Running("label") /\ closed' = closed
  BY DEF Label, caller
<1>2. \/ content' = content /\ ppc' # "offer"
      \/ content' = Dummy /\ msg'.hdr = [NoHeader EXCEPT !.path = p]
  BY DEF Label, Continue, Fail, Offer
<1>3. CASE content' = content /\ ppc' # "offer"
  BY <1>1, <1>3, LimitStays DEF Running
<1>4. CASE content' = Dummy /\ msg'.hdr = [NoHeader EXCEPT !.path = p]
  <2>1. content'.limit = 0 /\ msg'.hdr.size = 0
    BY <1>4 DEF Dummy, NoHeader
  <2>. QED  BY <2>1 DEF LimitInv
<1>. QED  BY <1>2, <1>3, <1>4

LEMMA TargetLimit == ASSUME LimitInv, Target PROVE LimitInv'
<1>. DEFINE p == Head(todo).path
<1>1. /\ Running("target") /\ closed' = closed
  BY DEF Target, caller
<1>2. \/ content' = content /\ ppc' # "offer"
      \/ content' = Dummy /\ msg'.hdr = [NoHeader EXCEPT !.path = p, !.type = "symlink"]
  BY DEF Target, Fail, Offer
<1>3. CASE content' = content /\ ppc' # "offer"
  BY <1>1, <1>3, LimitStays DEF Running
<1>4. CASE content' = Dummy
           /\ msg'.hdr = [NoHeader EXCEPT !.path = p, !.type = "symlink"]
  <2>1. content'.limit = 0 /\ msg'.hdr.size = 0
    BY <1>4 DEF Dummy, NoHeader
  <2>. QED  BY <2>1 DEF LimitInv
<1>. QED  BY <1>2, <1>3, <1>4

LEMMA SeekLimit == ASSUME IInv, Seek PROVE LimitInv'
<1>1. content'.limit = 0 /\ ppc' # "offer"
  BY DEF IInv, TypeOK, Seek, Continue, Fail
<1>. QED  BY <1>1 DEF LimitInv

\* The other steps of the parser find no limit and set none.
LEMMA ParserLimit == ASSUME IInv, LimitInv, ParserAlone PROVE LimitInv'
<1>1. CASE ParseNode
  BY <1>1, LimitStays DEF ParseNode, Running, Continue, caller
<1>2. CASE ExpectString
  BY <1>2, LimitStays DEF ExpectString, Running, Continue, Fail, caller
<1>3. CASE RegularToken
  BY <1>3, LimitStays DEF RegularToken, Running, Continue, Fail, caller
<1>4. CASE EndNode
  BY <1>4, LimitStays DEF EndNode, Running, Continue, Fail, caller
<1>5. CASE Entries
  BY <1>5, LimitStays DEF Entries, Running, Continue, Fail, caller
<1>6. CASE EntryName
  BY <1>6, LimitStays DEF EntryName, Running, Continue, Fail, caller
<1>7. CASE EntryEnd
  BY <1>7, LimitStays DEF EntryEnd, Running, Continue, caller
<1>8. CASE Finish
  BY <1>8, LimitStays DEF Finish, Fail, caller
<1>9. CASE StoppedByClose
  BY <1>9, LimitStays DEF StoppedByClose, Continue, caller
<1>. QED  BY <1>1, <1>2, <1>3, <1>4, <1>5, <1>6, <1>7, <1>8, <1>9,
             ContentsLimit, LabelLimit, TargetLimit, SeekLimit DEF ParserAlone

LEMMA LimitNext == IInv /\ LimitInv /\ [Next]_vars => LimitInv'
<1>. SUFFICES ASSUME IInv, LimitInv, [Next]_vars PROVE LimitInv'
  OBVIOUS
<1>1. CASE Start
  BY <1>1 DEF Start, LimitInv
<1>2. CASE Resume
  BY <1>2 DEF Resume, LimitInv
<1>3. CASE TakeHeader
  BY <1>3 DEF TakeHeader, LimitInv
<1>4. CASE TakeError
  BY <1>4 DEF TakeError, LimitInv
<1>5. CASE CallNext
  BY <1>5 DEF CallNext, parser, LimitInv
<1>6. CASE Read
  <2>1. ppc # "offer" /\ content.limit > 0 /\ UNCHANGED <<ppc, todo, closed>>
    BY <1>6 DEF IInv, HandoffExclusive, Read, parser, caller
  <2>. QED  BY <2>1 DEF LimitInv
<1>7. CASE Close
  BY <1>7 DEF Close, parser, LimitInv
<1>8. CASE UNCHANGED vars
  BY <1>8 DEF vars, LimitInv
<1>. QED  BY <1>1, <1>2, <1>3, <1>4, <1>5, <1>6, <1>7, <1>8, ParserLimit DEF Next, Library

\* The Reader as the cursor of NarCursor over the headers of the archive.  Of
\* a Reader of anything else nothing is said here.
WellFormed == \E hs : ArchiveOf(hs, stream)
Listed == CHOOSE hs : ArchiveOf(hs, stream)

Files == IF WellFormed THEN Listed ELSE <<>>
At == IF WellFormed THEN Len(delivered) ELSE 0
Left == IF WellFormed /\ cpc = "idle" /\ ~ closed THEN content.limit ELSE 0
Busy == WellFormed /\ cpc \in {"sendNext", "select"}
Ended == WellFormed /\ fuse = "EOF"
Shut == WellFormed /\ closed

Cursor == INSTANCE NarCursor WITH
  files <- Files, at <- At, left <- Left, busy <- Busy, ended <- Ended, closed <- Shut

LEMMA ListedIs == ASSUME WellFormed PROVE ArchiveOf(Listed, stream)
BY DEF WellFormed, Listed

LEMMA StreamStays == ASSUME [Next]_vars PROVE stream' = stream
BY ParserKeeps DEF Next, Library, Start, Resume, TakeHeader, TakeError, CallNext, Read, Close,
                   vars, input

LEMMA FilesStay ==
  ASSUME stream' = stream
  PROVE  WellFormed' = WellFormed /\ Files' = Files
BY DEF WellFormed, Listed, Files

\* What does not touch the caller's side of an open Reader.
LEMMA CursorStays ==
  ASSUME stream' = stream, UNCHANGED <<delivered, fuse, closed>>,
         (cpc \in {"sendNext", "select"}) <=> (cpc' \in {"sendNext", "select"}),
         cpc = "idle" /\ ~ closed => cpc' = "idle" /\ content' = content,
         cpc' = "idle" /\ ~ closed => cpc = "idle"
  PROVE  UNCHANGED <<Files, At, Left, Busy, Ended, Shut>>
<1>1. WellFormed' = WellFormed /\ Files' = Files
  BY FilesStay
<1>2. At' = At /\ Ended' = Ended /\ Shut' = Shut
  BY <1>1 DEF At, Ended, Shut
<1>3. Left' = Left
  BY <1>1 DEF Left
<1>4. Busy' = Busy
  BY <1>1 DEF Busy
<1>. QED  BY <1>1, <1>2, <1>3, <1>4

LEMMA TakeHeaderReturns ==
  ASSUME IInv, PlaceInv, OrderInv, ReadInv, LimitInv, TakeHeader, WellFormed
  PROVE  Cursor!Return
<1>. DEFINE hs == Listed
<1>1. /\ stream' = stream /\ content' = content /\ closed' = closed /\ msg' = msg
      /\ cpc = "select" /\ cpc' = "idle" /\ ppc = "offer" /\ ppc' = "await"
  BY DEF TakeHeader, input
<1>2. ~ closed /\ TypeOK /\ ArchiveOf(hs, stream) /\ WellFormed' /\ Files' = Files
  BY <1>1, ListedIs, FilesStay DEF IInv, PlaceInv, CallIsOpen
<1>3. hs \in Seq(Header) /\ Readable(hs)
  BY <1>2, ArchiveIsGood DEF ArchiveOf
<1>. HIDE DEF hs
<1>4. PICK g : hs = delivered \o (<<msg.hdr>> \o g) /\ Good(todo, Ahead, g)
  BY <1>1, <1>2 DEF ReadInv, Reading
<1>5. g \in Seq(Header) /\ msg.hdr \in Header /\ delivered \in Seq(Header)
  BY <1>2, <1>4, GoodType DEF TypeOK
<1>6. PathIsLexicographicallyOrdered(PathString(prevPath), PathString(msg.hdr.path))
  <2>1. fuse = "none"
    BY <1>1 DEF IInv, CallHasNoFuse
  <2>. QED  BY <1>1, <1>2, <1>4, <1>5, <2>1, NextAccepts
<1>7. delivered' = Append(delivered, msg.hdr) /\ fuse' = fuse
  BY <1>6 DEF TakeHeader
<1>8. Len(delivered) + 1 <= Len(hs) /\ hs[Len(delivered) + 1] = msg.hdr
  <2>. DEFINE h == msg.hdr
              d == delivered
  <2>1. h \in Header /\ d \in Seq(Header) /\ hs = d \o (<<h>> \o g)
    BY <1>4, <1>5
  <2>. HIDE DEF h, d
  <2>2. <<h>> \o g \in Seq(Header) /\ (<<h>> \o g)[1] = h /\ Len(<<h>> \o g) >= 1
    BY <1>5, <2>1
  <2>3. Len(d) + 1 <= Len(hs) /\ hs[Len(d) + 1] = h
    BY <2>1, <2>2
  <2>. QED  BY <2>3 DEF h, d
<1>9. content.limit = hs[Len(delivered) + 1].size
  BY <1>1, <1>2, <1>8 DEF LimitInv
<1>10. /\ Files = hs /\ At = Len(delivered) /\ At \in Nat /\ At' = At + 1
       /\ Left' = content.limit /\ Busy /\ ~ Busy' /\ Ended' = Ended /\ Shut' = Shut
  <2>1. At = Len(delivered) /\ At \in Nat /\ At' = At + 1
    BY <1>2, <1>5, <1>7 DEF At
  <2>2. Files = hs /\ Left' = content.limit
    BY <1>1, <1>2 DEF Files, Left, hs
  <2>3. Busy /\ ~ Busy' /\ Ended' = Ended /\ Shut' = Shut
    BY <1>1, <1>2, <1>7 DEF Busy, Ended, Shut
  <2>. QED  BY <2>1, <2>2, <2>3
<1>11. At < Len(Files) /\ Left' = Files[At + 1].size
  <2>1. Len(hs) \in Nat
    BY <1>3
  <2>. QED  BY <1>8, <1>9, <1>10, <2>1
<1>12. Busy' = FALSE
  BY <1>10 DEF Busy
<1>. QED  BY <1>2, <1>10, <1>11, <1>12 DEF Cursor!Return

LEMMA TakeErrorReturns ==
  ASSUME IInv, PlaceInv, ReadInv, LimitInv, TakeError, WellFormed
  PROVE  Cursor!Return
<1>1. /\ stream' = stream /\ content' = content /\ UNCHANGED <<closed, delivered>>
      /\ cpc = "select" /\ cpc' = "idle" /\ ppc = "fail" /\ fuse' = msg.err
  BY DEF TakeError, input
<1>2. ~ closed /\ ArchiveOf(Listed, stream) /\ WellFormed' /\ Files' = Files
  BY <1>1, ListedIs, FilesStay DEF PlaceInv, CallIsOpen
<1>3. msg.err = "EOF" /\ delivered = Listed
  BY <1>1, <1>2 DEF ReadInv, Reading
<1>4. content.limit = 0
  BY <1>1, <1>2 DEF LimitInv
<1>5. At' = At /\ Left' = Left /\ Left = 0
  BY <1>1, <1>2, <1>4 DEF At, Left
<1>6. Busy /\ Busy' = FALSE /\ Ended' = TRUE /\ Shut' = Shut
  BY <1>1, <1>2, <1>3 DEF Busy, Ended, Shut
<1>7. ~ (At < Len(Files))
  <2>1. At = Len(Files) /\ Len(Files) \in Nat
    BY <1>2, <1>3, ArchiveIsGood DEF At, Files
  <2>. QED  BY <2>1
<1>. QED  BY <1>2, <1>5, <1>6, <1>7 DEF Cursor!Return

LEMMA CallerMoves ==
  ASSUME IInv, WellFormed, CallNext \/ Read \/ Close
  PROVE  [Cursor!Next]_<<Files, At, Left, Busy, Ended, Shut>>
<1>1. stream' = stream /\ WellFormed' /\ Files' = Files
  <2>1. stream' = stream
    BY DEF CallNext, Read, Close, input
  <2>. QED  BY <2>1, FilesStay
<1>2. UNCHANGED <<delivered, fuse>> /\ At' = At /\ Ended' = Ended /\ cpc = "idle"
  <2>1. UNCHANGED <<delivered, fuse>> /\ cpc = "idle"
    BY DEF CallNext, Read, Close, caller
  <2>. QED  BY <1>1, <2>1 DEF At, Ended
<1>3. CASE closed
  <2>1. closed' = closed /\ cpc' \in {"idle", "panicked"} /\ (cpc' = "idle" => content' = content)
    BY <1>3 DEF CallNext, Read, Close
  <2>2. Left' = Left /\ Busy' = Busy /\ Shut' = Shut
    BY <1>1, <1>2, <1>3, <2>1 DEF Left, Busy, Shut
  <2>. QED  BY <1>1, <1>2, <2>2
<1>4. CASE ~ closed /\ CallNext
  <2>1. cpc' = "sendNext" /\ fuse = "none" /\ closed' = closed
    BY <1>4 DEF CallNext
  <2>2. /\ Busy = FALSE /\ Busy' = TRUE /\ Left' = 0
        /\ Ended = FALSE /\ Shut = FALSE /\ Shut' = Shut
    BY <1>1, <1>2, <1>4, <2>1 DEF Busy, Left, Ended, Shut
  <2>3. Cursor!Call
    BY <1>1, <1>2, <2>2 DEF Cursor!Call
  <2>. QED  BY <2>3 DEF Cursor!Next
<1>5. CASE ~ closed /\ Read
  <2>1. cpc' = cpc /\ closed' = closed /\ content.limit > 0 /\ content'.limit = content.limit - 1
    BY <1>5 DEF IInv, TypeOK, Read, caller
  <2>2. Busy = FALSE /\ Busy' = Busy /\ Shut = FALSE /\ Shut' = Shut
    BY <1>1, <1>2, <1>5, <2>1 DEF Busy, Shut
  <2>3. Left > 0 /\ Left' = Left - 1
    BY <1>1, <1>2, <1>5, <2>1 DEF Left
  <2>4. Cursor!Take
    BY <1>1, <1>2, <2>2, <2>3 DEF Cursor!Take
  <2>. QED  BY <2>4 DEF Cursor!Next
<1>6. CASE ~ closed /\ Close
  <2>1. cpc' = cpc /\ closed' /\ fuse # "EOF"
    BY <1>6 DEF Close
  <2>2. /\ Busy = FALSE /\ Busy' = Busy /\ Left' = 0
        /\ Ended = FALSE /\ Shut = FALSE /\ Shut' = TRUE
    BY <1>1, <1>2, <1>6, <2>1 DEF Busy, Left, Ended, Shut
  <2>3. Cursor!Shut
    BY <1>1, <1>2, <2>2 DEF Cursor!Shut
  <2>. QED  BY <2>3 DEF Cursor!Next
<1>. QED  BY <1>3, <1>4, <1>5, <1>6

LEMMA CursorMoves ==
  ASSUME IInv, PlaceInv, OrderInv, ReadInv, LimitInv, [Next]_vars
  PROVE  [Cursor!Next]_<<Files, At, Left, Busy, Ended, Shut>>
<1>1. stream' = stream
  BY StreamStays
<1>2. CASE ~ WellFormed
  <2>1. ~ WellFormed' /\ Files' = Files
    BY <1>1, <1>2, FilesStay
  <2>. QED  BY <1>2, <2>1 DEF At, Left, Busy, Ended, Shut
<1>3. CASE ParserAlone
  <2>1. UNCHANGED caller
    BY <1>3, ParserKeeps
  <2>2. ~ (cpc = "idle" /\ ~ closed)
    <3>1. ppc = "run" \/ closed
      BY <1>3 DEF ParserAlone, ParseNode, ExpectString, Label, RegularToken, Contents, Seek,
                  Target, EndNode, Entries, EntryName, EntryEnd, Finish, StoppedByClose, Running
    <3>. QED  BY <3>1 DEF IInv, HandoffExclusive
  <2>. QED  BY <1>1, <2>1, <2>2, CursorStays DEF caller
<1>4. CASE Start
  <2>1. /\ UNCHANGED <<delivered, fuse, closed, content>>
        /\ cpc' = cpc \/ (cpc = "sendNext" /\ cpc' = "select")
    BY <1>4 DEF Start
  <2>. QED  BY <1>1, <2>1, CursorStays
<1>5. CASE Resume
  BY <1>1, <1>5, CursorStays DEF Resume
<1>6. CASE WellFormed /\ (TakeHeader \/ TakeError)
  BY <1>6, TakeHeaderReturns, TakeErrorReturns DEF Cursor!Next
<1>7. CASE WellFormed /\ (CallNext \/ Read \/ Close)
  BY <1>7, CallerMoves
<1>8. CASE UNCHANGED vars
  BY <1>1, <1>8, CursorStays DEF vars
<1>. QED  BY <1>2, <1>3, <1>4, <1>5, <1>6, <1>7, <1>8 DEF Next, Library

LEMMA CursorInit == Init => Cursor!Init
<1>. SUFFICES ASSUME Init PROVE Cursor!Init
  OBVIOUS
<1>1. delivered = <<>> /\ cpc = "idle" /\ closed = FALSE /\ fuse = "none" /\ content.limit = 0
  BY DEF Init, Dummy
<1>2. At = 0 /\ Left = 0 /\ Busy = FALSE /\ Ended = FALSE /\ Shut = FALSE
  BY <1>1 DEF At, Left, Busy, Ended, Shut
<1>. QED  BY <1>2 DEF Cursor!Init

\* On the archive of any tree, the two goroutines and their channels are the
\* cursor that the comments of Next, Read and Close promise: every call of
\* Next drops what is left of the file and takes the next header, or io.EOF
\* behind the last, and Read can take of the current file exactly what its
\* header says.
THEOREM ReaderIsCursor == Spec => Cursor!Safe
<1>1. IInv /\ PlaceInv /\ OrderInv /\ ReadInv /\ LimitInv /\ [Next]_vars
        => (PlaceInv /\ OrderInv /\ ReadInv /\ LimitInv)'
  BY PlaceNext, OrderNext, ReadNext, LimitNext
<1>2. Init => PlaceInv
  BY DEF Init, PlaceInv, ParentsFirst, StackInPlace, CallIsOpen, Shown
<1>3. IInv /\ PlaceInv /\ OrderInv /\ ReadInv /\ LimitInv /\ [Next]_vars
        => [Cursor!Next]_<<Files, At, Left, Busy, Ended, Shut>>
  BY CursorMoves
<1>. QED  BY <1>1, <1>2, <1>3, Invariance, OrderInit, ReadInit, LimitInit, CursorInit, PTL
     DEF Spec, Cursor!Safe, Cursor!cursorVars
=============================================================================
