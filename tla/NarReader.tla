----------------------------- MODULE NarReader -----------------------------
(***************************************************************************)
(* nar.Reader (pkg/nar/reader.go) over wire.BytesReader (pkg/wire).        *)
(*                                                                         *)
(* Two goroutines share one unsynchronised io.Reader and one contentReader *)
(* field, and hand them to each other over unbuffered channels:            *)
(*   - the caller runs Next, Read and Close;                               *)
(*   - the parser goroutine, started by NewReader, runs parseNode("/").    *)
(* parseNode is recursive.  Its call stack is todo, the sequence of what   *)
(* is left to do in every active call, innermost first; returning an error *)
(* unwinds all of it, returning nil only the part of the innermost call.   *)
(*                                                                         *)
(* The archive is a sequence of wire packets.  A packet is a length field, *)
(* a content and a padding to eight bytes: its str is the content as a     *)
(* string, its size the content in units the caller can Read one by one,   *)
(* and have says how much of it is there.  Only the last one can be cut.   *)
(***************************************************************************)
EXTENDS NarPath, NarPacket

CONSTANT
  Streams   \* the archives a Reader may be opened on, past the magic

tokenLenMax == 32
nameLenMax == 255
pathLenMax == 4096 - 1

\* What is there of a packet: all of it; all, but with padding that is not
\* null; a part of the length field; the length field; a part of the
\* content; the content; the content and a part of the padding; or a length
\* field above MaxInt64.
Extents == {"full", "badpad", "length", "none", "some", "content", "padding", "huge"}

Packet == [str : Strings, size : Nat, have : Extents]

ASSUME NarReaderAssumption ==
  /\ Streams \subseteq Seq(Packet)
  /\ \A s \in Streams : \A i \in 1 .. Len(s) - 1 : s[i].have \in {"full", "badpad"}
  /\ {EmptyString, "(", ")", "type", "executable", "entry", "name", "node", "target"}
       \subseteq Strings

\* The other keywords, and the buffers that hold them.
ASSUME KeywordsFit ==
  /\ Types \cup {"contents", "to", "blob"} \subseteq Strings
  /\ \A s \in Types \cup {"contents", "executable", "entry", ")"} : Len(Bytes[s]) <= tokenLenMax
  /\ Len(Bytes["contents"]) <= Len(Bytes["executable"])
  /\ Len(Bytes["to"]) <= pathLenMax

VARIABLES
  stream,     \* the bytes behind nr.r, never changed
  pos,        \* index of the packet nr.r stands at
  inside,     \* nr.r stands in the content of that packet
  off,        \* units of that content already read
  content,    \* nr.contentReader: what its LimitReader still allows, and for whom
  ppc,        \* where the parser goroutine is
  todo,       \* its call stack
  msg,        \* the header or the error it is sending
  cpc,        \* where the caller is
  closed,     \* the channel nr.next is closed
  fuse,       \* nr.err
  prevPath,   \* nr.previousHdrPath; it starts as "", which like "/" precedes every path
  delivered,  \* history: the headers Next has returned
  panic       \* why the caller panicked, if it did

input == <<stream, pos, inside, off>>
parser == <<ppc, todo, msg>>
caller == <<cpc, closed, fuse, prevPath, delivered, panic>>
vars == <<stream, pos, inside, off, content, ppc, todo, msg,
          cpc, closed, fuse, prevPath, delivered, panic>>

NoHeader == [path |-> <<>>, type |-> "directory", size |-> 0, exec |-> FALSE]

\* nr.err: nil, io.EOF, another error of the parser, the order error of Next.
Fuses == {"none", "EOF", "error", "order"}

Ops == {"lit", "node", "label", "regular", "contents", "target", "entries",
        "name", "entryEnd", "seek", "end"}
With(op, path, tok, exec) == [op |-> op, path |-> path, tok |-> tok, exec |-> exec]
Do(op, path) == With(op, path, EmptyString, FALSE)
Lit(t) == With("lit", <<>>, t, FALSE)
Instr == [op : Ops, path : Seq(Strings), tok : Strings, exec : BOOLEAN]

TypeOK ==
  /\ stream \in Seq(Packet)
  /\ pos \in Nat \ {0}
  /\ inside \in BOOLEAN
  /\ off \in Nat
  /\ content \in [limit : Nat, owner : Seq(Strings), dummy : BOOLEAN]
  /\ ppc \in {"start", "run", "offer", "await", "fail", "exited"}
  /\ todo \in Seq(Instr)
  /\ msg \in [hdr : Header, err : Fuses]
  /\ cpc \in {"idle", "sendNext", "select", "panicked"}
  /\ closed \in BOOLEAN
  /\ fuse \in Fuses
  /\ prevPath \in Seq(Strings)
  /\ delivered \in Seq(Header)
  /\ panic \in {"none", "closeTwice", "nextAfterClose"}

Dummy == [limit |-> 0, owner |-> <<>>, dummy |-> TRUE]

\* NewReader, once the magic has been read.
Init ==
  /\ stream \in Streams
  /\ pos = 1 /\ inside = FALSE /\ off = 0
  /\ content = Dummy
  /\ ppc = "start" /\ todo = <<>> /\ msg = [hdr |-> NoHeader, err |-> "none"]
  /\ cpc = "idle" /\ closed = FALSE /\ fuse = "none"
  /\ prevPath = <<>> /\ delivered = <<>> /\ panic = "none"
-----------------------------------------------------------------------------
(* The wire package. *)

\* Units of the content of a packet that are there to be read.
Present(p) ==
  CASE p.have \in {"full", "badpad", "content", "padding"} -> p.size
    [] p.have = "some" /\ p.size > 0 -> p.size - 1
    [] OTHER -> 0

Failed(e) == [err |-> e, tok |-> EmptyString, at |-> pos]
Got(t) == [err |-> "none", tok |-> t, at |-> pos + 1]
Garbled(t, k) == [err |-> "none", tok |-> t, at |-> pos + k]

\* What ReadString(nr.r, max) may return, and the packet nr.r is at after
\* it.  Its deferred Close drops every error about the padding.  Called
\* while nr.r stands inside a content, which only happens once the Reader is
\* closed, it reads the rest of the content, the next packet if there is no
\* rest, or bytes that straddle both: it fails or yields any token.
ReadString(maxBytes) ==
  IF inside
  THEN {Failed("error"), Failed("EOF")} \cup {Garbled(t, k) : t \in Strings, k \in {1, 2}}
  ELSE IF pos > Len(stream)
  THEN {Failed("EOF")}
  ELSE LET p == stream[pos]
       IN  CASE p.have \in {"length", "huge"} -> {Failed("error")}
             [] Len(Bytes[p.str]) > maxBytes -> {Failed("error")}
             [] p.have = "none" /\ p.size > 0 -> {Failed("EOF")}
             [] p.have = "some" -> {Failed("error")}
             [] OTHER -> {Got(p.str)}

\* BytesReader.Close once nr.r stands inside the content of packet p: it
\* skips the rest of the content, then readPadding checks the padding.  When
\* the stream ends before the padding does, io.EOF comes from readPadding,
\* or, if the packet needs no padding, from the very next ReadString.
CloseContent(p) ==
  IF p.have = "full" THEN "none"
  ELSE IF p.have \in {"none", "some", "content"} THEN "EOF"
  ELSE "error"
-----------------------------------------------------------------------------
(* The parser goroutine. *)

\* "errors <- e": parseNode has returned and every frame is gone.
Fail(e) ==
  /\ ppc' = "fail"
  /\ todo' = <<>>
  /\ msg' = [hdr |-> NoHeader, err |-> e]

\* Replace what the innermost call does next by the instructions seq.
Continue(seq) ==
  /\ ppc' = "run"
  /\ todo' = seq \o Tail(todo)
  /\ UNCHANGED msg

\* "nr.headers <- hdr": the caller's turn, then the instruction rest.
Offer(h, rest) ==
  /\ ppc' = "offer"
  /\ todo' = <<rest>> \o Tail(todo)
  /\ msg' = [hdr |-> h, err |-> "none"]

Running(op) == ppc = "run" /\ todo # <<>> /\ Head(todo).op = op

\* One ReadString; on success nr.r is behind the packet.
Read1(o) ==
  /\ pos' = o.at
  /\ inside' = FALSE
  /\ off' = 0
  /\ UNCHANGED stream

\* Variant: the goroutine waits for the first Next only.
StartOnNextOnly ==
  /\ ppc = "start" /\ cpc = "sendNext"
  /\ cpc' = "select" /\ ppc' = "run"
  /\ todo' = <<Do("node", <<>>)>>
  /\ UNCHANGED <<input, content, msg, closed, fuse, prevPath, delivered, panic>>

\* The first Next call, or a Close without one.
Start ==
  /\ ppc = "start"
  /\ \/ /\ cpc = "sendNext"
        /\ cpc' = "select"
        /\ ppc' = "run"
        /\ todo' = <<Do("node", <<>>)>>
     \/ /\ closed
        /\ ppc' = "exited"
        /\ UNCHANGED <<cpc, todo>>
  /\ UNCHANGED <<input, content, msg, closed, fuse, prevPath, delivered, panic>>

\* parseNode(path): accept "(" and "type", then switch on the label.
ParseNode ==
  /\ Running("node")
  /\ LET p == Head(todo).path
     IN  Continue(<<Lit("("), Lit("type"), Do("label", p)>>)
  /\ UNCHANGED <<input, content, caller>>

\* expectString: io.EOF becomes ErrUnexpectedEOF, so no error of it is EOF.
ExpectString ==
  /\ Running("lit")
  /\ \E o \in ReadString(Len(Bytes[Head(todo).tok])) :
       /\ Read1(o)
       /\ IF o.err = "none" /\ o.tok = Head(todo).tok
          THEN Continue(<<>>)
          ELSE Fail("error")
  /\ UNCHANGED <<content, caller>>

\* The switch on the type label.  Its default falls through to the check for
\* ")", which a label ")" satisfies.
Label ==
  /\ Running("label")
  /\ \E o \in ReadString(tokenLenMax) :
       /\ Read1(o)
       /\ LET p == Head(todo).path
              label == o.err = "none"
          IN  \/ /\ label /\ o.tok = "regular"
                 /\ Continue(<<Do("regular", p)>>) /\ UNCHANGED content
              \/ /\ label /\ o.tok = "symlink"
                 /\ Continue(<<Lit("target"), Do("target", p)>>) /\ UNCHANGED content
              \/ /\ label /\ o.tok = "directory"
                 /\ content' = Dummy
                 /\ Offer([NoHeader EXCEPT !.path = p], Do("entries", p))
              \/ /\ label /\ o.tok = ")"
                 /\ Continue(<<>>) /\ UNCHANGED content
              \/ /\ label /\ o.tok \notin {"regular", "symlink", "directory", ")"}
                 /\ Fail("error") /\ UNCHANGED content
              \/ ~ label /\ Fail(o.err) /\ UNCHANGED content
  /\ UNCHANGED caller

\* The token of a regular file that is "executable", once, or "contents".
\* A second read follows the empty placeholder of "executable"; errors about
\* the placeholder are wrapped, hence never io.EOF.
RegularToken ==
  /\ Running("regular")
  /\ LET i == Head(todo)
     IN  \E o \in ReadString(IF i.exec THEN tokenLenMax ELSE Len(Bytes["executable"])) :
           /\ Read1(o)
           /\ \/ /\ o.err = "none" /\ o.tok = "contents"
                 /\ Continue(<<With("contents", i.path, EmptyString, i.exec)>>)
              \/ /\ o.err = "none" /\ o.tok = "executable" /\ ~ i.exec
                 /\ Continue(<<Lit(EmptyString), With("regular", i.path, EmptyString, TRUE)>>)
              \/ /\ o.err = "none" /\ o.tok # "contents" /\ (o.tok = "executable" => i.exec)
                 /\ Fail("error")
              \/ o.err # "none" /\ Fail(o.err)
  /\ UNCHANGED <<content, caller>>

\* Variant: the header goes out before nr.contentReader is set.
ContentsLate ==
  /\ Running("contents") /\ pos <= Len(stream)
  /\ inside' = TRUE /\ off' = 0
  /\ LET i == Head(todo)
     IN  Offer([path |-> i.path, type |-> "regular", size |-> stream[pos].size,
                exec |-> i.exec], Do("seek", i.path))
  /\ UNCHANGED <<stream, pos, content, caller>>

\* wire.ReadBytes: the length field is read, the content is left to the
\* caller, and the header goes out.
Contents ==
  /\ Running("contents")
  /\ LET i == Head(todo)
     IN  IF pos > Len(stream)
         THEN Fail("EOF") /\ UNCHANGED <<input, content>>
         ELSE IF stream[pos].have \in {"length", "huge"}
         THEN Fail("error") /\ UNCHANGED <<input, content>>
         ELSE /\ inside' = TRUE /\ off' = 0
              /\ content' = [limit |-> stream[pos].size, owner |-> i.path, dummy |-> FALSE]
              /\ Offer([path |-> i.path, type |-> "regular",
                        size |-> stream[pos].size, exec |-> i.exec],
                       Do("seek", i.path))
              /\ UNCHANGED <<stream, pos>>
  /\ UNCHANGED caller

\* The caller asked for the next header: skip what it left of the content
\* and the padding.
Seek ==
  /\ Running("seek")
  /\ inside' = FALSE /\ off' = 0 /\ pos' = pos + 1
  /\ content' = [content EXCEPT !.limit = 0]
  /\ LET e == CloseContent(stream[pos])
     IN  IF e = "none" THEN Continue(<<Do("end", Head(todo).path)>>)
         ELSE Fail(e)
  /\ UNCHANGED <<stream, caller>>

\* The target of a symlink; its content reader is empty.
Target ==
  /\ Running("target")
  /\ \E o \in ReadString(pathLenMax) :
       /\ Read1(o)
       /\ LET p == Head(todo).path
          IN  IF o.err # "none" THEN Fail(o.err) /\ UNCHANGED content
              ELSE /\ content' = Dummy
                   /\ Offer([NoHeader EXCEPT !.path = p, !.type = "symlink"],
                            Do("end", p))
  /\ UNCHANGED caller

\* The ")" that ends a regular file or a symlink; io.EOF passes through.
EndNode ==
  /\ Running("end")
  /\ \E o \in ReadString(tokenLenMax) :
       /\ Read1(o)
       /\ \/ o.err = "none" /\ o.tok = ")" /\ Continue(<<>>)
          \/ o.err = "none" /\ o.tok # ")" /\ Fail("error")
          \/ o.err # "none" /\ Fail(o.err)
  /\ UNCHANGED <<content, caller>>

\* The loop over the entries of a directory.  A token that is neither
\* "entry" nor ")" starts the next round.
Entries ==
  /\ Running("entries")
  /\ \E o \in ReadString(tokenLenMax) :
       /\ Read1(o)
       /\ LET p == Head(todo).path
          IN  \/ /\ o.err = "none" /\ o.tok = "entry"
                 /\ Continue(<<Lit("("), Lit("name"), Do("name", p)>>)
              \/ /\ o.err = "none" /\ o.tok = ")"
                 /\ Continue(<<>>)
              \/ /\ o.err = "none" /\ o.tok \notin {"entry", ")"}
                 /\ Continue(<<Do("entries", p)>>)
              \/ o.err # "none" /\ Fail(o.err)
  /\ UNCHANGED <<content, caller>>

\* Variant: the path of the entry replaces the path of the directory.
EntryNameReassigns ==
  /\ Running("name")
  /\ \E o \in ReadString(nameLenMax) :
       /\ Read1(o)
       /\ LET p == Join(Head(todo).path, o.tok)
          IN  IF o.err # "none" THEN Fail(o.err)
              ELSE Continue(<<Lit("node"), Do("node", p),
                              Lit(")"), With("entryEnd", p, o.tok, FALSE)>>)
  /\ UNCHANGED <<content, caller>>

\* The name of an entry, then its node, then the ")" of the entry.
EntryName ==
  /\ Running("name")
  /\ \E o \in ReadString(nameLenMax) :
       /\ Read1(o)
       /\ LET p == Head(todo).path
          IN  \/ /\ o.err = "none" /\ IsValidNodeName(o.tok)
                 /\ Continue(<<Lit("node"), Do("node", Join(p, o.tok)),
                               Lit(")"), With("entryEnd", p, o.tok, FALSE)>>)
              \/ o.err = "none" /\ ~ IsValidNodeName(o.tok) /\ Fail("error")
              \/ o.err # "none" /\ Fail(o.err)
  /\ UNCHANGED <<content, caller>>

\* The end of the loop body: currentToken still holds the name of the entry,
\* and the loop ends if it is ")".
EntryEnd ==
  /\ Running("entryEnd")
  /\ LET i == Head(todo)
     IN  IF i.tok = ")" THEN Continue(<<>>)
         ELSE Continue(<<Do("entries", i.path)>>)
  /\ UNCHANGED <<input, content, caller>>

\* Variant: the goroutine just ends.
FinishSilently ==
  /\ ppc = "run" /\ todo = <<>>
  /\ ppc' = "exited"
  /\ UNCHANGED <<input, content, todo, msg, caller>>

\* parseNode("/") has returned nil: "errors <- io.EOF".
Finish ==
  /\ ppc = "run" /\ todo = <<>>
  /\ Fail("EOF")
  /\ UNCHANGED <<input, content, caller>>

\* "<-nr.next" yields false: the innermost parseNode returns nil, and the
\* calls around it go on.
StoppedByClose ==
  /\ ppc = "await" /\ closed
  /\ Continue(<<>>)
  /\ UNCHANGED <<input, content, caller>>

\* What the parser does by itself; the rest it does together with the caller.
ParserAlone ==
  \/ ParseNode \/ ExpectString \/ Label \/ RegularToken \/ Contents \/ Seek
  \/ Target \/ EndNode \/ Entries \/ EntryName \/ EntryEnd \/ Finish
  \/ StoppedByClose
-----------------------------------------------------------------------------
(* The caller. *)

\* Variant: an error of the parser does not keep Next from resuming it.
CallNextNoFuse ==
  /\ cpc = "idle" /\ fuse # "EOF" /\ ~ closed
  /\ cpc' = "sendNext"
  /\ UNCHANGED <<input, content, parser, closed, fuse, prevPath, delivered, panic>>

\* Next, up to "nr.next <- true".  With nr.err set it returns that and
\* changes nothing; on a closed channel it panics.
CallNext ==
  /\ cpc = "idle" /\ fuse = "none"
  /\ IF closed THEN cpc' = "panicked" /\ panic' = "nextAfterClose"
               ELSE cpc' = "sendNext" /\ UNCHANGED panic
  /\ UNCHANGED <<input, content, parser, closed, fuse, prevPath, delivered>>

\* "nr.next <- true" meets "<-nr.next" of the parser waiting after a header.
Resume ==
  /\ cpc = "sendNext" /\ ppc = "await"
  /\ cpc' = "select" /\ ppc' = "run"
  /\ UNCHANGED <<input, content, todo, msg, closed, fuse, prevPath, delivered, panic>>

\* Variant: the parser does not wait for the next Next.
TakeHeaderNoWait ==
  /\ cpc = "select" /\ ppc = "offer"
  /\ cpc' = "idle" /\ ppc' = "run"
  /\ prevPath' = msg.hdr.path /\ delivered' = Append(delivered, msg.hdr)
  /\ UNCHANGED <<input, content, todo, msg, closed, fuse, panic>>

\* Variant: nr.previousHdrPath is never updated.
TakeHeaderForgets ==
  /\ cpc = "select" /\ ppc = "offer"
  /\ cpc' = "idle" /\ ppc' = "await"
  /\ delivered' = Append(delivered, msg.hdr)
  /\ UNCHANGED <<input, content, todo, msg, closed, fuse, prevPath, panic>>

\* Next receives a header: out of order it blows the fuse, and the parser
\* stays where it is.
TakeHeader ==
  /\ cpc = "select" /\ ppc = "offer"
  /\ cpc' = "idle" /\ ppc' = "await"
  /\ IF PathIsLexicographicallyOrdered(PathString(prevPath), PathString(msg.hdr.path))
     THEN /\ prevPath' = msg.hdr.path
          /\ delivered' = Append(delivered, msg.hdr)
          /\ UNCHANGED fuse
     ELSE fuse' = "order" /\ UNCHANGED <<prevPath, delivered>>
  /\ UNCHANGED <<input, content, todo, msg, closed, panic>>

\* Next receives an error, io.EOF among them; the parser goroutine closes
\* its channels and ends.
TakeError ==
  /\ cpc = "select" /\ ppc = "fail"
  /\ cpc' = "idle" /\ ppc' = "exited"
  /\ fuse' = msg.err
  /\ UNCHANGED <<input, content, todo, msg, closed, prevPath, delivered, panic>>

\* Variant: Read reads nr.r itself instead of the limited reader.
ReadUnlimited ==
  /\ cpc = "idle" /\ ~ closed /\ inside
  /\ off' = off + 1
  /\ content' = [content EXCEPT !.limit = @ - 1]
  /\ UNCHANGED <<stream, pos, inside, parser, caller>>

\* Read of one unit.  At the limit, or when the stream ends early, it
\* returns io.EOF and changes nothing.  The code does not keep a caller from a
\* Read after Close, which may race with a parser that unwinds over the same
\* bytes; that is left out here.
Read ==
  /\ cpc = "idle" /\ ~ closed
  /\ content.limit > 0 /\ off < Present(stream[pos])
  /\ off' = off + 1
  /\ content' = [content EXCEPT !.limit = @ - 1]
  /\ UNCHANGED <<stream, pos, inside, parser, caller>>

\* Close: nothing after io.EOF, else close(nr.next), which panics on a
\* channel already closed.
Close ==
  /\ cpc = "idle" /\ fuse # "EOF"
  /\ IF closed THEN cpc' = "panicked" /\ panic' = "closeTwice" /\ UNCHANGED closed
               ELSE closed' = TRUE /\ UNCHANGED <<cpc, panic>>
  /\ UNCHANGED <<input, content, parser, fuse, prevPath, delivered>>

\* The two halves of a channel operation, and the steps of the parser.
Library == ParserAlone \/ Start \/ Resume \/ TakeHeader \/ TakeError

Next == Library \/ CallNext \/ Read \/ Close

Spec == Init /\ [][Next]_vars

\* The Go scheduler runs a goroutine that can run: the parser, and a caller
\* whose channel operation has a partner.  Nothing makes the caller call.
FairSpec == Spec /\ WF_vars(Library)
-----------------------------------------------------------------------------
(* Properties. *)

\* nr.r and nr.contentReader are not locked: the two goroutines may only
\* touch them in turns.  While the Reader is open, the parser is at work or
\* holds a result exactly during a call of Next; whenever the caller is
\* outside of Next the parser is blocked on nr.next or gone.
HandoffExclusive ==
  ~ closed => (ppc \in {"run", "offer", "fail"} <=> cpc = "select")

\* Whenever the caller may Read, the reader set by the parser goroutine is
\* the one of the header Next returned last: it has exactly the bytes of that
\* file not yet read, and none for a symlink, a directory or before Next.
ContentMatchesHeader ==
  (cpc = "idle" /\ fuse = "none" /\ ~ closed) =>
    LET regular == delivered # <<>> /\ delivered[Len(delivered)].type = "regular"
        last == delivered[Len(delivered)]
    IN  /\ regular => /\ ~ content.dummy /\ content.owner = last.path
                      /\ inside /\ content.limit + off = last.size
        /\ ~ regular => content.limit = 0

\* Once Next has returned an error, io.EOF included, every later call
\* returns that error and no header (the fuse nr.err).
FuseIsFinal ==
  [][fuse # "none" => UNCHANGED <<fuse, delivered>>]_vars

\* On any archive, however damaged, a header below the root comes after the
\* header of a directory at its parent path.
ParentsFirst ==
  \A i \in DOMAIN delivered :
    LET p == delivered[i].path
    IN  p # <<>> => \E j \in 1 .. i - 1 :
                      /\ delivered[j].type = "directory"
                      /\ delivered[j].path = SubSeq(p, 1, Len(p) - 1)

\* On any archive, no header comes after one of a greater sibling: Next
\* checks neighbours only, and may trust that the check carries over a whole
\* subtree between two siblings.
SiblingsInOrder ==
  \A j \in DOMAIN delivered : \A i \in 1 .. j - 1 :
    LET p == delivered[i].path
        q == delivered[j].path
        n == Len(p)
    IN  (n > 0 /\ Len(q) = n /\ SubSeq(p, 1, n - 1) = SubSeq(q, 1, n - 1))
          => StringLeq(Bytes[p[n]], Bytes[q[n]])

\* A call of Next on an open Reader returns, whatever the archive holds.
NextReturns == (cpc \in {"sendNext", "select"}) ~> (cpc = "idle")

\* The parser goroutine of a Reader that is closed before its first Next
\* ends.
UnusedReaderEnds == (closed /\ ppc = "start") ~> (ppc = "exited")
=============================================================================
