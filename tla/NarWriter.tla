----------------------------- MODULE NarWriter -----------------------------
(***************************************************************************)
(* nar.Writer (pkg/nar/writer.go) over wire.BytesWriter (pkg/wire).        *)
(*                                                                         *)
(* The caller runs WriteHeader, Write and Close; the emitter goroutine,    *)
(* started by NewWriter, runs emitNode.  They meet on the unbuffered       *)
(* channels headers, doneWritingHeader and errors.  emitNode calls itself  *)
(* for an entry of a directory and returns the first header that does not  *)
(* belong below its own; stack holds the headers of its active calls.      *)
(*                                                                         *)
(* While the emitter works the caller waits for it, so that a run of       *)
(* writes without a channel operation between them is one step.            *)
(***************************************************************************)
EXTENDS NarPath, NarPacket

CONSTANTS
  Headers,    \* the headers a caller may pass to WriteHeader
  MaxHeaders, \* bound: how many of them it passes
  WritesFail  \* whether a write to the underlying io.Writer may fail

ASSUME NarWriterAssumption ==
  /\ Headers \subseteq Header
  /\ MaxHeaders \in Nat
  /\ WritesFail \in BOOLEAN
  /\ {EmptyString, "(", ")", "type", "executable", "contents", "target", "to", "blob",
      "entry", "name", "node", "."} \subseteq Strings
  /\ Types \subseteq Strings

VARIABLES
  out,       \* the packets written to nw.w, past the magic
  body,      \* nw.contentWriter: bytes allowed and written so far
  stack,     \* the headers of the active calls of emitNode, innermost last
  epc,       \* where the emitter goroutine is
  next,      \* nextHeader: a sequence of one header, or of none for nil
  cpc,       \* where the caller is
  arg,       \* the header of the WriteHeader call under way
  closed,    \* nw.closed, set with close(nw.headers)
  accepted,  \* history: the headers for which WriteHeader returned nil
  sent,      \* how many headers WriteHeader was called with
  refused,   \* history: a call has received an error of the emitter
  outcome    \* what the last call returned

emitter == <<out, body, stack, epc, next>>
caller == <<cpc, arg, closed, accepted, sent, refused, outcome>>
vars == <<out, body, stack, epc, next, cpc, arg, closed, accepted, sent, refused, outcome>>

Packet == [str : Strings, size : Nat, have : {"full", "none"}]

TypeOK ==
  /\ out \in Seq(Packet)
  /\ body \in [total : Nat, written : Nat]
  /\ stack \in Seq(Header)
  /\ epc \in {"first", "emit", "done", "await", "loop", "return", "fail", "exited"}
  /\ next \in Seq(Header) /\ Len(next) <= 1
  /\ cpc \in {"idle", "sendHeader", "select", "closing"}
  /\ arg \in Seq(Header) /\ Len(arg) <= 1
  /\ closed \in BOOLEAN
  /\ accepted \in Seq(Header)
  /\ sent \in 0 .. MaxHeaders
  /\ refused \in BOOLEAN
  /\ outcome \in {"none", "ok", "error"}

Nil == <<>>

\* NewWriter, once the magic is written.  There is no contentWriter yet; a
\* Write before the first WriteHeader is left out.
Init ==
  /\ out = <<>> /\ body = [total |-> 0, written |-> 0]
  /\ stack = <<>> /\ epc = "first" /\ next = Nil
  /\ cpc = "idle" /\ arg = Nil /\ closed = FALSE
  /\ accepted = <<>> /\ sent = 0 /\ refused = FALSE /\ outcome = "none"

\* Header.Validate, for the fields a Header has here: only regular files
\* have a size or are executable.  Left out are headers with a path that has
\* a null byte or does not start with a slash and links without a target or
\* others with one, which it refuses, and a negative Size of a regular file,
\* which it does not.
Validate(h) == h.type # "regular" => h.size = 0 /\ ~ h.exec
-----------------------------------------------------------------------------
(* filepath.Rel between two clean absolute paths, and what emitNode asks   *)
(* of its result.                                                          *)

IsPrefixOf(p, q) == Len(p) <= Len(q) /\ SubSeq(q, 1, Len(p)) = p

Below(p, q) == SubSeq(q, Len(p) + 1, Len(q))

StartsWithDots(n) == Len(Bytes[n]) >= 2 /\ SubSeq(Bytes[n], 1, 2) = <<Dot, Dot>>

\* len(nodeName) > 2 && nodeName[0:2] == "..": meant for the paths that
\* leave p, it also holds for a name that starts with two dots.
LeavesDirectory(p, q) ==
  IF IsPrefixOf(p, q)
  THEN LET rest == Below(p, q)
       IN  rest # <<>> /\ StartsWithDots(rest[1])
             /\ (Len(rest) > 1 \/ Len(Bytes[rest[1]]) > 2)
  ELSE Len(p) # Len(q) + 1 \/ ~ IsPrefixOf(q, p)

\* IsValidNodeName(nodeName): a single name, or "." for the path itself.
IsSingleName(p, q) == IsPrefixOf(p, q) /\ Len(q) <= Len(p) + 1

\* Variant: the name relative to the root.
NameInRoot(p, q) == IF p = q THEN "." ELSE q[1]

NodeName(p, q) == IF p = q THEN "." ELSE q[Len(q)]
-----------------------------------------------------------------------------
(* The emitter goroutine. *)

Fail == epc' = "fail" /\ UNCHANGED <<stack, next>>

\* Write ss and go on as OnSuccess says, or fail at one of the writes.
Writing(ss, OnSuccess) ==
  \/ out' = out \o ss /\ OnSuccess
  \/ /\ WritesFail
     /\ \E k \in 0 .. Len(ss) - 1 : out' = out \o SubSeq(ss, 1, k)
     /\ Fail

Top == stack[Len(stack)]
Pop == SubSeq(stack, 1, Len(stack) - 1)

\* Variant: the goroutine waits for a header only.
FirstHeaderOnly ==
  /\ epc = "first" /\ cpc = "sendHeader"
  /\ cpc' = "select" /\ next' = arg
  /\ epc' = IF arg[1].path = <<>> THEN "emit" ELSE "fail"
  /\ UNCHANGED <<out, body, stack, arg, closed, accepted, sent, refused, outcome>>

\* The first header, or a Close without one.
First ==
  /\ epc = "first"
  /\ \/ /\ cpc = "sendHeader"
        /\ cpc' = "select"
        /\ next' = arg
        /\ epc' = IF arg[1].path = <<>> THEN "emit" ELSE "fail"
     \/ /\ closed
        /\ epc' = "fail"
        /\ UNCHANGED <<cpc, next>>
  /\ UNCHANGED <<out, body, stack, arg, closed, accepted, sent, refused, outcome>>

\* Variant: the length field is one too small.
OpeningShort(h) ==
  Toks(<<"(", "type", h.type>>)
    \o (IF h.type = "regular" THEN <<Tok("contents"), OpenBlob(h.size - 1)>> ELSE <<>>)

\* What emitNode writes before it hands control back to WriteHeader.
Opening(h) ==
  Toks(<<"(", "type", h.type>>)
    \o (IF h.type = "regular"
        THEN (IF h.exec THEN <<Tok("executable"), Empty>> ELSE <<>>)
               \o <<Tok("contents"), OpenBlob(h.size)>>
        ELSE IF h.type = "symlink" THEN Toks(<<"target", "to">>) ELSE <<>>)

\* Variant: emitNode does not tell WriteHeader that it is done.
EmitNodeSilent ==
  /\ epc = "emit"
  /\ out' = out \o Opening(next[1]) /\ stack' = Append(stack, next[1])
  /\ epc' = "await" /\ next' = Nil
  /\ body' = [total |-> next[1].size, written |-> 0]
  /\ UNCHANGED caller

\* The start of emitNode.  The content writer of a symlink or a directory
\* allows no byte.
EmitNode ==
  /\ epc = "emit"
  /\ LET h == next[1]
     IN  \/ /\ out' = out \o Opening(h)
            /\ stack' = Append(stack, h)
            /\ epc' = "done"
            /\ next' = Nil
            /\ body' = [total |-> h.size, written |-> 0]
         \/ /\ WritesFail
            /\ \E k \in 0 .. Len(Opening(h)) - 1 : out' = out \o SubSeq(Opening(h), 1, k)
            /\ Fail
            /\ UNCHANGED body
  /\ UNCHANGED caller

\* "nw.doneWritingHeader <- struct{}{}": WriteHeader returns nil.
HeaderDone ==
  /\ epc = "done" /\ cpc = "select"
  /\ epc' = "await" /\ cpc' = "idle"
  /\ accepted' = Append(accepted, arg[1])
  /\ outcome' = "ok"
  /\ UNCHANGED <<out, body, stack, next, arg, closed, sent, refused>>

\* Variant: the file may be shorter than its header says.
NotTooLong == body.written <= body.total

\* contentWriter.Close: the packet must be complete, then its padding is
\* written.
Complete == body.written = body.total

Pad(o) ==
  IF o # <<>> /\ o[Len(o)].have = "none" /\ body.written = body.total
  THEN [o EXCEPT ![Len(o)].have = "full"]
  ELSE o

\* Variant: a Close does not reach an emitter that waits for a header.
ReceiveHeaderOnly ==
  /\ epc = "await" /\ cpc = "sendHeader"
  /\ cpc' = "select" /\ next' = arg
  /\ IF Complete THEN out' = Pad(out) /\ epc' = "loop" ELSE UNCHANGED out /\ epc' = "fail"
  /\ UNCHANGED <<body, stack, arg, closed, accepted, sent, refused, outcome>>

\* The next header, or none because of a Close, ends the current file.
Receive ==
  /\ epc = "await"
  /\ \/ cpc = "sendHeader" /\ cpc' = "select" /\ next' = arg
     \/ closed /\ UNCHANGED cpc /\ next' = Nil
  /\ \/ Complete /\ out' = Pad(out) /\ epc' = "loop"
     \/ Complete /\ WritesFail /\ body.total > 0 /\ UNCHANGED out /\ epc' = "fail"
     \/ ~ Complete /\ UNCHANGED out /\ epc' = "fail"
  /\ UNCHANGED <<body, stack, arg, closed, accepted, sent, refused, outcome>>

\* One round of the loop of emitNode.  Without a header, or with one that is
\* not below the current one, write the closing ")" and return.
Leave ==
  /\ epc = "loop"
  /\ \/ next = Nil
     \/ /\ next # Nil
        /\ PathIsLexicographicallyOrdered(PathString(Top.path), PathString(next[1].path))
        /\ LeavesDirectory(Top.path, next[1].path)
  /\ Writing(Toks(<<")">>), epc' = "return" /\ stack' = Pop /\ UNCHANGED next)
  /\ UNCHANGED <<body, caller>>

\* A header that is out of order, below something that is no directory, or
\* more than one level down.
Reject ==
  /\ epc = "loop" /\ next # Nil
  /\ LET p == Top.path
         q == next[1].path
     IN  \/ ~ PathIsLexicographicallyOrdered(PathString(p), PathString(q))
         \/ ~ LeavesDirectory(p, q) /\ (Top.type # "directory" \/ ~ IsSingleName(p, q))
  /\ Fail
  /\ UNCHANGED <<out, body, caller>>

\* An entry of the current directory.
Enter ==
  /\ epc = "loop" /\ next # Nil
  /\ LET p == Top.path
         q == next[1].path
     IN  /\ PathIsLexicographicallyOrdered(PathString(p), PathString(q))
         /\ ~ LeavesDirectory(p, q)
         /\ Top.type = "directory" /\ IsSingleName(p, q)
         /\ Writing(Toks(<<"entry", "(", "name", NodeName(p, q), "node">>),
                    epc' = "emit" /\ UNCHANGED <<stack, next>>)
  /\ UNCHANGED <<body, caller>>

\* emitNode has returned: to the loop of the call around it, which closes
\* the entry, or to the goroutine, for which a header left over is an error.
Return ==
  /\ epc = "return"
  /\ \/ /\ stack # <<>>
        /\ Writing(Toks(<<")">>), epc' = "loop" /\ UNCHANGED <<stack, next>>)
     \/ /\ stack = <<>>
        /\ epc' = IF next = Nil THEN "exited" ELSE "fail"
        /\ UNCHANGED <<out, stack, next>>
  /\ UNCHANGED <<body, caller>>
-----------------------------------------------------------------------------
(* The caller. *)

\* WriteHeader, up to "nw.headers <- hdr"; an invalid header is refused at
\* once.  After a Close it would panic, which is left out.
WriteHeader(h) ==
  /\ cpc = "idle" /\ ~ closed /\ sent < MaxHeaders
  /\ sent' = sent + 1
  /\ IF Validate(h) THEN cpc' = "sendHeader" /\ arg' = <<h>> /\ UNCHANGED outcome
                    ELSE outcome' = "error" /\ UNCHANGED <<cpc, arg>>
  /\ UNCHANGED <<emitter, closed, accepted, refused>>

\* Write of one unit; more than the header announced is refused and changes
\* nothing.
Write ==
  /\ cpc = "idle" /\ accepted # <<>>
  /\ body.written < body.total
  /\ body' = [body EXCEPT !.written = @ + 1]
  /\ UNCHANGED <<out, stack, epc, next, caller>>

\* Close, up to "<-nw.errors"; a second one is an error and changes nothing.
Close ==
  /\ cpc = "idle" /\ ~ closed
  /\ closed' = TRUE /\ cpc' = "closing"
  /\ UNCHANGED <<emitter, arg, accepted, sent, refused, outcome>>

\* Variant: the goroutine waits for another header after an error.
TakeErrorGoesOn ==
  /\ epc = "fail" /\ cpc \in {"select", "closing"}
  /\ epc' = (IF stack = <<>> THEN "exited" ELSE "await") /\ cpc' = "idle"
  /\ refused' = TRUE /\ outcome' = "error"
  /\ UNCHANGED <<out, body, stack, next, arg, closed, accepted, sent>>

\* "nw.errors <- err" meets WriteHeader or Close; the goroutine ends.
TakeError ==
  /\ epc = "fail" /\ cpc \in {"select", "closing"}
  /\ epc' = "exited" /\ cpc' = "idle"
  /\ refused' = TRUE /\ outcome' = "error"
  /\ UNCHANGED <<out, body, stack, next, arg, closed, accepted, sent>>

\* nw.errors is closed: Close returns nil.
CloseReturns ==
  /\ epc = "exited" /\ cpc = "closing"
  /\ cpc' = "idle" /\ outcome' = "ok"
  /\ UNCHANGED <<emitter, arg, closed, accepted, sent, refused>>

Library ==
  \/ First \/ EmitNode \/ HeaderDone \/ Receive \/ Leave \/ Reject \/ Enter \/ Return
  \/ TakeError \/ CloseReturns

Next == Library \/ (\E h \in Headers : WriteHeader(h)) \/ Write \/ Close

Spec == Init /\ [][Next]_vars

\* The scheduler runs a goroutine that can run, and a caller whose channel
\* operation has a partner; nothing makes the caller call.
FairSpec == Spec /\ WF_vars(Library)
-----------------------------------------------------------------------------
(* Properties. *)

\* No packet is written behind one that is not complete: the headers that
\* come in while the caller still owes bytes of a file never reach nw.w.
OutputAligned == \A i \in 1 .. Len(out) - 1 : out[i].have = "full"

\* Once a call has returned an error of the emitter, no packet is begun and
\* no header is accepted any more.
ErrorIsFinal == [][refused => UNCHANGED <<out, accepted>>]_vars

\* The emitter refuses the header of the WriteHeader call under way, which
\* is told from a write that fails.
Refuse ==
  /\ First \/ Reject \/ (stack = <<>> /\ Return)
  /\ epc' = "fail" /\ cpc' = "select"

\* Close returns, whatever went before.
CloseReturnsAlways == (cpc = "closing") ~> (cpc = "idle")

\* WriteHeader returns as long as no call has failed.
WriteHeaderReturnsAtFirst == (cpc \in {"sendHeader", "select"} /\ ~ refused) ~> (cpc = "idle")

\* The emitter goroutine of a Writer that is closed ends.
ClosedWriterEnds == closed ~> (epc = "exited")
=============================================================================
