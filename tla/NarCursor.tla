----------------------------- MODULE NarCursor -----------------------------
(***************************************************************************)
(* What nar.Reader promises its caller (the comments of Next, Read and     *)
(* Close in pkg/nar/reader.go), without goroutines, packets or channels: a *)
(* cursor over the headers of the archive that reads the file it is at.    *)
(***************************************************************************)
EXTENDS Integers, Sequences

VARIABLES
  files,   \* the headers of the archive, in its order
  at,      \* how many of them have been returned
  left,    \* units of the current file still to be read
  busy,    \* a call to Next is under way
  ended,   \* Next has returned io.EOF
  closed   \* Close has been called

cursorVars == <<files, at, left, busy, ended, closed>>

Init ==
  /\ at = 0 /\ left = 0
  /\ busy = FALSE /\ ended = FALSE /\ closed = FALSE

\* Next is called: the rest of the current file is discarded.
Call ==
  /\ ~ busy /\ ~ ended /\ ~ closed
  /\ busy' = TRUE /\ left' = 0
  /\ UNCHANGED <<files, at, ended, closed>>

\* Next returns the next header, or io.EOF behind the last one.
Return ==
  /\ busy
  /\ busy' = FALSE
  /\ IF at < Len(files)
     THEN at' = at + 1 /\ left' = files[at + 1].size /\ UNCHANGED ended
     ELSE ended' = TRUE /\ UNCHANGED <<at, left>>
  /\ UNCHANGED <<files, closed>>

\* Read takes a unit of the current file.
Take ==
  /\ ~ busy /\ ~ closed /\ left > 0
  /\ left' = left - 1
  /\ UNCHANGED <<files, at, busy, ended, closed>>

Shut ==
  /\ ~ busy /\ ~ ended /\ ~ closed
  /\ closed' = TRUE /\ left' = 0
  /\ UNCHANGED <<files, at, busy, ended>>

Next == Call \/ Return \/ Take \/ Shut

\* What the cursor may do, and that a call to Next returns.
Safe == Init /\ [][Next]_cursorVars
Spec == Safe /\ WF_cursorVars(Return)
=============================================================================
