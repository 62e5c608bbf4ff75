----------------------------- MODULE NarPacket -----------------------------
(***************************************************************************)
(* The packets of a NAR archive, as pkg/wire writes them: a length field,  *)
(* a content and a padding to eight bytes.  str is the content as a        *)
(* string, size the content in units that are read and written one by one, *)
(* and have says how much of the packet is there (see NarReader).          *)
(***************************************************************************)
EXTENDS Integers, Sequences

EmptyString == ""

\* WriteString(w, s), all of it.
Tok(s) == [str |-> s, size |-> 1, have |-> "full"]

\* WriteBytes(w, []byte{}): the placeholder behind "executable".
Empty == [str |-> EmptyString, size |-> 0, have |-> "full"]

\* The content of a regular file: all of it, or only its length field.
Blob(n) == [str |-> "blob", size |-> n, have |-> "full"]
OpenBlob(n) == [str |-> "blob", size |-> n, have |-> "none"]

Toks(ss) == [i \in 1 .. Len(ss) |-> Tok(ss[i])]
=============================================================================
