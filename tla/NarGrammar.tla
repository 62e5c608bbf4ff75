----------------------------- MODULE NarGrammar -----------------------------
(***************************************************************************)
(* What a NAR archive is, for all trees: the order of the tree and the     *)
(* grammar, as the theorems about Reader and Writer use them.  Nothing     *)
(* here is code of the repository; the grammar is the one that parseNode   *)
(* and emitNode spell out token by token.                                  *)
(***************************************************************************)
EXTENDS NarPath, NarPacket

(* The order of the tree: a directory before what is below it, siblings by *)
(* their names.                                                            *)

SameNames(p, q, k) == \A i \in 1 .. k : Bytes[p[i]] = Bytes[q[i]]

Parts(p, q, k) ==
  /\ k <= Len(p) /\ k <= Len(q) /\ SameNames(p, q, k)
  /\ k < Len(p) => /\ k < Len(q)
                   /\ StringLeq(Bytes[p[k + 1]], Bytes[q[k + 1]])
                   /\ Bytes[p[k + 1]] # Bytes[q[k + 1]]

TreeLeq(p, q) == \E k \in Nat : Parts(p, q, k)

SlashFree(n) == \A i \in 1 .. Len(n) : n[i] # Slash

\* The names of the paths that Next and WriteHeader see: Join drops an empty
\* name, IsValidNodeName refuses one with a slash.
Proper(p) == \A i \in 1 .. Len(p) : Bytes[p[i]] # <<>> /\ SlashFree(Bytes[p[i]])

-----------------------------------------------------------------------------
(* The grammar is stated as rules for a set of nodes, each with the headers *)
(* that list it and the packets that spell it; what every set with these    *)
(* rules holds is an archive.  A directory is "open" before its ")".        *)

\* The packets of a regular file or of a symlink.
LeafPackets(h) ==
  Toks(<<"(", "type", h.type>>)
    \o (IF h.type = "regular"
        THEN (IF h.exec THEN <<Tok("executable"), Empty>> ELSE <<>>)
               \o <<Tok("contents"), Blob(h.size)>>
        ELSE Toks(<<"target", "to">>))
    \o Toks(<<")">>)

Intro(h) == Toks(<<"entry", "(", "name", h.path[Len(h.path)], "node">>)

LastOf(hs) == hs[Len(hs)].path

\* h may be the next entry of the directory that hs lists so far.
EntryOf(hs, h) ==
  /\ \E n \in Strings : h.path = Append(hs[1].path, n)
  /\ TreeLeq(LastOf(hs), h.path) /\ LastOf(hs) # h.path

Grammar(S) ==
  /\ \A h \in Header : h.type # "directory" => <<"node", <<h>>, LeafPackets(h)>> \in S
  /\ \A h \in Header : h.type = "directory" =>
       <<"open", <<h>>, Toks(<<"(", "type", "directory">>)>> \in S
  /\ \A hs, es, o, e :
       <<"open", hs, o>> \in S /\ <<"node", es, e>> \in S /\ EntryOf(hs, es[1])
         => <<"open", hs \o es, o \o Intro(es[1]) \o e \o Toks(<<")">>)>> \in S
  /\ \A hs, o :
       <<"open", hs, o>> \in S => <<"node", hs, o \o Toks(<<")">>)>> \in S

IsArchive(hs, o) == \A S : Grammar(S) => <<"node", hs, o>> \in S

-----------------------------------------------------------------------------
(* The archives that a Reader takes as they are.                           *)

\* Of 255 bytes at most, and nothing that path.Join resolves; behind an entry
\* that has ")" for a name, parseNode takes the directory to have ended.
ReadableName(n) ==
  /\ IsValidNodeName(n) /\ Len(Bytes[n]) <= 255 /\ n # ")"
  /\ Bytes[n] # <<>> /\ Bytes[n] # <<Dot>> /\ Bytes[n] # <<Dot, Dot>>

ReadableHeader(h) ==
  /\ \A i \in 1 .. Len(h.path) : ReadableName(h.path[i])
  /\ h.type # "regular" => h.size = 0 /\ ~ h.exec

Readable(hs) == \A i \in 1 .. Len(hs) : ReadableHeader(hs[i])

\* o is the archive of a tree of which hs are the headers.
ArchiveOf(hs, o) == IsArchive(hs, o) /\ hs[1].path = <<>> /\ Readable(hs)
=============================================================================
