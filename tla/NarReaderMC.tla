---------------------------- MODULE NarReaderMC ----------------------------
(***************************************************************************)
(* Instances of NarReader for TLC: the archives of every small tree, and   *)
(* archives with one flaw.                                                 *)
(***************************************************************************)
EXTENDS NarReader, NarFormat, FiniteSets

\* "-" sorts before "/": of the names a and a- a plain comparison of paths
\* puts /a- before /a/a, an archive puts it after.
MCStrings ==
  {"", "(", ")", "type", "regular", "executable", "contents", "symlink", "target",
   "directory", "entry", "name", "node", "a", "a-", "b", "to", "blob", ".", "..",
   "aaaaaaaaaaaaaaaaaaaaaaaaaaaaaaaaa"}

abc == "abcdefghijklmnopqrstuvwxyz"

MCBytes ==
  [s \in MCStrings |->
     [i \in 1 .. Len(s) |->
        LET c == SubSeq(s, i, i)
        IN  CASE c = "(" -> 40 [] c = ")" -> 41 [] c = "-" -> 45 [] c = "." -> 46
              [] OTHER -> 96 + CHOOSE k \in 1 .. 26 : SubSeq(abc, k, k) = c]]
-----------------------------------------------------------------------------
(* Well-formed archives. *)

Leaves == {Leaf("regular", 0, FALSE), Leaf("regular", 2, TRUE), Leaf("symlink", 0, FALSE)}

SortedLists == {<<>>, <<"a">>, <<"a-">>, <<"a", "a-">>}

Trees == Nodes(2, SortedLists, Leaves)

TreeStreams == {Serialize(t) : t \in Trees}

-----------------------------------------------------------------------------
(* Archives with one flaw. *)

\* The extents a packet that is cut short can have.
Cuts(p) ==
  LET n == Len(Bytes[p.str])
  IN  {"length", "none"} \cup (IF n > 1 THEN {"some"} ELSE {})
        \cup (IF n % 8 # 0 THEN {"content"} ELSE {})
        \cup (IF n % 8 \notin {0, 7} THEN {"padding"} ELSE {})

Truncated(s) ==
  {SubSeq(s, 1, k) : k \in 0 .. Len(s) - 1}
    \cup UNION {{SubSeq(s, 1, k - 1) \o <<[s[k] EXCEPT !.have = e]>> : e \in Cuts(s[k])}
                  : k \in 1 .. Len(s)}

Substituted(s, tokens) ==
  {[s EXCEPT ![k] = Tok(t)] : k \in 1 .. Len(s), t \in tokens}

BadlyPadded(s) ==
  {[s EXCEPT ![k].have = "badpad"] : k \in {j \in 1 .. Len(s) : Len(Bytes[s[j].str]) % 8 # 0}}

TooLong(s) ==
  {SubSeq(s, 1, k - 1) \o <<[s[k] EXCEPT !.have = "huge"]>> : k \in 1 .. Len(s)}

Entry(n, node) == [name |-> n, node |-> node]

\* A directory in a directory and every kind of file, and duplicates, names
\* out of order and names that path.Join resolves one substitution away.
Sample ==
  Serialize(Directory(<<Entry("a", Directory(<<Entry("a", Leaf("regular", 0, FALSE)),
                                               Entry("b", Leaf("symlink", 0, FALSE))>>)),
                        Entry("a-", Leaf("regular", 2, TRUE))>>))

Flawed ==
  Truncated(Sample) \cup BadlyPadded(Sample) \cup TooLong(Sample)
    \cup Substituted(Sample, {"", ")", "entry", "directory", "a", "b", ".", "..",
                              "aaaaaaaaaaaaaaaaaaaaaaaaaaaaaaaaa"})

Link == Leaf("symlink", 0, FALSE)

\* The archives of directories whose entries stand in any order, or twice.
Disordered ==
  {Serialize(t) : t \in Directories({<<m, n>> : m, n \in {"a", "a-", "b"}},
                                    {Link} \cup Directories({<<"a">>, <<"b", "a">>}, {Link}))}

FlawedStreams == Flawed \cup Disordered

AllStreams == TreeStreams \cup FlawedStreams
-----------------------------------------------------------------------------
(* The Reader and its abstract specification. *)

\* The listing of a well-formed archive.
ListingOf == [s \in TreeStreams |-> Listing(CHOOSE t \in Trees : Serialize(t) = s, <<>>)]

WellFormed == stream \in TreeStreams

\* The Reader of an archive with a flaw is mapped to a cursor that nobody
\* uses: nothing is said of it here.
Cursor == INSTANCE NarCursor WITH
  files <- IF WellFormed THEN ListingOf[stream] ELSE <<>>,
  at <- IF WellFormed THEN Len(delivered) ELSE 0,
  left <- IF WellFormed /\ cpc = "idle" /\ ~ closed THEN content.limit ELSE 0,
  busy <- WellFormed /\ cpc \in {"sendNext", "select"},
  ended <- WellFormed /\ fuse = "EOF",
  closed <- WellFormed /\ closed

\* On a well-formed archive the Reader is the cursor its comments promise:
\* every header of the tree in archive order, the bytes of the file it
\* stands at, and io.EOF behind the last header and never before.
ImplementsCursor == Cursor!Spec
-----------------------------------------------------------------------------
(* What the comments say and the code does not do. *)

\* Names that IsValidNodeName accepts.
BracketStreams ==
  {Serialize(t) : t \in Directories({<<"(", "a">>, <<")", "a">>}, {Link})}

\* io.EOF "at the end of input": no packet of the archive is left unread.
EndMeansAllRead == fuse = "EOF" => pos > Len(stream)
=============================================================================
