---------------------------- MODULE NarWriterMC ----------------------------
(***************************************************************************)
(* Instances of NarWriter for TLC: callers that write any headers in any   *)
(* order, compared with the archives of the trees.                         *)
(***************************************************************************)
EXTENDS NarWriter, NarFormat, FiniteSets

MCStrings ==
  {"", "(", ")", "type", "regular", "executable", "contents", "symlink", "target",
   "directory", "entry", "name", "node", "a", "a-", "..a", "to", "blob", "."}

\* The bytes of the names; no property looks into another string.
MCBytes ==
  [s \in MCStrings |->
     CASE s = "a" -> <<97>> [] s = "a-" -> <<97, 45>> [] s = "..a" -> <<46, 46, 97>>
       [] s = "." -> <<46>> [] OTHER -> [i \in 1 .. Len(s) |-> 120]]

Leaves == {Leaf("regular", 0, FALSE), Leaf("regular", 1, TRUE), Leaf("symlink", 0, FALSE)}

Of(path, leaf) == [path |-> path, type |-> leaf.type, size |-> leaf.size, exec |-> leaf.exec]

HeadersAt(paths, leaves) ==
  {Of(p, l) : p \in paths, l \in leaves \cup {Directory(<<>>)}}

Names == {"a", "a-"}
Paths == {<<>>} \cup {<<n>> : n \in Names} \cup {<<m, n>> : m, n \in Names}

\* A directory that claims to be executable, which Validate refuses.
Invalid == [path |-> <<>>, type |-> "directory", size |-> 0, exec |-> TRUE]

AllHeaders == HeadersAt(Paths, Leaves) \cup {Invalid}

Trees == Nodes(2, {<<>>, <<"a">>, <<"a-">>, <<"a", "a-">>}, Leaves \cup {Directory(<<>>)})

Archives == {<<Listing(t, <<>>), Serialize(t)>> : t \in Trees}

Prefixes == UNION {{SubSeq(a[1], 1, k) : k \in 1 .. Len(a[1])} : a \in Archives}

\* A header that repeats the path before it, which the code lets pass for a
\* directory: the entry gets the name ".".
Repeats(hs) == \E i \in 2 .. Len(hs) : hs[i].path = hs[i - 1].path

\* The archive of a Writer that was closed without any error is the one of
\* the tree its accepted headers list: nested, named, in order, padded.
CleanCloseIsArchive ==
  (closed /\ cpc = "idle" /\ ~ refused /\ ~ Repeats(accepted)) => <<accepted, out>> \in Archives

\* Only a header that no tree goes on with is refused.
GoodHeadersAccepted == [][Refuse => accepted \o arg \notin Prefixes]_vars
-----------------------------------------------------------------------------
(* What the comments say and the code does not do. *)

\* A directory with a file named "..a".
DottedPaths == {<<>>, <<"a">>, <<"..a">>}
DottedHeaders == HeadersAt(DottedPaths, {Leaf("symlink", 0, FALSE)})
DottedTrees ==
  Nodes(1, {<<>>, <<"a">>, <<"..a">>, <<"..a", "a">>},
        {Leaf("symlink", 0, FALSE), Directory(<<>>)})

\* "if the received header is something further up, or a sibling, we're done
\* here": a header below the current directory is an entry of it, so that the
\* headers of a tree in order are all accepted.
TreeHeadersAccepted ==
  (epc = "fail" /\ cpc = "select" /\ Complete) =>
    \A t \in DottedTrees : ~ IsPrefixOf(accepted \o arg, Listing(t, <<>>))
=============================================================================
