----------------------------- MODULE NarFormat -----------------------------
(***************************************************************************)
(* Reference definitions for the model checker: file trees, the archive    *)
(* that the NAR grammar gives a tree, and its listing, the headers in      *)
(* archive order.  Nothing here is code of the repository; the grammar is  *)
(* the one parseNode and emitNode spell out token by token.                *)
(***************************************************************************)
EXTENDS NarPacket

Leaf(type, size, exec) ==
  [type |-> type, size |-> size, exec |-> exec, entries |-> <<>>]

Directory(entries) ==
  [type |-> "directory", size |-> 0, exec |-> FALSE, entries |-> entries]

\* Every directory whose entries have the names of a sub-list of one of
\* the lists in nameLists, in that order, and a node of nodes each.
Directories(nameLists, nodes) ==
  {Directory([i \in 1 .. Len(ns) |-> [name |-> ns[i], node |-> child[i]]]) :
     <<ns, child>> \in UNION {{<<l, c>> : c \in [1 .. Len(l) -> nodes]} : l \in nameLists}}

\* The nodes of at most the given depth of directories.
RECURSIVE Nodes(_, _, _)
Nodes(depth, nameLists, leaves) ==
  IF depth = 0 THEN leaves
  ELSE leaves \cup Directories(nameLists, Nodes(depth - 1, nameLists, leaves))

\* The packets of a node.
RECURSIVE Serialize(_)
Serialize(n) ==
  LET entry[i \in 0 .. Len(n.entries)] ==
        IF i = 0 THEN <<>>
        ELSE entry[i - 1] \o Toks(<<"entry", "(", "name", n.entries[i].name, "node">>)
               \o Serialize(n.entries[i].node) \o Toks(<<")">>)
      body ==
        CASE n.type = "regular" ->
               Toks(<<"regular">>)
                 \o (IF n.exec THEN <<Tok("executable"), Empty>> ELSE <<>>)
                 \o <<Tok("contents"), Blob(n.size)>>
          [] n.type = "symlink" -> Toks(<<"symlink", "target", "to">>)
          [] n.type = "directory" -> Toks(<<"directory">>) \o entry[Len(n.entries)]
  IN  Toks(<<"(", "type">>) \o body \o Toks(<<")">>)

\* The headers of a node at path p and of everything below it.
RECURSIVE Listing(_, _)
Listing(n, p) ==
  LET below[i \in 0 .. Len(n.entries)] ==
        IF i = 0 THEN <<>>
        ELSE below[i - 1] \o Listing(n.entries[i].node, Append(p, n.entries[i].name))
  IN  <<[path |-> p, type |-> n.type, size |-> n.size, exec |-> n.exec]>>
        \o below[Len(n.entries)]
=============================================================================
