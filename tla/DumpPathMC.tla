----------------------------- MODULE DumpPathMC -----------------------------
(***************************************************************************)
(* Instances of DumpPath for TLC: every small file system, with the trees  *)
(* and archives of NarFormat to compare what is written.                   *)
(***************************************************************************)
EXTENDS DumpPath, NarFormat, TLC

MCStrings ==
  {"", "(", ")", "type", "regular", "executable", "contents", "symlink", "target",
   "directory", "entry", "name", "node", "a", "a-", "to", "blob", "."}

\* The bytes of the names; no property looks into another string.
MCBytes ==
  [s \in MCStrings |->
     CASE s = "a" -> <<97>> [] s = "a-" -> <<97, 45>> [] s = "." -> <<46>>
       [] OTHER -> [i \in 1 .. Len(s) |-> 120]]

File(type, size, exec) == [type |-> type, size |-> size, exec |-> exec]

Dir == File("directory", 0, TRUE)

\* Directories with nothing, a file, a link or a socket at /a, or a directory
\* there that has a file, a link or nothing in it, and a file, a directory or
\* nothing at /a-.
MCFileSystems ==
  LET small == File("regular", 1, FALSE)
      large == File("regular", 2, TRUE)
      link == File("symlink", 2, TRUE)
      socket == File("other", 0, FALSE)
      Maybe(p, nodes) == {[q \in {p} |-> n] : n \in nodes} \cup {<<>>}
      inA == {f @@ (<<"a">> :> Dir) : f \in Maybe(<<"a", "a">>, {small, link})}
      atA == Maybe(<<"a">>, {small, large, link, socket}) \cup inA
      atDash == Maybe(<<"a-">>, {small, Dir})
  IN  {(<<>> :> Dir) @@ f @@ g : f \in atA, g \in atDash}

MCFilters == {{}, {<<>>}, {<<"a">>}, {<<"a", "a">>}}

\* The hypotheses of the theorems hold here.
ASSUME MCFilesAssumption == CleanFiles /\ PlainFiles /\ NamesAreBytes /\ FileTrees
-----------------------------------------------------------------------------
Trees ==
  Nodes(2, {<<>>, <<"a">>, <<"a-">>, <<"a", "a-">>},
        {Leaf("regular", 1, FALSE), Leaf("regular", 2, TRUE), Leaf("symlink", 0, FALSE)})

\* However the files change meanwhile: without an error, the archive is a
\* whole one, and each of its files has as many bytes as its header says.
CleanDumpIsArchive ==
  result = "ok" => \E t \in Trees : accepted = Listing(t, <<>>) /\ out = Serialize(t)
=============================================================================
