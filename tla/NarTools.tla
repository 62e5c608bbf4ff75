------------------------------ MODULE NarTools ------------------------------
(***************************************************************************)
(* gonix nar ls and gonix nar cat (cmd/gonix/nar).                         *)
(*                                                                         *)
(* Both walk the headers that nar.Reader yields for a file; here that is a *)
(* listing, the sequence of its headers, with the paths as NarPath has     *)
(* them.  The path asked for is any string, given by its bytes.            *)
(***************************************************************************)
EXTENDS NarPath

LOCAL INSTANCE SequencesExt

\* hdr.Path
PathOf(hdr) == PathString(hdr.path)

\* The test of ls for a header it prints: the path asked for is a prefix of
\* its path and, unless asked to descend, no slash follows.
Shown(hdr, path, recursive) ==
  /\ IsPrefix(path, PathOf(hdr))
  /\ recursive \/ Slash \notin ToSet(SubSeq(PathOf(hdr), Len(path) + 1, Len(PathOf(hdr))))

\* Variant: any path above the one asked for ends the listing.
LeavesAbove(hdr, path) == ~ StringLeq(PathOf(hdr), path)

\* The test of ls for having seen all: a plain comparison of the strings.
Leaves(hdr, path) == ~ IsPrefix(path, PathOf(hdr)) /\ ~ StringLeq(PathOf(hdr), path)

\* LsCmd.Run: the headers it prints.
Ls(listing, path, recursive) ==
  LET left == {i \in DOMAIN listing : Leaves(listing[i], path)}
      last == IF left = {} THEN Len(listing) ELSE CHOOSE i \in left : \A j \in left : i <= j
  IN  SelectSeq(SubSeq(listing, 1, last), LAMBDA hdr : Shown(hdr, path, recursive))

\* CatCmd.Run: the header whose content it copies, none if it fails.
Cat(listing, path) ==
  LET found == {i \in DOMAIN listing : PathOf(listing[i]) = path}
  IN  {listing[i] : i \in {i \in found : /\ \A j \in found : i <= j
                                         /\ listing[i].type = "regular"}}
=============================================================================
