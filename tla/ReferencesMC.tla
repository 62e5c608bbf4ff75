---------------------------- MODULE ReferencesMC ----------------------------
(***************************************************************************)
(* Instances of References for TLC.                                        *)
(***************************************************************************)
EXTENDS References, SequencesExt

Path(hash, name) == [hash |-> hash, name |-> name]

\* Two store paths of one hash, and one whose hash has a byte that nixbase32
\* does not know, which NewReferenceScanner does not refuse.
MCCandidates ==
  <<Path(<<"a", "a", "b">>, "lib"), Path(<<"a", "b", "a">>, "tool"),
    Path(<<"a", "b", "a">>, "tool-1.1"), Path(<<"a", "/", "b">>, "odd")>>

MCChunks == SeqOf(Chars, 3) \ {<<>>}
=============================================================================
