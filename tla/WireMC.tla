------------------------------- MODULE WireMC -------------------------------
(***************************************************************************)
(* An instance of Wire for TLC: numbers of four bits, blocks of four bytes.*)
(***************************************************************************)
EXTENDS Wire

\* Nothing, content without and with padding in one block and in two, and
\* two lengths that no int64 of four bits holds.
MCLengths == {0, 1, 3, 4, 6, 9, 15}

\* Zero is content as well.
MCChunks == {<<>>, <<1>>, <<2, 0>>, <<1, 2, 0, 3>>, <<1, 2, 0, 3, 4, 5, 0>>}
=============================================================================
