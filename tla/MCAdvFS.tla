------------------------------ MODULE MCAdvFS ------------------------------
(***************************************************************************)
(* Small images for TLC: two-byte blocks, directories of two slots, sizes  *)
(* of which the low byte has three values.                                 *)
(***************************************************************************)
EXTENDS AdvFSView

CONSTANTS a, b, c, empty, full, over

MCNames == {a, b, c}

\* The user makes a directory a, with a directory or a file in it; b and c are
\* files.
MCPaths == {<<a>>, <<b>>, <<c>>, <<a, a>>}
MCDirPaths == {<<a>>, <<a, a>>}

\* A text of no bytes, one that fills a block, and one that goes over into another.
MCTexts == {empty, full, over}
MCLengths == (empty :> 0) @@ (full :> 2) @@ (over :> 3)

\* b and c are alike.
MCSymmetry == Permutations({b, c})
=============================================================================
