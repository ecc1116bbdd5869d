------------------------------- MODULE MCMyFS -------------------------------
(***************************************************************************)
(* Small images for TLC: two-byte blocks, directories of two slots.        *)
(***************************************************************************)
EXTENDS MyFSView

CONSTANTS a, b, c

\* The user knows one directory, a, below the root.
MCTwoNames == {a, b}
MCThreeNames == {a, b, c}
MCDirPaths == {<<>>, <<a>>}

\* Names that fit in a directory entry.
MCStored == [n \in Names |-> n]

\* b and c are alike: no path goes through them.
MCSymmetry == Permutations({b, c})
=============================================================================
