------------------------------- MODULE MCFlatFS -------------------------------
(* A small image for FlatFS: two short names and a long one, of which a file  *)
(* of the host may be too large for a block, or a directory.                  *)
EXTENDS FlatFS, TLC

CONSTANTS a, b, long

MCNames    == {a, b, long}
MCLong     == {long}
MCSymmetry == Permutations({a, b})
MCPrefix   == [n \in MCNames |-> n]
\* The long name goes on with the bytes of a size of 1.
MCEnds     == [n \in MCNames |-> IF n = long THEN {1} ELSE {}]
MCContents ==
  [n \in MCNames |-> IF n = long THEN {<<1>>, <<1, 1, 1>>, Directory}
                     ELSE {<<1>>, <<2, 2>>, Directory}]
=============================================================================
