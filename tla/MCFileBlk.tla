------------------------------ MODULE MCFileBlk ------------------------------
(* Small geometries for FileBlk: two ways of laying blocks over four cells.   *)
EXTENDS FileBlk, TLC

MCGeometries == {[n |-> 2, s |-> 2], [n |-> 3, s |-> 1]}
MCDefault    == [n |-> 2, s |-> 2]
MCSymmetry   == Permutations(Procs)
=============================================================================
