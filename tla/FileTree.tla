------------------------------ MODULE FileTree ------------------------------
(***************************************************************************)
(* What a user of os_day9/sample.c is promised: a tree of directories and  *)
(* files in which each command takes effect at once.  The tree is the set  *)
(* of its nodes, each with its path; MyFS implements it with blocks and    *)
(* chains.                                                                 *)
(***************************************************************************)
EXTENDS Naturals, Sequences

CONSTANTS Names, Contents, NoContent, Lengths

VARIABLE tree

Dir(q) == [path |-> q, dir |-> TRUE, text |-> NoContent, len |-> 0]
File(q, c, len) == [path |-> q, dir |-> FALSE, text |-> c, len |-> len]

\* The tree u is t with one more node, in a directory of t and at a new path.
Added(t, u, node, parent) ==
  /\ \E n \in t : n.path = parent /\ n.dir
  /\ \A n \in t : n.path # node.path
  /\ u = t \cup {node}

\* A node below another.
Below(m, n) ==
  Len(m.path) > Len(n.path) /\ SubSeq(m.path, 1, Len(n.path)) = n.path
-----------------------------------------------------------------------------
(***************************************************************************)
(* The commands, as relations between the tree before and after.           *)
(***************************************************************************)
\* mymkfs: the old contents are gone, then there is an empty root.
Mkfs(t, u) == u = {} \/ u = {Dir(<<>>)}

CopyTo(t, u, path, name) ==
  \E c \in Contents, len \in Lengths :
    Added(t, u, File(Append(path, name), c, len), path)

Mkdir(t, u, path, name) == Added(t, u, Dir(Append(path, name)), path)

Rm(t, u, n) == ~n.dir /\ u = t \ {n}

\* Only an empty directory is removed.
Rmdir(t, u, n) ==
  /\ n.dir
  /\ \A m \in t : ~Below(m, n)
  /\ u = t \ {n}

Command(t, u) ==
  \/ Mkfs(t, u)
  \/ \E n \in t, name \in Names :
       CopyTo(t, u, n.path, name) \/ Mkdir(t, u, n.path, name)
  \/ \E n \in t : Rm(t, u, n) \/ Rmdir(t, u, n)

Init == tree = {}

\* A command that changes nothing is a stuttering step.
Next == \E t \in {tree}, u \in {tree'} : t # u /\ Command(t, u)

Spec == Init /\ [][Next]_tree
=============================================================================
