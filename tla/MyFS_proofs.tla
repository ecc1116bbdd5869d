------------------------------ MODULE MyFS_proofs ------------------------------
(***************************************************************************)
(* Proofs about MyFS, for an image of any size, any names and paths, and   *)
(* any number of kills: no block has two owners, none disappears, names in *)
(* a directory are unique, myrm frees blocks of files only, the image      *)
(* implements the tree of files of the module FileTree, and what mystat    *)
(* says of a file is what mycopyFrom copies.                               *)
(*                                                                         *)
(* They hold if no text fills its last block (NoFullBlocks): sample.c line *)
(* 284 leaves such a chain tied to the free list, and then all of this     *)
(* fails, as the run full_blocks shows.                                    *)
(*                                                                         *)
(* First the theory of chains: what Chain, a recursive function, yields    *)
(* when a pointer is set, a chain cut, or a block put in front.  Then the  *)
(* invariant IInv, one lemma for every action, and the theorems on blocks  *)
(* and names.                                                              *)
(*                                                                         *)
(* The second part is the refinement.  A view is what a user sees of the   *)
(* image, names only; Look follows a path in it.  One more entry in a view *)
(* is one more node in its tree, or none if no path leads there.  A second *)
(* invariant, TInv, says what mycopyTo has written so far.  Then each      *)
(* action is shown to leave the view as it is, or to add or take one       *)
(* entry.                                                                  *)
(*                                                                         *)
(* The same lemmas say which files a step leaves as long as they are.  The *)
(* third invariant, SInv, counts the blocks that mycopyTo has written, and *)
(* gives that what mystat and mycopyFrom say of a file agrees.             *)
(***************************************************************************)
EXTENDS MyFSView, FiniteSetTheorems, SequenceTheorems, TLAPS

\* Natural numbers have a least one in every set that is not empty.
LEMMA NatOrder ==
  \E R : IsWellFoundedOn(R, Nat) /\ \A y, z \in Nat : y < z => <<y, z>> \in R
<1>1. \A y, z \in Nat : y < z => <<y, z>> \in OpToRel(<, Nat)
  BY DEF OpToRel
<1> QED BY <1>1, NatLessThanWellFounded

\* A set of natural numbers that is not empty has a least element.
LEMMA Least ==
  ASSUME NEW T, T \subseteq Nat, T # {}
  PROVE  \E x \in T : \A y \in T : x <= y
<1>1. PICK R : IsWellFoundedOn(R, Nat) /\ \A y, z \in Nat : y < z => <<y, z>> \in R
  BY NatOrder
<1>a. IsWellFoundedOn(R, Nat)
  BY <1>1
<1>2. PICK x \in T : \A y \in T : ~(<<y, x>> \in R)
  BY <1>a, WFMin
<1>3. \A y \in T : ~ (y < x)
  BY <1>1, <1>2
<1> QED BY <1>3

\* Induction, over a set of numbers instead of a predicate.
LEMMA Induct ==
  ASSUME NEW T, 0 \in T, \A n \in Nat : n \in T => n + 1 \in T
  PROVE  Nat \subseteq T
<1> SUFFICES ASSUME Nat \ T # {} PROVE FALSE
  OBVIOUS
<1>1. PICK x \in Nat \ T : \A y \in Nat \ T : x <= y
  BY Least
<1>2. x # 0 /\ x - 1 \in Nat
  BY <1>1
<1> QED BY <1>1, <1>2

-----------------------------------------------------------------------------
\* The chains on an image d, as Chain follows them.  v is what the rule makes
\* of w, n steps far.
Follows(d, n, w, v) ==
  v = [m \in 0 .. n |-> [x \in Ids |-> IF m = 0 \/ x \notin Blocks THEN <<>>
                                       ELSE <<x>> \o w[m - 1][d[x].next]]]
Walk(d) == CHOOSE w : Follows(d, NBlocks, w, w)
ChainOn(d, x) == Walk(d)[NBlocks][x]

\* Chain, of the module MyFS, is the walk over the image of now.
LEMMA ChainIs == ASSUME NEW b PROVE Chain(b) = ChainOn(disk, b)
BY DEF Chain, ChainOn, Walk, Follows

\* One entry of a walk that follows the rule.
LEMMA FollowsAt ==
  ASSUME NEW d, NEW n, NEW w, NEW v, Follows(d, n, w, v), NEW m \in 0 .. n, NEW x \in Ids
  PROVE  v[m][x] = IF m = 0 \/ x \notin Blocks THEN <<>> ELSE <<x>> \o w[m - 1][d[x].next]
BY DEF Follows

\* The same, of a walk that is defined by itself.
LEMMA FollowsSelf ==
  ASSUME NEW d, NEW n, NEW w, Follows(d, n, w, w), NEW m \in 0 .. n, NEW x \in Ids
  PROVE  w[m][x] = IF m = 0 \/ x \notin Blocks THEN <<>> ELSE <<x>> \o w[m - 1][d[x].next]
BY FollowsAt

\* The recursion in Chain has a solution: step n + 1 is built on step n.
LEMMA WalkExists == ASSUME NEW d PROVE \E w : Follows(d, NBlocks, w, w)
<1> DEFINE T == {n \in Nat : \E w : Follows(d, n, w, w)}
<1>1. 0 \in T
  <2> DEFINE w == [m \in 0 .. 0 |-> [x \in Ids |-> <<>>]]
  <2>1. Follows(d, 0, w, w)
    BY DEF Follows
  <2> QED BY <2>1
<1>2. ASSUME NEW n \in Nat, n \in T PROVE n + 1 \in T
  <2>1. PICK w : Follows(d, n, w, w)
    BY <1>2
  <2> DEFINE next == [x \in Ids |-> IF x \notin Blocks THEN <<>> ELSE <<x>> \o w[n][d[x].next]]
             v == [m \in 0 .. n + 1 |-> IF m <= n THEN w[m] ELSE next]
             g == [m \in 0 .. n + 1 |-> [x \in Ids |-> IF m = 0 \/ x \notin Blocks THEN <<>>
                                       ELSE <<x>> \o v[m - 1][d[x].next]]]
  <2>2. ASSUME NEW m \in 0 .. n + 1 PROVE v[m] = g[m]
    <3>0. g[m] = [x \in Ids |-> IF m = 0 \/ x \notin Blocks THEN <<>>
                                       ELSE <<x>> \o v[m - 1][d[x].next]]
      OBVIOUS
    <3>1. CASE m <= n
      <4>1. v[m] = w[m]
        BY <3>1
      <4>2. w[m] = [x \in Ids |-> w[m][x]]
        BY <2>1, <3>1 DEF Follows
      <4>3. \A x \in Ids : w[m][x] = IF m = 0 \/ x \notin Blocks THEN <<>> ELSE <<x>> \o w[m - 1][d[x].next]
        <5>1. m \in 0 .. n
          BY <3>1
        <5> HIDE DEF T, next, v, g
        <5>2. ASSUME NEW x \in Ids PROVE w[m][x] = IF m = 0 \/ x \notin Blocks THEN <<>> ELSE <<x>> \o w[m - 1][d[x].next]
          BY <2>1, <5>1, FollowsSelf
        <5> QED BY <5>2
      <4>4. m # 0 => v[m-1] = w[m-1]
        BY <3>1
      <4> HIDE DEF v, g
      <4> QED BY <4>1, <4>2, <4>3, <4>4, <3>0
    <3>2. CASE m = n + 1
      <4>1. v[m - 1] = w[n]
        BY <3>2
      <4>2. v[m] = next
        BY <3>2
      <4>3. m # 0
        BY <3>2
      <4> HIDE DEF v, g
      <4> QED BY <4>1, <4>2, <4>3, <3>0
    <3> QED BY <3>1, <3>2
  <2>3. Follows(d, n + 1, v, v)
    <3>1. v = g
      <4>1. v = [m \in 0 .. n + 1 |-> v[m]] /\ g = [m \in 0 .. n + 1 |-> g[m]]
        OBVIOUS
      <4> HIDE DEF v, g
      <4> QED BY <4>1, <2>2
    <3> QED BY <3>1 DEF Follows
  <2> QED BY <2>3
<1> HIDE DEF T
<1>3. NBlocks \in T
  BY <1>1, <1>2, Induct, SizesAssumption
<1> QED BY <1>3 DEF T

\* The walk satisfies its own equation.
LEMMA WalkStep ==
  ASSUME NEW d, NEW n \in 0 .. NBlocks, NEW x \in Ids
  PROVE  /\ n = 0 \/ x \notin Blocks => Walk(d)[n][x] = <<>>
         /\ n # 0 /\ x \in Blocks => Walk(d)[n][x] = <<x>> \o Walk(d)[n - 1][d[x].next]
<1>1. Follows(d, NBlocks, Walk(d), Walk(d))
  BY WalkExists DEF Walk
<1>2. Walk(d)[n][x] = IF n = 0 \/ x \notin Blocks THEN <<>>
                      ELSE <<x>> \o Walk(d)[n - 1][d[x].next]
  BY <1>1, FollowsSelf
<1> QED BY <1>2

Images == [Blocks -> DataBlocks]

\* How long the chain from x is after n steps, and the blocks on it.
Length(d, n, x) == Len(Walk(d)[n][x])
Passed(d, n, x) == ToSet(Walk(d)[n][x])

\* What the constants say of the sets of block numbers.
LEMMA Sizes ==
  /\ NBlocks \in Nat /\ NBlocks >= 3
  /\ Blocks \subseteq Ids /\ Blocks \subseteq Nat /\ Ids \subseteq Nat
  /\ \A d \in Images, x \in Blocks : d[x].next \in Ids
BY SizesAssumption DEF SizesAssumption, Blocks, Ids, Images, DataBlocks

\* A set that holds for no steps, and for one more whenever it holds, has all
\* numbers of steps.
LEMMA StepInduct ==
  ASSUME NEW T, 0 \in T,
         \A n \in 0 .. NBlocks - 1 : n \in T => n + 1 \in T
  PROVE  0 .. NBlocks \subseteq T
<1> DEFINE U == {n \in Nat : n <= NBlocks => n \in T}
<1>1. 0 \in U
  OBVIOUS
<1>2. \A n \in Nat : n \in U => n + 1 \in U
  BY Sizes
<1>3. Nat \subseteq U
  <2> HIDE DEF U
  <2> QED BY <1>1, <1>2, Induct
<1> QED BY <1>3, Sizes

\* The walk is made of sequences of blocks.
LEMMA WalkIsSeq ==
  ASSUME NEW d \in Images
  PROVE  \A n \in 0 .. NBlocks, x \in Ids : Walk(d)[n][x] \in Seq(Blocks)
<1> DEFINE T == {n \in 0 .. NBlocks : \A x \in Ids : Walk(d)[n][x] \in Seq(Blocks)}
<1>1. 0 \in T
  <2>1. 0 \in 0 .. NBlocks
    BY Sizes
  <2>2. ASSUME NEW x \in Ids PROVE Walk(d)[0][x] = <<>>
    BY <2>1, WalkStep
  <2>3. <<>> \in Seq(Blocks)
    OBVIOUS
  <2> QED BY <2>1, <2>2, <2>3
<1>2. ASSUME NEW n \in 0 .. NBlocks - 1, n \in T PROVE n + 1 \in T
  <2>1. n + 1 \in 0 .. NBlocks /\ n + 1 # 0 /\ n + 1 - 1 = n
    BY Sizes
  <2>2. ASSUME NEW x \in Ids PROVE Walk(d)[n + 1][x] \in Seq(Blocks)
    <3>0. \A y \in Ids : Walk(d)[n][y] \in Seq(Blocks)
      BY <1>2
    <3>1. CASE x \notin Blocks
      <4>1. Walk(d)[n + 1][x] = <<>>
        BY <3>1, <2>1, WalkStep
      <4> QED BY <4>1
    <3>2. CASE x \in Blocks
      <4>1. Walk(d)[n + 1][x] = <<x>> \o Walk(d)[n][d[x].next]
        <5> HIDE DEF T
        <5>0. PICK m \in 0 .. NBlocks : m = n + 1 /\ m # 0 /\ m - 1 = n
          BY <2>1
        <5>1. Walk(d)[m][x] = <<x>> \o Walk(d)[m - 1][d[x].next]
          BY <3>2, <5>0, WalkStep
        <5> QED BY <5>0, <5>1
      <4>2. Walk(d)[n][d[x].next] \in Seq(Blocks) /\ <<x>> \in Seq(Blocks)
        <5>1. d[x].next \in Ids
          BY <3>2, Sizes
        <5> QED BY <3>0, <3>2, <5>1
      <4> QED BY <4>1, <4>2
    <3> QED BY <3>1, <3>2
  <2> QED BY <2>1, <2>2
<1> HIDE DEF T
<1>3. 0 .. NBlocks \subseteq T
  BY <1>1, <1>2, StepInduct
<1> QED BY <1>3 DEF T

\* The length of a sequence with one more block in front, and its blocks.
LEMMA ConsFacts ==
  ASSUME NEW x \in Blocks, NEW s \in Seq(Blocks)
  PROVE  Len(<<x>> \o s) = 1 + Len(s) /\ ToSet(<<x>> \o s) = {x} \cup ToSet(s)
<1> DEFINE t == <<x>> \o s
<1>1. <<x>> \in Seq(Blocks) /\ Len(<<x>>) = 1 /\ <<x>>[1] = x
  OBVIOUS
<1>2. /\ t \in Seq(Blocks) /\ Len(t) = 1 + Len(s)
      /\ \A i \in 1 .. 1 + Len(s) : t[i] = IF i <= 1 THEN x ELSE s[i - 1]
  BY <1>1, ConcatProperties
<1>3. DOMAIN t = 1 .. 1 + Len(s) /\ DOMAIN s = 1 .. Len(s) /\ Len(s) \in Nat
  BY <1>2, LenProperties
<1> HIDE DEF t
<1>4. ToSet(t) \subseteq {x} \cup ToSet(s)
  BY <1>2, <1>3 DEF ToSet
<1>5. {x} \cup ToSet(s) \subseteq ToSet(t)
  <2>1. t[1] = x /\ 1 \in DOMAIN t
    BY <1>2, <1>3
  <2>2. \A i \in DOMAIN s : i + 1 \in DOMAIN t /\ t[i + 1] = s[i]
    BY <1>2, <1>3
  <2> QED BY <2>1, <2>2 DEF ToSet
<1> QED BY <1>2, <1>4, <1>5 DEF t

\* What one step of the walk adds to the length and to the blocks.
LEMMA WalkFacts ==
  ASSUME NEW d \in Images, NEW n \in 0 .. NBlocks, NEW x \in Ids
  PROVE  /\ Length(d, n, x) \in Nat /\ Length(d, n, x) <= n /\ Passed(d, n, x) \subseteq Blocks
         /\ n = 0 \/ x \notin Blocks => Length(d, n, x) = 0 /\ Passed(d, n, x) = {}
         /\ n # 0 /\ x \in Blocks =>
              /\ Length(d, n, x) = 1 + Length(d, n - 1, d[x].next)
              /\ Passed(d, n, x) = {x} \cup Passed(d, n - 1, d[x].next)
<1>1. ASSUME NEW m \in 0 .. NBlocks, NEW y \in Ids
      PROVE  /\ Length(d, m, y) \in Nat /\ Passed(d, m, y) \subseteq Blocks
             /\ m = 0 \/ y \notin Blocks => Length(d, m, y) = 0 /\ Passed(d, m, y) = {}
             /\ m # 0 /\ y \in Blocks =>
                  /\ Length(d, m, y) = 1 + Length(d, m - 1, d[y].next)
                  /\ Passed(d, m, y) = {y} \cup Passed(d, m - 1, d[y].next)
  <2>1. Walk(d)[m][y] \in Seq(Blocks)
    BY WalkIsSeq
  <2>2. Length(d, m, y) \in Nat /\ Passed(d, m, y) \subseteq Blocks
    BY <2>1, LenProperties, ElementOfSeq DEF Length, Passed, ToSet
  <2>3. ASSUME m = 0 \/ y \notin Blocks PROVE Length(d, m, y) = 0 /\ Passed(d, m, y) = {}
    <3>1. Walk(d)[m][y] = <<>>
      BY <2>3, WalkStep
    <3> QED BY <3>1 DEF Length, Passed, ToSet
  <2>4. ASSUME m # 0, y \in Blocks
        PROVE  /\ Length(d, m, y) = 1 + Length(d, m - 1, d[y].next)
               /\ Passed(d, m, y) = {y} \cup Passed(d, m - 1, d[y].next)
    <3>1. Walk(d)[m][y] = <<y>> \o Walk(d)[m - 1][d[y].next]
      BY <2>4, WalkStep
    <3>2. m - 1 \in 0 .. NBlocks /\ d[y].next \in Ids
      BY <2>4, Sizes
    <3>3. Walk(d)[m - 1][d[y].next] \in Seq(Blocks)
      BY <3>2, WalkIsSeq
    <3> QED BY <3>1, <3>3, <2>4, ConsFacts DEF Length, Passed
  <2> QED BY <2>2, <2>3, <2>4
<1> DEFINE T == {m \in 0 .. NBlocks : \A y \in Ids : Length(d, m, y) <= m}
<1>2. 0 \in T
  <2>1. 0 \in 0 .. NBlocks
    BY Sizes
  <2>2. \A y \in Ids : Length(d, 0, y) = 0
    BY <2>1, <1>1
  <2> QED BY <2>1, <2>2
<1>3. ASSUME NEW m \in 0 .. NBlocks - 1, m \in T PROVE m + 1 \in T
  <2>1. m + 1 \in 0 .. NBlocks /\ m + 1 # 0 /\ m + 1 - 1 = m
    BY Sizes
  <2>2. ASSUME NEW y \in Ids PROVE Length(d, m + 1, y) <= m + 1
    <3>1. CASE y \notin Blocks
      <4>1. Length(d, m + 1, y) = 0
        BY <2>1, <3>1, <1>1
      <4> QED BY <4>1, <2>1
    <3>2. CASE y \in Blocks
      <4>1. Length(d, m + 1, y) = 1 + Length(d, m, d[y].next)
        BY <2>1, <3>2, <1>1
      <4>2. d[y].next \in Ids /\ m \in 0 .. NBlocks
        BY <3>2, Sizes
      <4>3. Length(d, m, d[y].next) \in Nat /\ Length(d, m, d[y].next) <= m
        BY <1>1, <1>3, <4>2
      <4> QED BY <4>1, <4>3
    <3> QED BY <3>1, <3>2
  <2> QED BY <2>1, <2>2
<1> HIDE DEF T
<1>4. 0 .. NBlocks \subseteq T
  BY <1>2, <1>3, StepInduct
<1>5. Length(d, n, x) <= n
  BY <1>4 DEF T
<1> QED BY <1>1, <1>5

\* One more step changes nothing once the walk has stopped short.
LEMMA Stopped ==
  ASSUME NEW d \in Images
  PROVE  \A n \in 0 .. NBlocks - 1, x \in Ids :
           Length(d, n, x) < n \/ Length(d, n + 1, x) < n =>
             Length(d, n + 1, x) = Length(d, n, x) /\ Passed(d, n + 1, x) = Passed(d, n, x)
<1> DEFINE Same(n, x) == Length(d, n + 1, x) = Length(d, n, x) /\ Passed(d, n + 1, x) = Passed(d, n, x)
           T == {n \in 0 .. NBlocks : n # NBlocks => \A x \in Ids :
                   Length(d, n, x) < n \/ Length(d, n + 1, x) < n => Same(n, x)}
<1>1. 0 \in T
  <2>1. 0 \in 0 .. NBlocks /\ 0 + 1 \in 0 .. NBlocks
    BY Sizes
  <2>2. \A x \in Ids : /\ Length(d, 0, x) \in Nat /\ Length(d, 0 + 1, x) \in Nat
    <3> HIDE DEF Same, T
    <3> QED BY <2>1, WalkFacts
  <2> QED BY <2>1, <2>2
<1>2. ASSUME NEW n \in 0 .. NBlocks - 1, n \in T PROVE n + 1 \in T
  <2>1. n + 1 \in 0 .. NBlocks /\ n \in 0 .. NBlocks
    BY Sizes
  <2> SUFFICES ASSUME n + 1 # NBlocks, NEW x \in Ids,
                      Length(d, n + 1, x) < n + 1 \/ Length(d, n + 1 + 1, x) < n + 1
               PROVE  Same(n + 1, x)
    BY <2>1
  <2>2. PICK p \in 0 .. NBlocks : p = n + 1
    BY <2>1
  <2>3. PICK q \in 0 .. NBlocks : q = p + 1
    BY <2>2, Sizes
  <2>4. p # 0 /\ q # 0 /\ p - 1 = n /\ q - 1 = p /\ n + 1 = p /\ n + 1 + 1 = q
    BY <2>2, <2>3
  <2>5. CASE x \notin Blocks
    <3>1. /\ Length(d, p, x) = 0 /\ Passed(d, p, x) = {}
          /\ Length(d, q, x) = 0 /\ Passed(d, q, x) = {}
      <4> HIDE DEF Same, T
      <4> QED BY <2>5, WalkFacts
    <3> QED BY <3>1, <2>4
  <2>6. CASE x \in Blocks
    <3>1. PICK y \in Ids : y = d[x].next
      BY <2>6, Sizes
    <3>2. /\ Length(d, p, x) = 1 + Length(d, n, y) /\ Passed(d, p, x) = {x} \cup Passed(d, n, y)
          /\ Length(d, q, x) = 1 + Length(d, p, y) /\ Passed(d, q, x) = {x} \cup Passed(d, p, y)
          /\ Length(d, n, y) \in Nat /\ Length(d, p, y) \in Nat
      <4> HIDE DEF Same, T
      <4>1. /\ Length(d, p, x) = 1 + Length(d, p - 1, d[x].next)
            /\ Passed(d, p, x) = {x} \cup Passed(d, p - 1, d[x].next)
            /\ Length(d, q, x) = 1 + Length(d, q - 1, d[x].next)
            /\ Passed(d, q, x) = {x} \cup Passed(d, q - 1, d[x].next)
        BY <2>6, <2>4, WalkFacts
      <4>2. Length(d, n, y) \in Nat /\ Length(d, p, y) \in Nat
        BY <2>1, WalkFacts
      <4> QED BY <4>1, <4>2, <3>1, <2>4
    <3>3. Length(d, n, y) < n \/ Length(d, p, y) < n
      <4>1. Length(d, p, x) < p \/ Length(d, q, x) < p
        BY <2>4
      <4> HIDE DEF Same, T
      <4> QED BY <4>1, <3>2, <2>4
    <3>4. Length(d, p, y) = Length(d, n, y) /\ Passed(d, p, y) = Passed(d, n, y)
      <4>1. n # NBlocks
        BY Sizes
      <4> QED BY <1>2, <3>3, <2>4, <4>1
    <3> QED BY <3>2, <3>4, <2>4
  <2> QED BY <2>5, <2>6
<1>3. 0 .. NBlocks \subseteq T
  <2> HIDE DEF T
  <2> QED BY <1>1, <1>2, StepInduct
<1>4. ASSUME NEW n \in 0 .. NBlocks - 1 PROVE n \in T /\ n # NBlocks
  <2> HIDE DEF T
  <2> QED BY <1>3, Sizes
<1> QED BY <1>4

-----------------------------------------------------------------------------
\* From here on a chain is the blocks on it, how many there are, and whether
\* it ends.
Reach(d, x) == Passed(d, NBlocks, x)
Size(d, x) == Length(d, NBlocks, x)
Ended(d, x) == Size(d, x) < NBlocks

\* No block, no chain.
LEMMA NoChain ==
  ASSUME NEW d \in Images, NEW x \in Ids, x \notin Blocks
  PROVE  Reach(d, x) = {} /\ Ended(d, x) /\ Size(d, x) = 0
BY WalkFacts, Sizes DEF Reach, Ended, Size

\* The size of a chain is a number; it is made of blocks, and starts with its own.
LEMMA ChainBasics ==
  ASSUME NEW d \in Images, NEW x \in Ids
  PROVE  /\ Size(d, x) \in Nat /\ Reach(d, x) \subseteq Blocks
         /\ x \in Blocks => x \in Reach(d, x)
<1>1. NBlocks \in 0 .. NBlocks /\ NBlocks # 0
  BY Sizes
<1> QED BY <1>1, WalkFacts DEF Reach, Size

\* A chain that ends: its first block, and the chain behind it.
LEMMA Behind ==
  ASSUME NEW d \in Images, NEW x \in Blocks, Ended(d, x)
  PROVE  /\ Ended(d, d[x].next)
         /\ Reach(d, x) = {x} \cup Reach(d, d[x].next)
         /\ Size(d, x) = 1 + Size(d, d[x].next)
<1>1. PICK y \in Ids : y = d[x].next
  BY Sizes
<1>2. PICK p \in 0 .. NBlocks - 1 : p + 1 = NBlocks /\ p = NBlocks - 1
  BY Sizes
<1>3. NBlocks \in 0 .. NBlocks /\ NBlocks # 0 /\ x \in Ids /\ p \in 0 .. NBlocks
  BY Sizes
<1>4. /\ Size(d, x) = 1 + Length(d, p, y) /\ Reach(d, x) = {x} \cup Passed(d, p, y)
  BY <1>1, <1>2, <1>3, WalkFacts DEF Reach, Size
<1>5. Length(d, p, y) \in Nat
  BY <1>3, WalkFacts
<1>6. Length(d, p, y) < p
  BY <1>2, <1>4, <1>5 DEF Ended
<1>7. Size(d, y) = Length(d, p, y) /\ Reach(d, y) = Passed(d, p, y)
  <2>1. Length(d, p + 1, y) = Length(d, p, y) /\ Passed(d, p + 1, y) = Passed(d, p, y)
    BY <1>6, Stopped
  <2> QED BY <2>1, <1>2 DEF Size, Reach
<1> QED BY <1>1, <1>2, <1>4, <1>5, <1>6, <1>7 DEF Ended

\* Every block of a chain that ends begins a chain that ends and that is part
\* of it.
LEMMA Within ==
  ASSUME NEW d \in Images
  PROVE  \A x \in Ids : Ended(d, x) =>
           \A y \in Reach(d, x) :
             Ended(d, y) /\ Reach(d, y) \subseteq Reach(d, x) /\ Size(d, y) <= Size(d, x)
<1> DEFINE P(x) == \A y \in Reach(d, x) :
                     Ended(d, y) /\ Reach(d, y) \subseteq Reach(d, x) /\ Size(d, y) <= Size(d, x)
           T == {n \in Nat : \A x \in Ids : Ended(d, x) /\ Size(d, x) <= n => P(x)}
<1>0. ASSUME NEW x \in Ids, x \notin Blocks PROVE P(x)
  <2>1. Reach(d, x) = {}
    BY <1>0, NoChain
  <2> QED BY <2>1
<1>1. 0 \in T
  <2>1. ASSUME NEW x \in Ids, Ended(d, x), Size(d, x) <= 0 PROVE P(x)
    <3>1. x \notin Blocks
      <4> SUFFICES ASSUME x \in Blocks PROVE FALSE
        OBVIOUS
      <4>1. d[x].next \in Ids /\ Size(d, x) = 1 + Size(d, d[x].next)
        BY <2>1, Behind, Sizes
      <4>2. Size(d, d[x].next) \in Nat
        BY <4>1, ChainBasics
      <4> QED BY <4>1, <4>2, <2>1
    <3> QED BY <3>1, <1>0
  <2> QED BY <2>1
<1>2. ASSUME NEW n \in Nat, n \in T PROVE n + 1 \in T
  <2>1. ASSUME NEW x \in Ids, Ended(d, x), Size(d, x) <= n + 1 PROVE P(x)
    <3>1. CASE x \notin Blocks
      BY <3>1, <1>0
    <3>2. CASE x \in Blocks
      <4>1. PICK z \in Ids : z = d[x].next
        BY <3>2, Sizes
      <4>2. Ended(d, z) /\ Reach(d, x) = {x} \cup Reach(d, z) /\ Size(d, x) = 1 + Size(d, z)
        BY <4>1, <3>2, <2>1, Behind
      <4>3. Size(d, z) \in Nat /\ Size(d, x) \in Nat /\ Reach(d, z) \subseteq Blocks
        BY ChainBasics
      <4>4. Size(d, z) <= n
        BY <4>2, <4>3, <2>1
      <4>5. P(z)
        BY <1>2, <4>2, <4>4
      <4>6. ASSUME NEW y \in Reach(d, x)
            PROVE  Ended(d, y) /\ Reach(d, y) \subseteq Reach(d, x) /\ Size(d, y) <= Size(d, x)
        <5>1. CASE y = x
          BY <5>1, <2>1, <4>3
        <5>2. CASE y \in Reach(d, z)
          <6>1. Size(d, y) \in Nat
            BY <5>2, <4>3, Sizes, ChainBasics
          <6>2. Ended(d, y) /\ Reach(d, y) \subseteq Reach(d, z) /\ Size(d, y) <= Size(d, z)
            BY <5>2, <4>5
          <6> QED BY <6>1, <6>2, <4>2, <4>3
        <5> QED BY <5>1, <5>2, <4>2
      <4> QED BY <4>6
    <3> QED BY <3>1, <3>2
  <2> QED BY <2>1
<1>3. Nat \subseteq T
  <2> HIDE DEF T
  <2> QED BY <1>1, <1>2, Induct
<1>4. ASSUME NEW x \in Ids, Ended(d, x) PROVE P(x)
  <2>1. Size(d, x) \in Nat
    BY ChainBasics
  <2>2. Size(d, x) \in T
    <3> HIDE DEF T
    <3> QED BY <2>1, <1>3
  <2> HIDE DEF P
  <2> QED BY <2>1, <2>2, <1>4
<1> QED BY <1>4

\* No block is on the chain behind it.
LEMMA NotBehind ==
  ASSUME NEW d \in Images, NEW x \in Blocks, Ended(d, x)
  PROVE  x \notin Reach(d, d[x].next)
<1> SUFFICES ASSUME x \in Reach(d, d[x].next) PROVE FALSE
  OBVIOUS
<1>1. PICK z \in Ids : z = d[x].next
  BY Sizes
<1>2. Ended(d, z) /\ Size(d, x) = 1 + Size(d, z)
  BY <1>1, Behind
<1>3. Size(d, x) <= Size(d, z)
  BY <1>1, <1>2, Within
<1>4. Size(d, z) \in Nat
  BY ChainBasics
<1> QED BY <1>2, <1>3, <1>4

\* A chain that ends passes each of its blocks once.
LEMMA Distinct ==
  ASSUME NEW d \in Images
  PROVE  \A x \in Ids : Ended(d, x) =>
           IsFiniteSet(Reach(d, x)) /\ Cardinality(Reach(d, x)) = Size(d, x)
<1> DEFINE P(x) == IsFiniteSet(Reach(d, x)) /\ Cardinality(Reach(d, x)) = Size(d, x)
           T == {n \in Nat : \A x \in Ids : Ended(d, x) /\ Size(d, x) <= n => P(x)}
<1>0. ASSUME NEW x \in Ids, x \notin Blocks PROVE P(x)
  BY <1>0, NoChain, FS_EmptySet
<1>1. ASSUME NEW x \in Blocks, Ended(d, x)
      PROVE  /\ d[x].next \in Ids /\ Ended(d, d[x].next)
             /\ Size(d, d[x].next) \in Nat /\ Size(d, x) = 1 + Size(d, d[x].next)
             /\ P(d[x].next) => P(x)
  <2>1. PICK z \in Ids : z = d[x].next
    BY Sizes
  <2>2. /\ Ended(d, z) /\ Reach(d, x) = {x} \cup Reach(d, z) /\ Size(d, x) = 1 + Size(d, z)
        /\ x \notin Reach(d, z) /\ Size(d, z) \in Nat
    BY <1>1, <2>1, Behind, NotBehind, ChainBasics
  <2>3. ASSUME P(z) PROVE P(x)
    <3>1. Reach(d, z) \cup {x} = Reach(d, x)
      BY <2>2
    <3>2. IsFiniteSet(Reach(d, z)) /\ Cardinality(Reach(d, z)) = Size(d, z)
      BY <2>3
    <3>3. /\ IsFiniteSet(Reach(d, z) \cup {x})
          /\ Cardinality(Reach(d, z) \cup {x}) = Cardinality(Reach(d, z)) + 1
      BY <2>2, <3>2, FS_AddElement
    <3> QED BY <2>2, <3>1, <3>2, <3>3
  <2> HIDE DEF P
  <2> QED BY <2>1, <2>2, <2>3
<1> HIDE DEF P
<1>2. 0 \in T
  <2>1. ASSUME NEW x \in Ids, Ended(d, x), Size(d, x) <= 0 PROVE P(x)
    BY <2>1, <1>0, <1>1
  <2> QED BY <2>1
<1>3. ASSUME NEW n \in Nat, n \in T PROVE n + 1 \in T
  <2>1. ASSUME NEW x \in Ids, Ended(d, x), Size(d, x) <= n + 1 PROVE P(x)
    <3>1. CASE x \notin Blocks
      BY <3>1, <1>0
    <3>2. CASE x \in Blocks
      <4>1. Size(d, d[x].next) <= n /\ d[x].next \in Ids /\ Ended(d, d[x].next)
        BY <2>1, <3>2, <1>1
      <4>2. P(d[x].next)
        BY <4>1, <1>3
      <4> QED BY <4>2, <3>2, <2>1, <1>1
    <3> QED BY <3>1, <3>2
  <2> QED BY <2>1
<1>4. Nat \subseteq T
  <2> HIDE DEF T
  <2> QED BY <1>2, <1>3, Induct
<1>5. ASSUME NEW x \in Ids, Ended(d, x) PROVE P(x)
  <2>1. Size(d, x) \in Nat
    BY ChainBasics
  <2>2. Size(d, x) \in T
    <3> HIDE DEF T
    <3> QED BY <2>1, <1>4
  <2> QED BY <2>1, <2>2, <1>5
<1> QED BY <1>5 DEF P

\* There are NBlocks - 1 blocks.
LEMMA BlocksFinite == IsFiniteSet(Blocks) /\ Cardinality(Blocks) = NBlocks - 1
<1>1. 1 \in Int /\ NBlocks - 1 \in Int /\ 1 <= NBlocks - 1
  BY Sizes
<1> QED BY <1>1, FS_Interval DEF Blocks

\* A block put in front of a chain that ends and that it is not on begins a
\* chain that ends.
LEMMA InFront ==
  ASSUME NEW d \in Images, NEW x \in Blocks, Ended(d, d[x].next), x \notin Reach(d, d[x].next)
  PROVE  /\ Ended(d, x)
         /\ Reach(d, x) = {x} \cup Reach(d, d[x].next)
<1>1. PICK y \in Ids : y = d[x].next
  BY Sizes
<1>2. Reach(d, y) \subseteq Blocks \ {x} /\ Size(d, y) \in Nat /\ Ended(d, y)
  BY <1>1, ChainBasics
<1>3. IsFiniteSet(Blocks \ {x}) /\ Cardinality(Blocks \ {x}) = NBlocks - 2
  BY BlocksFinite, FS_RemoveElement, Sizes
<1>4. Size(d, y) <= NBlocks - 2
  BY <1>2, <1>3, FS_Subset, Distinct
<1>5. PICK p \in 0 .. NBlocks - 1 : p + 1 = NBlocks /\ p = NBlocks - 1
  BY Sizes
<1>6. NBlocks \in 0 .. NBlocks /\ NBlocks # 0 /\ x \in Ids /\ p \in 0 .. NBlocks
  BY Sizes
<1>7. Length(d, p, y) = Size(d, y) /\ Passed(d, p, y) = Reach(d, y)
  <2>1. Length(d, p + 1, y) < p
    BY <1>2, <1>4, <1>5 DEF Size
  <2>2. Length(d, p + 1, y) = Length(d, p, y) /\ Passed(d, p + 1, y) = Passed(d, p, y)
    BY <2>1, Stopped
  <2> QED BY <2>2, <1>5 DEF Size, Reach
<1>8. /\ Size(d, x) = 1 + Length(d, p, y) /\ Reach(d, x) = {x} \cup Passed(d, p, y)
  BY <1>1, <1>5, <1>6, WalkFacts DEF Reach, Size
<1>9. Size(d, x) < NBlocks
  BY <1>2, <1>4, <1>7, <1>8, Sizes
<1> QED BY <1>1, <1>7, <1>8, <1>9 DEF Ended

\* A chain stays as it is when the pointers of its own blocks do.
LEMMA Untouched ==
  ASSUME NEW d \in Images, NEW e \in Images, NEW x \in Ids,
         \A y \in Reach(d, x) : e[y].next = d[y].next
  PROVE  Reach(e, x) = Reach(d, x) /\ (Ended(e, x) <=> Ended(d, x))
<1> DEFINE Same(n, y) == Length(e, n, y) = Length(d, n, y) /\ Passed(e, n, y) = Passed(d, n, y)
           T == {n \in 0 .. NBlocks : \A y \in Ids :
                   (\A z \in Passed(d, n, y) : e[z].next = d[z].next) => Same(n, y)}
<1>0. ASSUME NEW n \in 0 .. NBlocks, NEW y \in Ids, n = 0 \/ y \notin Blocks PROVE Same(n, y)
  BY <1>0, WalkFacts
<1>1. 0 \in T
  <2>1. 0 \in 0 .. NBlocks
    BY Sizes
  <2> HIDE DEF Same
  <2> QED BY <2>1, <1>0
<1>2. ASSUME NEW n \in 0 .. NBlocks - 1, n \in T PROVE n + 1 \in T
  <2>1. PICK p \in 0 .. NBlocks : p = n + 1 /\ p # 0 /\ p - 1 = n
    BY Sizes
  <2>2. ASSUME NEW y \in Ids, \A z \in Passed(d, p, y) : e[z].next = d[z].next PROVE Same(p, y)
    <3>1. CASE y \notin Blocks
      BY <3>1, <1>0
    <3>2. CASE y \in Blocks
      <4>1. PICK z \in Ids : z = d[y].next
        BY <3>2, Sizes
      <4>2. Length(d, p, y) = 1 + Length(d, n, z) /\ Passed(d, p, y) = {y} \cup Passed(d, n, z)
        BY <2>1, <3>2, <4>1, WalkFacts
      <4>3. e[y].next = z
        BY <2>2, <4>1, <4>2
      <4>4. Length(e, p, y) = 1 + Length(e, n, z) /\ Passed(e, p, y) = {y} \cup Passed(e, n, z)
        BY <2>1, <3>2, <4>3, WalkFacts
      <4>5. Same(n, z)
        BY <1>2, <2>2, <4>2
      <4> QED BY <4>2, <4>4, <4>5
    <3> QED BY <3>1, <3>2
  <2> HIDE DEF Same
  <2> QED BY <2>1, <2>2
<1>3. 0 .. NBlocks \subseteq T
  <2> HIDE DEF T
  <2> QED BY <1>1, <1>2, StepInduct
<1>4. NBlocks \in T
  <2> HIDE DEF T
  <2> QED BY <1>3, Sizes
<1> QED BY <1>4 DEF Reach, Ended, Size

\* A chain whose pointer is cut at block c: what was behind c is gone.
LEMMA Cut ==
  ASSUME NEW d \in Images, NEW e \in Images, NEW c \in Blocks, e[c].next \notin Blocks
  PROVE  \A x \in Ids :
           Ended(d, x) /\ c \in Reach(d, x) /\ (\A y \in Reach(d, x) \ {c} : e[y].next = d[y].next) =>
             Ended(e, x) /\ Reach(e, x) = Reach(d, x) \ Reach(d, d[c].next)
<1> DEFINE A(x) == Ended(d, x) /\ c \in Reach(d, x) /\ (\A y \in Reach(d, x) \ {c} : e[y].next = d[y].next)
           P(x) == Ended(e, x) /\ Reach(e, x) = Reach(d, x) \ Reach(d, d[c].next)
           T == {n \in Nat : \A x \in Ids : A(x) /\ Size(d, x) <= n => P(x)}
<1>0. e[c].next \in Ids /\ d[c].next \in Ids
  BY Sizes
<1>1. ASSUME NEW x \in Ids, A(x), x = c PROVE P(x)
  <2>1. Reach(e, e[c].next) = {} /\ Ended(e, e[c].next)
    BY <1>0, NoChain
  <2>2. Ended(e, c) /\ Reach(e, c) = {c}
    BY <2>1, InFront
  <2>3. Reach(d, c) = {c} \cup Reach(d, d[c].next) /\ c \notin Reach(d, d[c].next)
    BY <1>1, Behind, NotBehind
  <2> QED BY <1>1, <2>2, <2>3
<1>2. ASSUME NEW x \in Ids, A(x), x # c
      PROVE  /\ x \in Blocks /\ d[x].next \in Ids /\ A(d[x].next)
             /\ Size(d, d[x].next) \in Nat /\ Size(d, x) = 1 + Size(d, d[x].next)
             /\ P(d[x].next) => P(x)
  <2>1. x \in Blocks
    BY <1>2, NoChain
  <2>2. PICK z \in Ids : z = d[x].next
    BY <2>1, Sizes
  <2>3. /\ Ended(d, z) /\ Reach(d, x) = {x} \cup Reach(d, z) /\ Size(d, x) = 1 + Size(d, z)
        /\ x \notin Reach(d, z) /\ Size(d, z) \in Nat
    BY <1>2, <2>1, <2>2, Behind, NotBehind, ChainBasics
  <2>4. e[x].next = z
    BY <1>2, <2>2, <2>3
  <2>5. c \in Reach(d, z) /\ A(z)
    BY <1>2, <2>3
  <2>6. Ended(d, c) /\ Reach(d, c) \subseteq Reach(d, z)
    BY <2>5, Within
  <2>7. Reach(d, d[c].next) \subseteq Reach(d, z)
    BY <2>6, Behind
  <2>8. ASSUME P(z) PROVE P(x)
    <3>1. Ended(e, z) /\ Reach(e, z) = Reach(d, z) \ Reach(d, d[c].next)
      BY <2>8
    <3>2. x \notin Reach(e, z)
      BY <3>1, <2>3
    <3>3. Ended(e, x) /\ Reach(e, x) = {x} \cup Reach(e, z)
      BY <2>1, <2>4, <3>1, <3>2, InFront
    <3>4. x \notin Reach(d, d[c].next)
      BY <2>3, <2>7
    <3> QED BY <3>1, <3>3, <3>4, <2>3
  <2> HIDE DEF P, A
  <2> QED BY <2>1, <2>2, <2>3, <2>5, <2>8
<1> HIDE DEF P, A
<1>3. 0 \in T
  <2>1. ASSUME NEW x \in Ids, A(x), Size(d, x) <= 0 PROVE P(x)
    BY <2>1, <1>1, <1>2
  <2> QED BY <2>1
<1>4. ASSUME NEW n \in Nat, n \in T PROVE n + 1 \in T
  <2>1. ASSUME NEW x \in Ids, A(x), Size(d, x) <= n + 1 PROVE P(x)
    <3>1. CASE x = c
      BY <2>1, <3>1, <1>1
    <3>2. CASE x # c
      <4>1. Size(d, d[x].next) <= n /\ d[x].next \in Ids /\ A(d[x].next)
        BY <2>1, <3>2, <1>2
      <4>2. P(d[x].next)
        BY <4>1, <1>4
      <4> QED BY <4>2, <3>2, <2>1, <1>2
    <3> QED BY <3>1, <3>2
  <2> QED BY <2>1
<1>5. Nat \subseteq T
  <2> HIDE DEF T
  <2> QED BY <1>3, <1>4, Induct
<1>6. ASSUME NEW x \in Ids, A(x) PROVE P(x)
  <2>1. Size(d, x) \in Nat
    BY ChainBasics
  <2>2. Size(d, x) \in T
    <3> HIDE DEF T
    <3> QED BY <2>1, <1>5
  <2> QED BY <2>1, <2>2, <1>6
<1> QED BY <1>6 DEF P, A

\* The free list of a new image.
LEMMA NewList ==
  ASSUME NEW d \in Images,
         \A b \in Blocks \ {Root} : d[b].next = IF b < NBlocks - 1 THEN b + 1 ELSE 0
  PROVE  Ended(d, 2) /\ Reach(d, 2) = Blocks \ {Root}
<1> DEFINE P(b) == Ended(d, b) /\ Reach(d, b) = b .. NBlocks - 1
           T == {n \in Nat : \A b \in 2 .. NBlocks - 1 : NBlocks - 1 - b <= n => P(b)}
<1>0. 0 \in Ids /\ 0 \notin Blocks /\ NBlocks - 1 \in Blocks \ {Root}
  BY Sizes DEF Ids, Blocks, Root
<1>1. P(NBlocks - 1)
  <2>1. d[NBlocks - 1].next = 0
    BY <1>0, Sizes
  <2>2. Reach(d, 0) = {} /\ Ended(d, 0)
    BY <1>0, NoChain
  <2>3. Ended(d, NBlocks - 1) /\ Reach(d, NBlocks - 1) = {NBlocks - 1}
    BY <1>0, <2>1, <2>2, InFront
  <2> QED BY <2>3, Sizes
<1>2. ASSUME NEW b \in 2 .. NBlocks - 2, P(b + 1) PROVE P(b)
  <2>1. b \in Blocks \ {Root} /\ b < NBlocks - 1 /\ b \in Nat
    BY Sizes DEF Blocks, Root
  <2>2. d[b].next = b + 1
    BY <2>1
  <2>3. b \notin Reach(d, b + 1)
    <3>1. Reach(d, b + 1) = b + 1 .. NBlocks - 1
      BY <1>2
    <3>2. b \notin b + 1 .. NBlocks - 1
      BY <2>1, Sizes
    <3> QED BY <3>1, <3>2
  <2>4. Ended(d, b) /\ Reach(d, b) = {b} \cup Reach(d, b + 1)
    BY <1>2, <2>1, <2>2, <2>3, InFront
  <2>5. {b} \cup (b + 1 .. NBlocks - 1) = b .. NBlocks - 1
    BY <2>1, Sizes
  <2> QED BY <1>2, <2>4, <2>5
<1> HIDE DEF P
<1>3. 0 \in T
  <2>1. ASSUME NEW b \in 2 .. NBlocks - 1, NBlocks - 1 - b <= 0 PROVE P(b)
    <3>1. b = NBlocks - 1
      BY <2>1, Sizes
    <3> QED BY <3>1, <1>1
  <2> QED BY <2>1
<1>4. ASSUME NEW n \in Nat, n \in T PROVE n + 1 \in T
  <2>1. ASSUME NEW b \in 2 .. NBlocks - 1, NBlocks - 1 - b <= n + 1 PROVE P(b)
    <3>1. CASE b = NBlocks - 1
      BY <3>1, <1>1
    <3>2. CASE b # NBlocks - 1
      <4>1. b \in 2 .. NBlocks - 2 /\ b + 1 \in 2 .. NBlocks - 1 /\ NBlocks - 1 - (b + 1) <= n
        BY <2>1, <3>2, Sizes
      <4>2. P(b + 1)
        BY <4>1, <1>4
      <4> QED BY <4>1, <4>2, <1>2
    <3> QED BY <3>1, <3>2
  <2> QED BY <2>1
<1>5. Nat \subseteq T
  <2> HIDE DEF T
  <2> QED BY <1>3, <1>4, Induct
<1>6. P(2)
  <2>1. NBlocks - 3 \in Nat /\ 2 \in 2 .. NBlocks - 1 /\ NBlocks - 1 - 2 <= NBlocks - 3
    BY Sizes
  <2>2. NBlocks - 3 \in T
    <3> HIDE DEF T
    <3> QED BY <2>1, <1>5
  <2> QED BY <2>1, <2>2
<1>7. 2 .. NBlocks - 1 = Blocks \ {Root}
  BY Sizes DEF Blocks, Root
<1> QED BY <1>6, <1>7 DEF P

\* The blocks on the chain from x, and whether it ends.
On(x) == Reach(disk, x)
Stops(x) == Ended(disk, x)

\* No text fills its last block: at line 284 a length that is a multiple of
\* the size of a block leaves the chain of a file tied to the free list.
NoFullBlocks == \A len \in Lengths : len % Capacity # 0

\* Names that a directory entry holds to the last character.
WholeNames == \A name \in Names : Stored[name] = name

Removal == run.op \in {"myrm", "myrmdir"}
Making == run.op \in {"mycopyTo", "mymkdir"}

\* A removal that has written nothing yet.
Untried == run.at = "free" /\ (run.op = "myrm" => run.cur = run.first)

\* Slot s of directory d has an entry of this type that is in use, and not the
\* one that is being removed.
Targeted(d, s) == Removal /\ d = run.dir /\ s = run.slot
Directory(b) == b \in Blocks /\ tag[b] \in {"root", "dir"}
First(d, s) == disk[d].slots[s].first
IsEntry(type, d, s) ==
  /\ Directory(d) /\ s \in Slots /\ disk[d].slots[s].type = type
  /\ <<d, s>> \notin past.wrecks /\ ~Targeted(d, s)

Ids0 == Blocks \cup {0}

\* Where commands are, and what they remember of the image.
Control ==
  /\ run.op = "none" => run = Idle
  /\ run.op = "mymkfs" => run.at \in {"root", "list"}
  /\ run.op = "mycopyTo" => run.at \in {"read", "write"}
  /\ run.op = "mymkdir" => run.at \in {"init", "entry", "undo"}
  /\ run.op = "myrm" => run.at \in {"free", "entry"}
  /\ run.op = "myrmdir" => run.at \in {"free", "super", "entry"}
  /\ run.op = "mycopyTo" /\ run.at = "write" => run.left >= Capacity

Formatting ==
  /\ past.wrecks = {}
  /\ run.op \in {"none", "mymkfs"}
  /\ run.op = "mymkfs" => ffree = 2
  /\ run.op = "mymkfs" /\ run.at = "list" =>
       /\ run.cur \in 2 .. NBlocks
       /\ \A b \in Blocks : tag[b] = IF b = Root THEN "root" ELSE "free"
       /\ disk[Root] = ZeroBlock(0)
       /\ \A b \in 2 .. run.cur - 1 : disk[b].next = b + 1

Pointers ==
  /\ run.op # "mymkfs"
  /\ \A b \in Blocks : disk[b].next \in Ids0
  /\ {ffree, run.ff, run.cur, run.nxt} \subseteq Ids0
  /\ Making \/ Removal => Directory(run.dir) /\ run.dirblk = disk[run.dir]
  /\ \A b \in Blocks : tag[b] = "root" <=> b = Root
  /\ \A d \in Blocks, s \in Slots :
       <<d, s>> \in past.wrecks => Directory(d) /\ disk[d].slots[s].type # 0

FreeBlocks ==
  /\ Stops(ffree)
  /\ \A b \in On(ffree) : tag[b] = "free"
  /\ ~Removal => \A b \in Blocks : tag[b] = "free" => b \in On(ffree)
  /\ Removal =>
       /\ Stops(run.ff)
       /\ \A b \in Blocks : tag[b] = "free" <=> b \in On(run.ff)
       /\ Untried \/ run.at = "entry" => run.ff = ffree
  /\ run.op = "mycopyTo" => run.ff = ffree
  /\ run.op = "mymkdir" =>
       IF run.at = "undo"
       THEN /\ run.ff = run.first /\ Stops(run.ff)
            /\ \A b \in Blocks : b \in On(run.ff) <=> b = run.first \/ tag[b] = "free"
       ELSE run.ff = ffree

HeldBlocks ==
  /\ ~Making => \A b \in Blocks : tag[b] # "held"
  /\ Making => run.first \in Blocks /\ tag[run.first] = "held"
  /\ run.op = "mymkdir" =>
       /\ \A b \in Blocks : tag[b] = "held" => b = run.first
       /\ run.at = "entry" => disk[run.first] = ZeroBlock(0)
  /\ run.op = "mycopyTo" =>
       /\ Stops(run.first)
       /\ run.cur = 0 => /\ run.at = "read" /\ run.left = 0
                         /\ \A b \in Blocks : b \in On(run.first) <=> tag[b] = "held"
       /\ run.cur # 0 =>
            /\ \A b \in Blocks : b \in On(run.first) <=> tag[b] \in {"held", "free"}
            /\ run.left % Capacity # 0
            /\ tag[run.cur] = "held"
            /\ run.at = "read" => disk[run.cur].next = run.ff
            /\ run.at = "write" => /\ run.nxt # 0 /\ tag[run.nxt] = "held"
                                   /\ disk[run.cur].next = run.nxt
                                   /\ disk[run.nxt].next = run.ff

FileBlocks ==
  /\ \A d \in Blocks, s \in Slots : IsEntry(1, d, s) =>
       /\ First(d, s) \in Blocks /\ Stops(First(d, s))
       /\ \A b \in On(First(d, s)) :
            /\ tag[b] = "file"
            /\ run.op = "myrm" => b \notin On(run.cur)
            /\ \A e \in Blocks, t \in Slots : IsEntry(1, e, t) /\ b \in On(First(e, t)) => d = e /\ s = t
  /\ run.op = "myrm" => Stops(run.cur) /\ \A b \in On(run.cur) : tag[b] = "file"
  /\ \A b \in Blocks : tag[b] = "file" =>
       \/ \E d \in Blocks, s \in Slots : IsEntry(1, d, s) /\ b \in On(First(d, s))
       \/ run.op = "myrm" /\ b \in On(run.cur)

DirBlocksOwned ==
  /\ \A d \in Blocks, s \in Slots : IsEntry(2, d, s) =>
       /\ First(d, s) \in Blocks /\ tag[First(d, s)] = "dir"
       /\ run.op = "myrmdir" /\ run.at = "free" => First(d, s) # run.first
       /\ \A e \in Blocks, t \in Slots : IsEntry(2, e, t) /\ First(d, s) = First(e, t) => d = e /\ s = t
  /\ run.op = "myrmdir" /\ run.at = "free" =>
       /\ run.first \in Blocks /\ tag[run.first] = "dir"
       /\ \A s \in Slots : disk[run.first].slots[s].type = 0
  /\ \A b \in Blocks : tag[b] = "dir" =>
       \/ \E d \in Blocks, s \in Slots : IsEntry(2, d, s) /\ First(d, s) = b
       \/ run.op = "myrmdir" /\ run.at = "free" /\ b = run.first

Target ==
  /\ Removal =>
       /\ <<run.dir, run.slot>> \notin past.wrecks
       /\ disk[run.dir].slots[run.slot].type = (IF run.op = "myrm" THEN 1 ELSE 2)
       /\ Untried => First(run.dir, run.slot) = run.first
  /\ run.op = "myrm" =>
       /\ run.first \in Blocks
       /\ run.at = "free" /\ run.cur # run.first => tag[run.first] = "free"
       /\ run.at = "entry" => run.cur = 0
  /\ run.op = "myrmdir" => run.cur = 0

NewName ==
  WholeNames =>
    /\ Making => \A s \in Slots : disk[run.dir].slots[s].type # 0 => disk[run.dir].slots[s].name # run.name
    /\ \A d \in Blocks, s, t \in Slots :
         /\ Directory(d) /\ s # t
         /\ {disk[d].slots[s].type, disk[d].slots[t].type} \subseteq {1, 2}
         => disk[d].slots[s].name # disk[d].slots[t].name

IInv ==
  /\ TypeOK /\ Control /\ NoFullBlocks
  /\ ~formatted => Formatting
  /\ formatted => /\ Pointers /\ FreeBlocks /\ HeldBlocks /\ FileBlocks
                  /\ DirBlocksOwned /\ Target /\ NewName

\* Min is an element of its set.
LEMMA MinIn == ASSUME NEW T, T \subseteq Nat, T # {} PROVE Min(T) \in T
BY Least DEF Min

\* What the type invariant says, field by field.
LEMMA TypeFacts ==
  ASSUME TypeOK
  PROVE  /\ disk \in Images /\ run \in Runs /\ ffree \in Ids
         /\ tag \in [Blocks -> Tags]
         /\ \A b \in Blocks : /\ disk[b] \in DataBlocks /\ disk[b].next \in Ids
                              /\ disk[b].slots \in [Slots -> Entries]
                              /\ \A s \in Slots : disk[b].slots[s] \in Entries
BY DEF TypeOK, Images, DataBlocks

\* Elements that the sets of the model have.
LEMMA SetFacts ==
  /\ 0 \in Ids /\ 0 \notin Blocks /\ Root \in Blocks /\ 2 \in Blocks /\ NBlocks \in Ids /\ 0 \in Slots
  /\ Unused \in Entries /\ EmptyDir \in [Slots -> Entries] /\ TextSlots \in [Slots -> Entries]
  /\ NoChunk \in Chunks
  /\ Slots \subseteq Nat
<1>1. /\ 0 \in Ids /\ 0 \notin Blocks /\ Root \in Blocks /\ 2 \in Blocks /\ NBlocks \in Ids /\ 0 \in Slots
      /\ Slots \subseteq Nat
  BY SizesAssumption DEF SizesAssumption, Ids, Blocks, Root, Slots
<1>2. Unused \in Entries
  BY <1>1 DEF Unused, Entry, Entries
<1>3. EmptyDir \in [Slots -> Entries]
  BY <1>2 DEF EmptyDir
<1>4. TextSlots \in [Slots -> Entries]
  BY <1>1 DEF TextSlots, Entry, Entries
<1>5. NoChunk \in Chunks
  BY DEF NoChunk, Chunks
<1> QED BY <1>1, <1>2, <1>3, <1>4, <1>5

\* The blocks that the commands write are data blocks.
LEMMA NewBlocks ==
  ASSUME NEW n \in Ids
  PROVE  /\ ZeroBlock(n) \in DataBlocks
         /\ \A c \in Contents \cup {NoContent}, k \in Nat : TextBlock(n, c, k) \in DataBlocks
BY SetFacts DEF ZeroBlock, TextBlock, DataBlocks, Chunks

\* What Idle is.
LEMMA IdleIs ==
  /\ Idle \in Runs
  /\ Idle.op = "none" /\ Idle.at = "none" /\ Idle.cur = 0 /\ Idle.nxt = 0 /\ Idle.ff = 0
BY SetFacts, NewBlocks DEF Idle, Runs, Commands, Points

\* The invariant holds at first, when there is no image yet.
LEMMA Start == NoFullBlocks /\ Init => IInv
<1> SUFFICES ASSUME NoFullBlocks, Init PROVE IInv
  OBVIOUS
<1>1. TypeOK
  <2>1. ffree \in Ids /\ run \in Runs /\ formatted \in BOOLEAN
    BY IdleIs, SetFacts DEF Init
  <2>2. disk \in [Blocks -> DataBlocks]
    BY SetFacts, NewBlocks DEF Init
  <2>3. tag \in [Blocks -> Tags]
    BY DEF Init, Tags
  <2>4. past \in [wrecks : SUBSET (Blocks \X Slots), kills : 0 .. MaxKills]
    BY UseAssumption DEF Init, NoPast, UseAssumption
  <2> QED BY <2>1, <2>2, <2>3, <2>4 DEF TypeOK
<1>2. Control
  BY IdleIs DEF Init, Control
<1>3. ~formatted /\ Formatting
  BY IdleIs DEF Init, Formatting, NoPast
<1> QED BY <1>1, <1>2, <1>3 DEF IInv
-----------------------------------------------------------------------------
\* What writing one slot of a directory block changes, and what writing one
\* pointer of the image changes.
LEMMA SlotWritten ==
  ASSUME NEW blk \in DataBlocks, NEW k \in Slots, NEW new \in Entries
  PROVE  /\ [blk EXCEPT !.slots[k] = new] \in DataBlocks
         /\ [blk EXCEPT !.slots[k] = new].next = blk.next
         /\ \A s \in Slots :
              [blk EXCEPT !.slots[k] = new].slots[s] = IF s = k THEN new ELSE blk.slots[s]
<1>1. blk.slots \in [Slots -> Entries] /\ blk.next \in Ids /\ blk.chunk \in Chunks
  BY DEF DataBlocks
<1>2. [blk EXCEPT !.slots[k] = new] =
        [next |-> blk.next, slots |-> [blk.slots EXCEPT ![k] = new], chunk |-> blk.chunk]
  BY DEF DataBlocks
<1>3. [blk.slots EXCEPT ![k] = new] \in [Slots -> Entries]
  BY <1>1
<1> QED BY <1>1, <1>2, <1>3 DEF DataBlocks

\* Writing one pointer of the image changes nothing else.
LEMMA NextWritten ==
  ASSUME NEW d \in Images, NEW c \in Blocks, NEW n \in Ids
  PROVE  /\ [d EXCEPT ![c].next = n] \in Images
         /\ \A b \in Blocks :
              /\ [d EXCEPT ![c].next = n][b].next = IF b = c THEN n ELSE d[b].next
              /\ [d EXCEPT ![c].next = n][b].slots = d[b].slots
<1> DEFINE e == [d EXCEPT ![c].next = n]
<1>1. \A b \in Blocks : d[b] \in DataBlocks
  BY DEF Images
<1>2. [d[c] EXCEPT !.next = n] \in DataBlocks
      /\ [d[c] EXCEPT !.next = n].next = n /\ [d[c] EXCEPT !.next = n].slots = d[c].slots
  BY <1>1 DEF DataBlocks
<1>3. e = [d EXCEPT ![c] = [d[c] EXCEPT !.next = n]]
  OBVIOUS
<1>4. e \in Images
  BY <1>1, <1>2, <1>3 DEF Images
<1>5. \A b \in Blocks : e[b] = IF b = c THEN [d[c] EXCEPT !.next = n] ELSE d[b]
  BY <1>3 DEF Images
<1> HIDE DEF e
<1>6. \A b \in Blocks : e[b].next = (IF b = c THEN n ELSE d[b].next) /\ e[b].slots = d[b].slots
  BY <1>2, <1>5
<1> QED BY <1>4, <1>6 DEF e

\* Writing one block changes no other.
LEMMA BlockWritten ==
  ASSUME NEW d \in Images, NEW c, NEW new \in DataBlocks
  PROVE  /\ [d EXCEPT ![c] = new] \in Images
         /\ \A b \in Blocks : [d EXCEPT ![c] = new][b] = IF b = c THEN new ELSE d[b]
BY DEF Images

\* A command other than mymkfs works on an image that is complete.
LEMMA OnImage ==
  ASSUME IInv, run.op \in {"mycopyTo", "myrm", "mymkdir", "myrmdir"}
  PROVE  formatted /\ Pointers /\ FreeBlocks /\ HeldBlocks /\ FileBlocks /\ DirBlocksOwned /\ Target /\ NewName
BY DEF IInv, Formatting

\* The slot that a lookup finds.
LEMMA FindSlotIs ==
  ASSUME NEW slots \in [Slots -> Entries], NEW name, Found(slots, name)
  PROVE  LET s == FindSlot(slots, name) IN s \in Slots /\ slots[s].type # 0 /\ slots[s].name = name
<1>1. Matches(slots, name) # {} /\ Matches(slots, name) \subseteq Nat
  BY SetFacts DEF Found, Matches
<1>2. FindSlot(slots, name) \in Matches(slots, name)
  BY <1>1, MinIn DEF FindSlot
<1> QED BY <1>2 DEF Matches

\* The slot that a new entry goes to.
LEMMA UnusedSlotIs ==
  ASSUME NEW slots \in [Slots -> Entries], UnusedSlots(slots) # {}
  PROVE  Min(UnusedSlots(slots)) \in Slots /\ slots[Min(UnusedSlots(slots))].type = 0
<1>1. UnusedSlots(slots) \subseteq Nat
  BY SetFacts DEF UnusedSlots
<1>2. Min(UnusedSlots(slots)) \in UnusedSlots(slots)
  BY <1>1, MinIn
<1> QED BY <1>2 DEF UnusedSlots

\* What every step keeps of the types of the fields of run.
LEMMA RunFields ==
  ASSUME run \in Runs
  PROVE  /\ run.op \in Commands \cup {"none"} /\ run.at \in Points
         /\ run.dir \in Ids /\ run.dirblk \in DataBlocks /\ run.slot \in Slots
         /\ run.name \in Names \cup {NoName} /\ run.first \in Ids /\ run.size \in Nat
         /\ run.cur \in Ids /\ run.nxt \in Ids /\ run.left \in Nat
         /\ run.c \in Contents \cup {NoContent} /\ run.k \in Nat /\ run.ff \in Ids
         /\ run.dirblk.slots \in [Slots -> Entries]
BY DEF Runs, DataBlocks

\* Every step keeps the types.
LEMMA TypeStep == IInv /\ [Next]_vars => TypeOK'
<1> SUFFICES ASSUME IInv, [Next]_vars PROVE TypeOK'
  OBVIOUS
<1>0. TypeOK
  BY DEF IInv
<1>1. /\ disk \in Images /\ run \in Runs /\ ffree \in Ids /\ formatted \in BOOLEAN
      /\ tag \in [Blocks -> Tags]
      /\ past \in [wrecks : SUBSET (Blocks \X Slots), kills : 0 .. MaxKills]
      /\ \A b \in Blocks : disk[b].next \in Ids /\ disk[b].slots \in [Slots -> Entries]
  BY <1>0, TypeFacts DEF TypeOK
<1>2. ASSUME disk' \in Images, run' \in Runs, ffree' \in Ids, formatted' \in BOOLEAN,
             tag' \in [Blocks -> Tags],
             past' \in [wrecks : SUBSET (Blocks \X Slots), kills : 0 .. MaxKills]
      PROVE  TypeOK'
  BY <1>2 DEF TypeOK, Images
<1>3. CASE UNCHANGED vars
  BY <1>0, <1>3 DEF vars, TypeOK
<1>4. CASE MkfsSuper
  <2>1. run' \in Runs
    BY <1>4, IdleIs, SetFacts DEF MkfsSuper, Runs, Commands, Points
  <2>2. past' \in [wrecks : SUBSET (Blocks \X Slots), kills : 0 .. MaxKills]
    BY <1>4, UseAssumption DEF MkfsSuper, NoPast, UseAssumption
  <2> QED BY <1>1, <1>2, <1>4, <2>1, <2>2, SetFacts, Sizes DEF MkfsSuper
<1>5. CASE MkfsRoot
  <2>1. run' \in Runs
    BY <1>1, <1>5, SetFacts, Sizes DEF MkfsRoot, Runs, Points
  <2>2. disk' \in Images
    BY <1>1, <1>5, SetFacts, NewBlocks, BlockWritten DEF MkfsRoot
  <2>3. tag' \in [Blocks -> Tags]
    BY <1>5 DEF MkfsRoot, Tags
  <2> QED BY <1>1, <1>2, <1>5, <2>1, <2>2, <2>3 DEF MkfsRoot
<1>6. CASE MkfsList
  <2>1. run.cur + 1 \in Ids
    BY <1>1, <1>6, RunFields, Sizes DEF MkfsList, Ids
  <2>2. run' \in Runs
    BY <1>1, <1>6, <2>1 DEF MkfsList, Runs
  <2>3. disk' \in Images
    BY <1>1, <1>6, <2>1, NewBlocks, BlockWritten DEF MkfsList
  <2> QED BY <1>1, <1>2, <1>6, <2>2, <2>3 DEF MkfsList
<1>7. CASE MkfsLast
  <2>1. disk' \in Images
    BY <1>1, <1>7, SetFacts, NewBlocks, BlockWritten DEF MkfsLast
  <2> QED BY <1>1, <1>2, <1>7, <2>1, IdleIs DEF MkfsLast
<1>8. ASSUME ffree # 0, formatted PROVE PopFree(ffree) \in Ids /\ [tag EXCEPT ![ffree] = "held"] \in [Blocks -> Tags]
  <2>1. ffree \in Blocks
    BY <1>8 DEF IInv, Pointers, Ids0
  <2> QED BY <1>1, <2>1, Sizes DEF PopFree, Tags
<1>9. ASSUME NEW path \in DirPaths, NEW name \in Names, NEW c \in Contents, NEW len \in Lengths,
             CopyToBegin(path, name, c, len)
      PROVE  TypeOK'
  <2>1. Navigate(path) \in Blocks /\ Stored[name] \in Names /\ len \in Nat
    BY <1>9, SizesAssumption, NamesAssumption DEF CopyToBegin, SizesAssumption, NamesAssumption
  <2>2. PICK d \in Blocks : d = Navigate(path)
    BY <2>1
  <2>3. disk[d] \in DataBlocks /\ PopFree(ffree) \in Ids /\ d \in Ids
    BY <1>1, <1>8, <1>9, Sizes DEF Images, CopyToBegin
  <2>4. run' \in Runs
    BY <1>1, <1>9, <2>1, <2>2, <2>3, IdleIs DEF CopyToBegin, Runs, Commands, Points
  <2> QED BY <1>1, <1>2, <1>8, <1>9, <2>4 DEF CopyToBegin
<1>10. ASSUME NEW path \in DirPaths, NEW name \in Names, RmBegin(path, name) \/ RmdirBegin(path, name)
       PROVE  TypeOK'
  <2>2. PICK d \in Blocks : d = Navigate(path)
    BY <1>10 DEF RmBegin, RmdirBegin
  <2>3. disk[d] \in DataBlocks /\ d \in Ids /\ disk[d].slots \in [Slots -> Entries]
    BY <1>1, Sizes DEF Images
  <2>4. PICK s \in Slots : s = FindSlot(disk[d].slots, name)
    BY <1>10, <2>2, <2>3, FindSlotIs DEF RmBegin, RmdirBegin
  <2>5. disk[d].slots[s].first \in Ids
    BY <2>3 DEF Entries
  <2>6. ASSUME RmBegin(path, name) PROVE run' \in Runs
    <3>1. run' = [Idle EXCEPT !.op = "myrm", !.at = "free", !.dir = d,
                              !.dirblk = disk[d], !.slot = s,
                              !.first = disk[d].slots[s].first, !.cur = disk[d].slots[s].first, !.ff = ffree]
      BY <2>2, <2>4, <2>6 DEF RmBegin
    <3> QED BY <1>1, <2>3, <2>4, <2>5, <3>1, IdleIs DEF Runs, Commands, Points
  <2>7. ASSUME RmdirBegin(path, name) PROVE run' \in Runs
    <3>1. run' = [Idle EXCEPT !.op = "myrmdir", !.at = "free", !.dir = d,
                              !.dirblk = disk[d], !.slot = s,
                              !.first = disk[d].slots[s].first, !.ff = ffree]
      BY <2>2, <2>4, <2>7 DEF RmdirBegin
    <3> QED BY <1>1, <2>3, <2>4, <2>5, <3>1, IdleIs DEF Runs, Commands, Points
  <2>8. run' \in Runs
    BY <1>10, <2>6, <2>7
  <2> QED BY <1>1, <1>2, <1>10, <2>8 DEF RmBegin, RmdirBegin
<1>11. ASSUME NEW path \in DirPaths, NEW name \in Names, MkdirBegin(path, name)
       PROVE  TypeOK'
  <2>1. Navigate(path) \in Blocks /\ Stored[name] \in Names
    BY <1>11, NamesAssumption DEF MkdirBegin, NamesAssumption
  <2>2. PICK d \in Blocks : d = Navigate(path)
    BY <2>1
  <2>3. disk[d] \in DataBlocks /\ PopFree(ffree) \in Ids /\ d \in Ids
    BY <1>1, <1>8, <1>11, Sizes DEF Images, MkdirBegin
  <2>4. run' \in Runs
    BY <1>1, <1>11, <2>1, <2>2, <2>3, IdleIs DEF MkdirBegin, Runs, Commands, Points
  <2> QED BY <1>1, <1>2, <1>8, <1>11, <2>4 DEF MkdirBegin
<1>12. CASE CopyToAllocate
  <2>1. run.ff \in Blocks
    BY <1>12, OnImage DEF CopyToAllocate, Pointers, Ids0
  <2>2. PopFree(run.ff) \in Ids /\ run.ff \in Ids
    BY <1>1, <2>1, Sizes DEF PopFree
  <2>3. run' \in Runs
    BY <1>1, <1>12, <2>2 DEF CopyToAllocate, Runs, Points
  <2>4. tag' \in [Blocks -> Tags]
    BY <1>1, <1>12 DEF CopyToAllocate, Tags
  <2> QED BY <1>1, <1>2, <1>12, <2>2, <2>3, <2>4 DEF CopyToAllocate
<1>13. ASSUME NEW to \in Tags PROVE Retag("held", to) \in [Blocks -> Tags]
  BY <1>1, <1>13 DEF Retag
<1>14. CASE CopyToNoSpace
  BY <1>1, <1>2, <1>13, <1>14, IdleIs DEF CopyToNoSpace, Tags
<1>15. CASE CopyToWriteFull
  <2>1. run.left - Capacity \in Nat
    <3>1. run.left >= Capacity
      BY <1>15 DEF CopyToWriteFull, IInv, Control
    <3>2. run.left \in Nat /\ Capacity \in Nat
      BY <1>1, RunFields, SizesAssumption DEF SizesAssumption
    <3> QED BY <3>1, <3>2
  <2>2. run' \in Runs
    <3>1. run.nxt \in Ids /\ run.k + 1 \in Nat /\ "read" \in Points
      BY <1>1, RunFields DEF Points
    <3>2. run' = [run EXCEPT !.at = "read", !.cur = run.nxt, !.k = run.k + 1,
                             !.left = run.left - Capacity]
      BY <1>15 DEF CopyToWriteFull
    <3> QED BY <1>1, <2>1, <3>1, <3>2 DEF Runs
  <2>3. disk' \in Images
    BY <1>1, <1>15, RunFields, NewBlocks, BlockWritten DEF CopyToWriteFull
  <2> QED BY <1>1, <1>2, <1>15, <2>2, <2>3 DEF CopyToWriteFull
<1>16. CASE CopyToWriteShort
  <2>2. run' \in Runs
    <3>1. 0 \in Ids /\ run.k + 1 \in Nat
      BY <1>1, RunFields, SetFacts
    <3>2. run' = [run EXCEPT !.cur = 0, !.k = run.k + 1, !.left = 0]
      BY <1>16 DEF CopyToWriteShort
    <3> QED BY <1>1, <3>1, <3>2 DEF Runs
  <2>3. disk' \in Images
    BY <1>1, <1>16, RunFields, NewBlocks, BlockWritten, SetFacts DEF CopyToWriteShort
  <2> QED BY <1>1, <1>2, <1>16, <2>2, <2>3 DEF CopyToWriteShort
<1>17. ASSUME UnusedSlots(run.dirblk.slots) # {}, NEW type \in 0 .. 3, NEW size \in Nat
       PROVE  [disk EXCEPT ![run.dir] = [run.dirblk EXCEPT !.slots[Min(UnusedSlots(run.dirblk.slots))] =
                    Entry(type, run.name, run.first, size)]] \in Images
  <2>1. Min(UnusedSlots(run.dirblk.slots)) \in Slots /\ run.dirblk \in DataBlocks
    BY <1>1, <1>17, RunFields, UnusedSlotIs
  <2>2. Entry(type, run.name, run.first, size) \in Entries
    BY <1>1, RunFields DEF Entry, Entries
  <2> QED BY <1>1, <2>1, <2>2, SlotWritten, BlockWritten
<1>18. CASE CopyToEntry
  <2>1. disk' \in Images
    <3>1. 1 \in 0 .. 3 /\ run.size \in Nat
      BY <1>1, RunFields
    <3>2. UnusedSlots(run.dirblk.slots) # {}
      BY <1>18 DEF CopyToEntry
    <3>3. disk' = [disk EXCEPT ![run.dir] = [run.dirblk EXCEPT !.slots[Min(UnusedSlots(run.dirblk.slots))] =
                    Entry(1, run.name, run.first, run.size)]]
      BY <1>18 DEF CopyToEntry
    <3> QED BY <3>1, <3>2, <3>3, <1>17
  <2> QED BY <1>1, <1>2, <1>13, <1>18, <2>1, IdleIs DEF CopyToEntry, Tags
<1>19. CASE CopyToDirFull
  BY <1>1, <1>2, <1>13, <1>19, IdleIs DEF CopyToDirFull, Tags
<1>20. CASE RmFreeBlock
  <2>1. run.cur \in Blocks
    BY <1>20, OnImage DEF RmFreeBlock, Pointers, Ids0
  <2>2. disk[run.cur].next \in Ids /\ run.cur \in Ids /\ run.ff \in Ids
    BY <1>1, <2>1, RunFields, Sizes
  <2>3. run' \in Runs
    BY <1>1, <1>20, <2>2 DEF RmFreeBlock, Runs
  <2>4. disk' \in Images
    BY <1>1, <1>20, <2>1, <2>2, NextWritten DEF RmFreeBlock
  <2>5. tag' \in [Blocks -> Tags]
    BY <1>1, <1>20 DEF RmFreeBlock, Tags
  <2> QED BY <1>1, <1>2, <1>20, <2>3, <2>4, <2>5 DEF RmFreeBlock
<1>21. CASE RmSuper \/ RmdirSuper
  <2>1. run' \in Runs /\ ffree' \in Ids
    BY <1>1, <1>21, RunFields DEF RmSuper, RmdirSuper, Runs, Points
  <2> QED BY <1>1, <1>2, <1>21, <2>1 DEF RmSuper, RmdirSuper
<1>22. CASE RmEntry \/ RmdirEntry
  <2>1. disk' \in Images
    <3>1. disk' = [disk EXCEPT ![run.dir] = [run.dirblk EXCEPT !.slots[run.slot] = Unused]]
      BY <1>22 DEF RmEntry, RmdirEntry
    <3>2. PICK new \in DataBlocks : new = [run.dirblk EXCEPT !.slots[run.slot] = Unused]
      BY <1>1, RunFields, SetFacts, SlotWritten
    <3>3. disk' = [disk EXCEPT ![run.dir] = new]
      BY <3>1, <3>2
    <3> QED BY <1>1, <3>3, BlockWritten
  <2> QED BY <1>1, <1>2, <1>22, <2>1, IdleIs DEF RmEntry, RmdirEntry
<1>23. CASE MkdirInit
  <2>1. run' \in Runs
    BY <1>1, <1>23 DEF MkdirInit, Runs, Points
  <2>2. disk' \in Images
    BY <1>1, <1>23, NewBlocks, BlockWritten, SetFacts DEF MkdirInit
  <2> QED BY <1>1, <1>2, <1>23, <2>1, <2>2 DEF MkdirInit
<1>24. CASE MkdirEntry
  <2>1. disk' \in Images
    <3>1. 2 \in 0 .. 3 /\ 0 \in Nat
      OBVIOUS
    <3>2. UnusedSlots(run.dirblk.slots) # {}
      BY <1>24 DEF MkdirEntry
    <3>3. disk' = [disk EXCEPT ![run.dir] = [run.dirblk EXCEPT !.slots[Min(UnusedSlots(run.dirblk.slots))] =
                    Entry(2, run.name, run.first, 0)]]
      BY <1>24 DEF MkdirEntry
    <3> QED BY <3>1, <3>2, <3>3, <1>17
  <2> QED BY <1>1, <1>2, <1>13, <1>24, <2>1, IdleIs DEF MkdirEntry, Tags
<1>25. CASE MkdirUndoBlock
  <2>1. run.first \in Blocks
    BY <1>25, OnImage DEF MkdirUndoBlock, HeldBlocks, Making
  <2>2. run' \in Runs
    BY <1>1, <1>25, RunFields DEF MkdirUndoBlock, Runs, Points
  <2>3. disk' \in Images
    BY <1>1, <1>25, <2>1, RunFields, NextWritten DEF MkdirUndoBlock
  <2> QED BY <1>1, <1>2, <1>25, <2>2, <2>3 DEF MkdirUndoBlock
<1>26. CASE MkdirUndoSuper
  BY <1>1, <1>2, <1>13, <1>26, IdleIs, RunFields DEF MkdirUndoSuper, Tags
<1>27. CASE RmdirFreeBlock
  <2>1. run.first \in Blocks
    BY <1>27, OnImage DEF RmdirFreeBlock, DirBlocksOwned
  <2>2. run' \in Runs
    BY <1>1, <1>27, RunFields DEF RmdirFreeBlock, Runs, Points
  <2>3. disk' \in Images
    BY <1>1, <1>27, <2>1, RunFields, NextWritten DEF RmdirFreeBlock
  <2>4. tag' \in [Blocks -> Tags]
    BY <1>1, <1>27 DEF RmdirFreeBlock, Tags
  <2> QED BY <1>1, <1>2, <1>27, <2>2, <2>3, <2>4 DEF RmdirFreeBlock
<1>28. CASE Kill
  <2>1. tag' \in [Blocks -> Tags]
    BY <1>1, <1>28 DEF Kill, Tags
  <2>2. past' \in [wrecks : SUBSET (Blocks \X Slots), kills : 0 .. MaxKills]
    <3>1. Victim \in (Blocks \X Slots) \cup {<<0, 0>>}
      <4>1. CASE run.op \in {"myrm", "myrmdir"}
        <5>1. run.dir \in Blocks /\ run.slot \in Slots
          BY <1>1, <4>1, OnImage, RunFields DEF Pointers, Removal, Directory
        <5> QED BY <5>1 DEF Victim
      <4>2. CASE run.op \notin {"myrm", "myrmdir"}
        BY <4>2 DEF Victim
      <4> QED BY <4>1, <4>2
    <3>2. past.wrecks \cup ({Victim} \ {<<0, 0>>}) \in SUBSET (Blocks \X Slots)
      BY <1>1, <3>1
    <3>3. past.kills + 1 \in 0 .. MaxKills
      BY <1>1, <1>28, UseAssumption DEF Kill, UseAssumption
    <3> QED BY <1>28, <3>2, <3>3 DEF Kill
  <2> QED BY <1>1, <1>2, <1>28, <2>1, <2>2, IdleIs DEF Kill
<1>29. CASE Refused
  BY <1>0, <1>29 DEF Refused, vars, TypeOK
<1> QED BY <1>3, <1>4, <1>5, <1>6, <1>7, <1>9, <1>10, <1>11, <1>12, <1>14, <1>15, <1>16, <1>18,
           <1>19, <1>20, <1>21, <1>22, <1>23, <1>24, <1>25, <1>26, <1>27, <1>28, <1>29
        DEF Next, Begin, Step

-----------------------------------------------------------------------------
\* The directories on a path, as Navigate follows it.  v is what the rule makes
\* of w, n tokens far.
Passes(path, n, w, v) ==
  v = [i \in 0 .. n |-> IF i = 0 THEN Root ELSE NavigateToken(w[i - 1], path[i])]

\* One entry of a passage that follows the rule.
LEMMA PassesAt ==
  ASSUME NEW path, NEW n, NEW w, NEW v, Passes(path, n, w, v), NEW i \in 0 .. n
  PROVE  v[i] = IF i = 0 THEN Root ELSE NavigateToken(w[i - 1], path[i])
BY DEF Passes

\* The same, of a passage that is defined by itself.
LEMMA PassesSelf ==
  ASSUME NEW path, NEW n, NEW w, Passes(path, n, w, w), NEW i \in 0 .. n
  PROVE  w[i] = IF i = 0 THEN Root ELSE NavigateToken(w[i - 1], path[i])
BY PassesAt

\* The recursion in Navigate has a solution.
LEMMA PassageExists ==
  ASSUME NEW path, Len(path) \in Nat
  PROVE  \E w : Passes(path, Len(path), w, w)
<1> DEFINE T == {n \in Nat : \E w : Passes(path, n, w, w)}
<1>1. 0 \in T
  <2> DEFINE w == [i \in 0 .. 0 |-> Root]
  <2>1. Passes(path, 0, w, w)
    BY DEF Passes
  <2> QED BY <2>1
<1>2. ASSUME NEW n \in Nat, n \in T PROVE n + 1 \in T
  <2>1. PICK w : Passes(path, n, w, w)
    BY <1>2
  <2> DEFINE v == [i \in 0 .. n + 1 |-> IF i <= n THEN w[i] ELSE NavigateToken(w[n], path[n + 1])]
             g == [i \in 0 .. n + 1 |-> IF i = 0 THEN Root ELSE NavigateToken(v[i - 1], path[i])]
  <2>2. ASSUME NEW i \in 0 .. n + 1 PROVE v[i] = g[i]
    <3>0. g[i] = IF i = 0 THEN Root ELSE NavigateToken(v[i - 1], path[i])
      OBVIOUS
    <3>1. CASE i <= n
      <4>1. v[i] = w[i] /\ (i # 0 => v[i - 1] = w[i - 1]) /\ i \in 0 .. n
        BY <3>1
      <4> HIDE DEF T, v, g
      <4>2. w[i] = IF i = 0 THEN Root ELSE NavigateToken(w[i - 1], path[i])
        BY <2>1, <4>1, PassesSelf
      <4> QED BY <3>0, <4>1, <4>2
    <3>2. CASE i = n + 1
      <4>1. v[i - 1] = w[n] /\ v[i] = NavigateToken(w[n], path[n + 1]) /\ i # 0
        BY <3>2
      <4> HIDE DEF T, v, g
      <4> QED BY <3>0, <3>2, <4>1
    <3> QED BY <3>1, <3>2
  <2>3. v = [i \in 0 .. n + 1 |-> v[i]] /\ g = [i \in 0 .. n + 1 |-> g[i]]
    OBVIOUS
  <2>4. v = g
    <3> HIDE DEF v, g, T
    <3> QED BY <2>2, <2>3
  <2>5. Passes(path, n + 1, v, v)
    BY <2>4 DEF Passes
  <2> QED BY <2>5
<1> HIDE DEF T
<1>3. Len(path) \in T
  BY <1>1, <1>2, Induct
<1> QED BY <1>3 DEF T

\* The block of an entry that a path leads through is a directory.
LEMMA TokenIs ==
  ASSUME TypeOK, DirBlocksOwned, ~Removal, NEW b, NEW name, b = 0 \/ Directory(b),
         \A s \in Slots : <<b, s>> \in past.wrecks => disk[b].slots[s].name # name
  PROVE  NavigateToken(b, name) = 0 \/ Directory(NavigateToken(b, name))
<1> DEFINE seen == {s \in Matches(disk[b].slots, name) :
                      s % NavStride = 0 /\ disk[b].slots[s].type = 2}
<1>1. CASE b = 0 \/ seen = {}
  BY <1>1 DEF NavigateToken
<1>2. CASE b # 0 /\ seen # {}
  <2>1. seen \subseteq Slots /\ seen \subseteq Nat
    BY SetFacts DEF Matches
  <2>2. PICK s \in seen : s = Min(seen)
    BY <1>2, <2>1, MinIn
  <2>3. s \in Slots /\ IsEntry(2, b, s)
    <3>1. s \in Slots /\ disk[b].slots[s].name = name /\ disk[b].slots[s].type = 2
      BY <2>1, <2>2 DEF Matches
    <3> QED BY <1>2, <3>1 DEF IsEntry, Targeted
  <2>4. First(b, s) \in Blocks /\ tag[First(b, s)] = "dir"
    BY <1>2, <2>3 DEF DirBlocksOwned, Directory
  <2>5. NavigateToken(b, name) = First(b, s)
    BY <1>2, <2>2 DEF NavigateToken, First
  <2> QED BY <2>4, <2>5 DEF Directory
<1> QED BY <1>1, <1>2

\* What the user leaves alone: on the way, and where the path leads.
LEMMA Avoided ==
  ASSUME NEW path \in DirPaths, NEW name, AvoidsWrecks(path, name)
  PROVE  /\ \A i \in 0 .. Len(path), s \in Slots :
              /\ i < Len(path)
              /\ <<Passage(path)[i], s>> \in past.wrecks
              => disk[Passage(path)[i]].slots[s].name # path[i + 1]
         /\ \A s \in Slots :
              <<Navigate(path), s>> \in past.wrecks => disk[Navigate(path)].slots[s].name # name
<1>1. path \in Seq(Names) /\ Len(path) \in Nat
  BY NamesAssumption DEF NamesAssumption
<1>2. ASSUME NEW i \in 0 .. Len(path), NEW s \in Slots, <<Passage(path)[i], s>> \in past.wrecks
      PROVE  disk[Passage(path)[i]].slots[s].name # Append(path, name)[i + 1]
  <2>1. PICK w \in past.wrecks : w = <<Passage(path)[i], s>>
    BY <1>2
  <2>2. w[1] = Passage(path)[i] /\ w[2] = s
    BY <2>1
  <2> QED BY <2>2 DEF AvoidsWrecks
<1>3. \A i \in 0 .. Len(path) : Append(path, name)[i + 1] = IF i < Len(path) THEN path[i + 1] ELSE name
  BY <1>1
<1>4. Len(path) \in 0 .. Len(path)
  BY <1>1
<1> QED BY <1>2, <1>3, <1>4 DEF Navigate

\* Where a path leads is a directory.
LEMMA NavigateIs ==
  ASSUME TypeOK, DirBlocksOwned, ~Removal, \A b \in Blocks : tag[b] = "root" <=> b = Root,
         NEW path \in DirPaths, NEW name, AvoidsWrecks(path, name)
  PROVE  Navigate(path) = 0 \/ Directory(Navigate(path))
<1> DEFINE w == CHOOSE v : Passes(path, Len(path), v, v)
<1>1. Passage(path) = w /\ Navigate(path) = w[Len(path)]
  BY DEF Navigate, Passage, Passes
<1>2. Len(path) \in Nat
  BY NamesAssumption DEF NamesAssumption
<1>3. Passes(path, Len(path), w, w)
  BY <1>2, PassageExists
<1> HIDE DEF w
<1> DEFINE T == {n \in Nat : n <= Len(path) => w[n] = 0 \/ Directory(w[n])}
<1>4. 0 \in T
  <2>1. w[0] = Root
    BY <1>2, <1>3, PassesSelf
  <2> QED BY <2>1, SetFacts DEF Directory
<1>5. ASSUME NEW n \in Nat, n \in T PROVE n + 1 \in T
  <2> SUFFICES ASSUME n + 1 <= Len(path) PROVE w[n + 1] = 0 \/ Directory(w[n + 1])
    OBVIOUS
  <2>1. w[n] = 0 \/ Directory(w[n])
    BY <1>2, <1>5
  <2>2. PICK i \in 0 .. Len(path) : i = n + 1 /\ i # 0 /\ i - 1 = n
    BY <1>2
  <2>3. w[i] = NavigateToken(w[n], path[i])
    BY <1>3, <2>2, PassesSelf
  <2>4. \A s \in Slots : <<w[n], s>> \in past.wrecks => disk[w[n]].slots[s].name # path[i]
    <3>1. n \in 0 .. Len(path) /\ n < Len(path)
      BY <1>2
    <3> QED BY <1>1, <2>2, <3>1, Avoided
  <2> QED BY <2>1, <2>2, <2>3, <2>4, TokenIs
<1> HIDE DEF T
<1>6. Len(path) \in T
  BY <1>2, <1>4, <1>5, Induct
<1> QED BY <1>1, <1>6, <1>2 DEF T

-----------------------------------------------------------------------------
\* What a step keeps: the pointers, the entries of files and directories that
\* are in use, the names in the directories.
LinksKept == \A b \in Blocks : disk'[b].next = disk[b].next
EntriesKept(type) ==
  \A d \in Blocks, s \in Slots :
    /\ IsEntry(type, d, s)' <=> IsEntry(type, d, s)
    /\ IsEntry(type, d, s) => First(d, s)' = First(d, s)
TagKept(t) == \A b \in Blocks : tag'[b] = t <=> tag[b] = t

Sound ==
  /\ Pointers /\ FreeBlocks /\ HeldBlocks /\ FileBlocks
  /\ DirBlocksOwned /\ Target /\ NewName

\* Chains stay as they are when no pointer changes.
LEMMA ChainsKept ==
  ASSUME disk \in Images, disk' \in Images, LinksKept
  PROVE  \A x \in Ids : Reach(disk', x) = Reach(disk, x) /\ (Ended(disk', x) <=> Ended(disk, x))
<1> SUFFICES ASSUME NEW x \in Ids
             PROVE  Reach(disk', x) = Reach(disk, x) /\ (Ended(disk', x) <=> Ended(disk, x))
  OBVIOUS
<1>1. \A y \in Reach(disk, x) : disk'[y].next = disk[y].next
  BY ChainBasics DEF LinksKept
<1> QED BY <1>1, Untouched

\* Files that the step leaves alone.
LEMMA FilesKept ==
  ASSUME TypeOK, TypeOK', FileBlocks, EntriesKept(1), TagKept("file"),
         run.op = "myrm" => On(run.cur) = {}, run'.op # "myrm",
         \A b \in Blocks : tag[b] = "file" => disk'[b].next = disk[b].next
  PROVE  FileBlocks'
<1>1. disk \in Images /\ disk' \in Images
  BY DEF TypeOK, Images
<1>2. ASSUME NEW d \in Blocks, NEW s \in Slots, IsEntry(1, d, s)
      PROVE  /\ Reach(disk', First(d, s)) = Reach(disk, First(d, s))
             /\ Ended(disk', First(d, s)) <=> Ended(disk, First(d, s))
             /\ Reach(disk, First(d, s)) \subseteq Blocks
  <2>1. First(d, s) \in Ids /\ \A b \in Reach(disk, First(d, s)) : tag[b] = "file"
    BY <1>2, Sizes DEF FileBlocks, On
  <2>2. Reach(disk, First(d, s)) \subseteq Blocks
    BY <1>1, <2>1, ChainBasics
  <2> QED BY <1>1, <2>1, <2>2, Untouched
<1>3. ASSUME NEW d \in Blocks, NEW s \in Slots
      PROVE  /\ IsEntry(1, d, s)' <=> IsEntry(1, d, s)
             /\ IsEntry(1, d, s) => /\ First(d, s)' = First(d, s)
                                    /\ Reach(disk', First(d, s)') = Reach(disk, First(d, s))
                                    /\ Ended(disk', First(d, s)') <=> Ended(disk, First(d, s))
  BY <1>2 DEF EntriesKept
<1>4. ASSUME NEW d \in Blocks, NEW s \in Slots, IsEntry(1, d, s)'
      PROVE  /\ First(d, s)' \in Blocks /\ Ended(disk', First(d, s)')
             /\ \A b \in Reach(disk', First(d, s)') :
                  /\ tag'[b] = "file"
                  /\ \A e \in Blocks, t \in Slots :
                       IsEntry(1, e, t)' /\ b \in Reach(disk', First(e, t)') => d = e /\ s = t
  <2>1. IsEntry(1, d, s) /\ First(d, s) \in Blocks /\ Ended(disk, First(d, s))
    BY <1>3, <1>4 DEF FileBlocks, Stops
  <2>2. ASSUME NEW b \in Reach(disk, First(d, s))
        PROVE  /\ tag'[b] = "file"
               /\ \A e \in Blocks, t \in Slots :
                    IsEntry(1, e, t) /\ b \in Reach(disk, First(e, t)) => d = e /\ s = t
    <3>1. b \in Blocks
      BY <1>2, <2>1
    <3> QED BY <2>1, <2>2, <3>1 DEF FileBlocks, On, TagKept
  <2> QED BY <1>3, <2>1, <2>2
<1>5. ASSUME NEW b \in Blocks, tag'[b] = "file"
      PROVE  \E d \in Blocks, s \in Slots : IsEntry(1, d, s)' /\ b \in Reach(disk', First(d, s)')
  <2>1. PICK d \in Blocks, s \in Slots : IsEntry(1, d, s) /\ b \in Reach(disk, First(d, s))
    BY <1>5 DEF FileBlocks, On, TagKept
  <2> QED BY <1>3, <2>1
<1> QED BY <1>4, <1>5 DEF FileBlocks, On, Stops

\* Directories that the step leaves alone.
LEMMA DirsKept ==
  ASSUME TypeOK, DirBlocksOwned, EntriesKept(2), TagKept("dir"),
         ~(run.op = "myrmdir" /\ run.at = "free"), ~(run'.op = "myrmdir" /\ run'.at = "free")
  PROVE  DirBlocksOwned'
<1>1. ASSUME NEW d \in Blocks, NEW s \in Slots
      PROVE  /\ IsEntry(2, d, s)' <=> IsEntry(2, d, s)
             /\ IsEntry(2, d, s) => First(d, s)' = First(d, s)
  BY DEF EntriesKept
<1>2. ASSUME NEW d \in Blocks, NEW s \in Slots, IsEntry(2, d, s)'
      PROVE  /\ First(d, s)' \in Blocks /\ tag'[First(d, s)'] = "dir"
             /\ \A e \in Blocks, t \in Slots :
                  IsEntry(2, e, t)' /\ First(d, s)' = First(e, t)' => d = e /\ s = t
  BY <1>1, <1>2 DEF DirBlocksOwned, TagKept
<1>3. ASSUME NEW b \in Blocks, tag'[b] = "dir"
      PROVE  \E d \in Blocks, s \in Slots : IsEntry(2, d, s)' /\ First(d, s)' = b
  <2>1. PICK d \in Blocks, s \in Slots : IsEntry(2, d, s) /\ First(d, s) = b
    BY <1>3 DEF DirBlocksOwned, TagKept
  <2> QED BY <1>1, <2>1
<1> QED BY <1>2, <1>3 DEF DirBlocksOwned

\* A step that changes neither a slot of a directory, nor which blocks are
\* directories, nor what is being removed, keeps the entries.
LEMMA SlotsKept ==
  ASSUME \A d \in Blocks : Directory(d)' <=> Directory(d),
         \A d \in Blocks : Directory(d) => disk'[d].slots = disk[d].slots,
         past'.wrecks = past.wrecks, \A d \in Blocks, s \in Slots : Targeted(d, s)' <=> Targeted(d, s)
  PROVE  EntriesKept(1) /\ EntriesKept(2)
<1> SUFFICES ASSUME NEW type \in {1, 2}, NEW d \in Blocks, NEW s \in Slots
             PROVE  /\ IsEntry(type, d, s)' <=> IsEntry(type, d, s)
                    /\ IsEntry(type, d, s) => First(d, s)' = First(d, s)
  BY DEF EntriesKept
<1> QED BY DEF IsEntry, First

-----------------------------------------------------------------------------
\* The first block of a chain that ends, and the chain behind it.
LEMMA FirstOnChain ==
  ASSUME TypeOK, NEW f \in Blocks, Stops(f)
  PROVE  /\ disk[f].next \in Ids /\ Stops(disk[f].next)
         /\ On(f) = {f} \cup On(disk[f].next) /\ f \notin On(disk[f].next)
         /\ On(disk[f].next) \subseteq Blocks
<1>1. disk \in Images /\ disk[f].next \in Ids /\ f \in Ids
  BY TypeFacts, Sizes
<1>2. PICK n \in Ids : n = disk[f].next
  BY <1>1
<1>3. Reach(disk, n) \subseteq Blocks
  BY <1>1, ChainBasics
<1>4. Ended(disk, f)
  BY DEF Stops
<1>5. Ended(disk, n) /\ Reach(disk, f) = {f} \cup Reach(disk, n)
  BY <1>1, <1>2, <1>4, Behind
<1>6. f \notin Reach(disk, n)
  BY <1>1, <1>2, <1>4, NotBehind
<1> QED BY <1>2, <1>3, <1>5, <1>6 DEF Stops, On

\* The chain of x, which every x has.
LEMMA OnBlocks ==
  ASSUME TypeOK, NEW x \in Ids
  PROVE  On(x) \subseteq Blocks /\ (x \in Blocks => x \in On(x)) /\ (x \notin Blocks => On(x) = {} /\ Stops(x))
<1>1. disk \in Images
  BY TypeFacts
<1> QED BY <1>1, ChainBasics, NoChain DEF On, Stops

\* What mycopyTo and mymkdir have in common when they begin: the first block of
\* the free list is taken.
LEMMA Taken ==
  ASSUME IInv, formatted, run = Idle, TypeOK', ffree # 0, ffree' = PopFree(ffree),
         tag' = [tag EXCEPT ![ffree] = "held"], UNCHANGED <<disk, formatted, past>>,
         run'.op \in {"mycopyTo", "mymkdir"}, NEW d \in Blocks, Directory(d),
         run'.dir = d, run'.dirblk = disk[d],
         run'.first = ffree, run'.ff = PopFree(ffree), run'.cur \in Ids0, run'.nxt \in Ids0,
         run'.at # "undo", run'.at # "write",
         \A s \in Slots : disk[d].slots[s].type # 0 => disk[d].slots[s].name # run'.name \/ ~WholeNames
  PROVE  /\ Pointers' /\ FreeBlocks' /\ FileBlocks' /\ DirBlocksOwned' /\ Target' /\ NewName'
         /\ run'.first \in Blocks /\ Stops(run'.first) /\ disk[run'.first].next = run'.ff
         /\ \A b \in Blocks : tag'[b] = "held" <=> b = run'.first
         /\ \A b \in Blocks : b \in On(run'.first) <=> tag'[b] \in {"held", "free"}
<1>0. TypeOK /\ Pointers /\ FreeBlocks /\ HeldBlocks /\ FileBlocks /\ DirBlocksOwned /\ Target /\ NewName
      /\ run.op = "none"
  BY IdleIs DEF IInv
<1>1. /\ disk \in Images /\ tag \in [Blocks -> Tags] /\ \A b \in Blocks : disk[b].next \in Ids
  BY <1>0, TypeFacts
<1>2. ffree \in Blocks
  BY <1>0 DEF Pointers, Ids0
<1>3. PICK n \in Ids : n = disk[ffree].next
  BY <1>1, <1>2
<1>4. /\ ~Removal /\ ~Making /\ Removal' = FALSE /\ Making' = TRUE
  BY <1>0 DEF Removal, Making
<1>a. Stops(ffree)
  BY <1>0 DEF FreeBlocks
<1>5. /\ Stops(ffree) /\ Stops(n) /\ On(ffree) = {ffree} \cup On(n) /\ ffree \notin On(n)
      /\ On(n) \subseteq Blocks
  BY <1>0, <1>2, <1>3, <1>a, FirstOnChain
<1>6. \A b \in Blocks : tag[b] = "free" <=> b \in On(ffree)
  BY <1>0, <1>4, <1>5, <1>2 DEF FreeBlocks
<1>7. \A b \in Blocks : tag'[b] = IF b = ffree THEN "held" ELSE tag[b]
  BY <1>1, <1>2
<1>8. tag[ffree] = "free" /\ n \in Ids0 /\ ffree' = n /\ run'.ff = n
  BY <1>0, <1>2, <1>3, <1>5, <1>6 DEF Pointers, PopFree
<1>9. \A b \in Blocks : Directory(b)' <=> Directory(b)
  BY <1>7, <1>8 DEF Directory
<1>10. EntriesKept(1) /\ EntriesKept(2)
  BY <1>4, <1>9, SlotsKept DEF Targeted
<1>11. Pointers'
  <2>1. run'.op # "mymkfs" /\ {ffree', run'.ff, run'.cur, run'.nxt} \subseteq Ids0
    BY <1>8
  <2>2. Directory(d)'
    BY <1>9
  <2>3. \A b \in Blocks : tag'[b] = "root" <=> b = Root
    BY <1>0, <1>7, <1>8 DEF Pointers
  <2>4. \A b \in Blocks, s \in Slots :
          <<b, s>> \in past'.wrecks => Directory(b)' /\ disk'[b].slots[s].type # 0
    BY <1>0, <1>9 DEF Pointers
  <2>5. \A b \in Blocks : disk'[b].next \in Ids0
    BY <1>0 DEF Pointers
  <2>6. Directory(run.dir)' /\ run'.dirblk = disk'[run'.dir]
    BY <2>2 DEF Directory
  <2> QED BY <2>1, <2>3, <2>4, <2>5, <2>6 DEF Pointers, Ids0
<1>12. FreeBlocks'
  BY <1>4, <1>5, <1>6, <1>7, <1>8 DEF FreeBlocks, On, Stops
<1>13. FileBlocks'
  BY <1>0, <1>7, <1>8, <1>10, FilesKept DEF TagKept
<1>14. DirBlocksOwned'
  BY <1>0, <1>7, <1>8, <1>10, DirsKept DEF TagKept
<1>15. Target'
  BY <1>4 DEF Target
<1>16. NewName'
  BY <1>0, <1>9 DEF NewName
<1>17. \A b \in Blocks : tag'[b] = "held" <=> b = run'.first
  BY <1>0, <1>4, <1>7, <1>8 DEF HeldBlocks
<1>18. \A b \in Blocks : b \in On(run'.first) <=> tag'[b] \in {"held", "free"}
  BY <1>2, <1>5, <1>6, <1>7, <1>17
<1> QED BY <1>2, <1>3, <1>5, <1>8, <1>11, <1>12, <1>13, <1>14, <1>15, <1>16, <1>17, <1>18

\* mycopyTo: the block taken for the head of the chain was free.
LEMMA StepCopyToBegin ==
  ASSUME IInv, TypeOK', NEW path \in DirPaths, NEW name \in Names, NEW c \in Contents, NEW len \in Lengths,
         AvoidsWrecks(path, name), CopyToBegin(path, name, c, len)
  PROVE  Sound'
<1>0. TypeOK /\ Pointers /\ DirBlocksOwned /\ NoFullBlocks /\ run.op = "none" /\ run \in Runs
  BY IdleIs DEF IInv, TypeOK, CopyToBegin
<1>1. PICK d \in Blocks : d = Navigate(path)
  BY DEF CopyToBegin
<1>2. Directory(d)
  BY <1>0, <1>1, NavigateIs, SetFacts DEF Pointers, Removal
<1>3. run' = [Idle EXCEPT !.op = "mycopyTo", !.at = "read",
                         !.dir = d, !.dirblk = disk[d], !.name = Stored[name],
                         !.first = ffree, !.cur = ffree, !.size = len,
                         !.left = len, !.c = c, !.ff = PopFree(ffree)]
  BY <1>1 DEF CopyToBegin
<1>4. /\ run'.op = "mycopyTo" /\ run'.at = "read" /\ run'.dir = d /\ run'.dirblk = disk[d]
      /\ run'.name = Stored[name] /\ run'.first = ffree /\ run'.cur = ffree /\ run'.left = len
      /\ run'.ff = PopFree(ffree) /\ run'.nxt = 0
  BY <1>3, IdleIs DEF Runs
<1>5. \A s \in Slots : disk[d].slots[s].type # 0 => disk[d].slots[s].name # run'.name \/ ~WholeNames
  BY <1>1, <1>4 DEF CopyToBegin, Found, Matches, WholeNames
<1>6. ffree \in Ids0 /\ ffree # 0
  BY <1>0 DEF Pointers, CopyToBegin
<1>7. /\ Pointers' /\ FreeBlocks' /\ FileBlocks' /\ DirBlocksOwned' /\ Target' /\ NewName'
      /\ run'.first \in Blocks /\ Stops(run'.first) /\ disk[run'.first].next = run'.ff
      /\ \A b \in Blocks : tag'[b] = "held" <=> b = run'.first
      /\ \A b \in Blocks : b \in On(run'.first) <=> tag'[b] \in {"held", "free"}
  BY <1>2, <1>4, <1>5, <1>6, Taken DEF CopyToBegin, Ids0
<1>8. HeldBlocks'
  BY <1>0, <1>4, <1>6, <1>7 DEF HeldBlocks, Making, On, Stops, NoFullBlocks, CopyToBegin
<1> QED BY <1>7, <1>8 DEF Sound

\* mymkdir: the block taken for the directory was free.
LEMMA StepMkdirBegin ==
  ASSUME IInv, TypeOK', NEW path \in DirPaths, NEW name \in Names,
         AvoidsWrecks(path, name), MkdirBegin(path, name)
  PROVE  Sound'
<1>0. TypeOK /\ Pointers /\ DirBlocksOwned /\ run.op = "none" /\ run \in Runs
  BY IdleIs DEF IInv, TypeOK, MkdirBegin
<1>1. PICK d \in Blocks : d = Navigate(path)
  BY DEF MkdirBegin
<1>2. Directory(d)
  BY <1>0, <1>1, NavigateIs, SetFacts DEF Pointers, Removal
<1>3. run' = [Idle EXCEPT !.op = "mymkdir", !.at = "init",
                         !.dir = d, !.dirblk = disk[d], !.name = Stored[name],
                         !.first = ffree, !.ff = PopFree(ffree)]
  BY <1>1 DEF MkdirBegin
<1>4. /\ run'.op = "mymkdir" /\ run'.at = "init" /\ run'.dir = d /\ run'.dirblk = disk[d]
      /\ run'.name = Stored[name] /\ run'.first = ffree /\ run'.cur = 0
      /\ run'.ff = PopFree(ffree) /\ run'.nxt = 0
  BY <1>3, IdleIs DEF Runs
<1>5. \A s \in Slots : disk[d].slots[s].type # 0 => disk[d].slots[s].name # run'.name \/ ~WholeNames
  BY <1>1, <1>4 DEF MkdirBegin, Found, Matches, WholeNames
<1>7. /\ Pointers' /\ FreeBlocks' /\ FileBlocks' /\ DirBlocksOwned' /\ Target' /\ NewName'
      /\ run'.first \in Blocks
      /\ \A b \in Blocks : tag'[b] = "held" <=> b = run'.first
  BY <1>2, <1>4, <1>5, Taken DEF MkdirBegin, Ids0
<1>8. HeldBlocks'
  BY <1>4, <1>7 DEF HeldBlocks, Making
<1> QED BY <1>7, <1>8 DEF Sound

-----------------------------------------------------------------------------
\* What a mycopyTo in progress finds.
LEMMA Copying ==
  ASSUME IInv, run.op = "mycopyTo"
  PROVE  /\ formatted /\ TypeOK /\ Pointers /\ FreeBlocks /\ HeldBlocks /\ FileBlocks /\ DirBlocksOwned
         /\ Target /\ NewName /\ Control
         /\ ~Removal /\ Making /\ run.ff = ffree /\ Stops(ffree)
         /\ \A b \in Blocks : tag[b] = "free" <=> b \in On(ffree)
         /\ On(ffree) \subseteq Blocks
         /\ run.first \in Blocks /\ tag[run.first] = "held" /\ Stops(run.first)
         /\ Directory(run.dir) /\ run.dirblk = disk[run.dir]
         /\ run.left >= 1 => run.cur \in Blocks
         /\ run.cur # 0 => run.cur \in Blocks /\ tag[run.cur] = "held" /\ run.left % Capacity # 0
         /\ run.left = 0 => run.cur = 0
<1>1. /\ formatted /\ TypeOK /\ Pointers /\ FreeBlocks /\ HeldBlocks /\ FileBlocks /\ DirBlocksOwned
      /\ Target /\ NewName /\ Control
  BY OnImage DEF IInv
<1>2. /\ ~Removal /\ Making /\ run.ff = ffree /\ Stops(ffree)
  BY <1>1 DEF Removal, Making, FreeBlocks
<1>3. On(ffree) \subseteq Blocks
  BY <1>1, OnBlocks, TypeFacts
<1>4. \A b \in Blocks : tag[b] = "free" <=> b \in On(ffree)
  BY <1>1, <1>2, <1>3 DEF FreeBlocks
<1>5. run.first \in Blocks /\ tag[run.first] = "held" /\ Stops(run.first)
  BY <1>1, <1>2 DEF HeldBlocks
<1>6. Directory(run.dir) /\ run.dirblk = disk[run.dir]
  BY <1>1, <1>2 DEF Pointers
<1>7. run.cur # 0 => run.cur \in Blocks /\ tag[run.cur] = "held" /\ run.left % Capacity # 0
  BY <1>1 DEF HeldBlocks, Pointers, Ids0
<1>8. run.left >= 1 => run.cur \in Blocks
  BY <1>1, <1>7 DEF HeldBlocks
<1>9. run.left = 0 => run.cur = 0
  <2>1. 0 % Capacity = 0
    BY SizesAssumption DEF SizesAssumption
  <2> QED BY <1>7, <2>1
<1> QED BY <1>1, <1>2, <1>3, <1>4, <1>5, <1>6, <1>7, <1>8, <1>9

\* The next block is taken before the last is written: its chain still runs on
\* through the free list.
LEMMA StepCopyToAllocate == ASSUME IInv, TypeOK', CopyToAllocate PROVE Sound'
<1>0. /\ formatted /\ TypeOK /\ Pointers /\ FreeBlocks /\ HeldBlocks /\ FileBlocks /\ DirBlocksOwned
      /\ Target /\ NewName /\ Control
      /\ ~Removal /\ Making /\ run.ff = ffree /\ Stops(ffree)
      /\ \A b \in Blocks : tag[b] = "free" <=> b \in On(ffree)
      /\ Directory(run.dir) /\ run.dirblk = disk[run.dir]
  BY Copying DEF CopyToAllocate
<1>1. run.cur \in Blocks /\ run.cur # 0
  <2>1. run.left >= 1
    BY <1>0, RunFields, SizesAssumption DEF CopyToAllocate, SizesAssumption, TypeOK
  <2> QED BY <2>1, Copying, SetFacts DEF CopyToAllocate
<1>2. /\ disk \in Images /\ tag \in [Blocks -> Tags] /\ \A b \in Blocks : disk[b].next \in Ids
  BY <1>0, TypeFacts
<1>3. ffree \in Blocks
  BY <1>0 DEF Pointers, Ids0, CopyToAllocate
<1>4. PICK n \in Ids : n = disk[ffree].next
  BY <1>2, <1>3
<1>5. /\ Stops(n) /\ On(ffree) = {ffree} \cup On(n) /\ ffree \notin On(n) /\ On(n) \subseteq Blocks
  BY <1>0, <1>3, <1>4, FirstOnChain
<1>6. /\ run'.op = "mycopyTo" /\ run'.at = "write" /\ run'.nxt = ffree /\ run'.ff = n /\ ffree' = n
      /\ run'.cur = run.cur /\ run'.first = run.first /\ run'.left = run.left
      /\ run'.dir = run.dir /\ run'.dirblk = run.dirblk /\ run'.name = run.name
  BY <1>0, <1>4 DEF CopyToAllocate, PopFree, TypeOK, Runs
<1>7. \A b \in Blocks : tag'[b] = IF b = ffree THEN "held" ELSE tag[b]
  BY <1>0, <1>2, <1>3 DEF CopyToAllocate
<1>8. tag[ffree] = "free" /\ n \in Ids0
  BY <1>0, <1>3, <1>4, <1>5 DEF Pointers
<1>9. \A b \in Blocks : Directory(b)' <=> Directory(b)
  BY <1>7, <1>8 DEF Directory
<1>10. /\ Removal' = FALSE /\ Making' = TRUE /\ disk' = disk /\ past' = past
  BY <1>6 DEF Removal, Making, CopyToAllocate
<1>11. EntriesKept(1) /\ EntriesKept(2)
  BY <1>0, <1>9, <1>10, SlotsKept DEF Targeted
<1>12. Pointers'
  <2>1. run'.op # "mymkfs" /\ {ffree', run'.ff, run'.cur, run'.nxt} \subseteq Ids0
    BY <1>1, <1>3, <1>6, <1>8 DEF Ids0
  <2>2. Directory(run.dir)' /\ run'.dirblk = disk'[run'.dir]
    BY <1>0, <1>6, <1>9, <1>10 DEF Directory
  <2>3. \A b \in Blocks : tag'[b] = "root" <=> b = Root
    BY <1>0, <1>7, <1>8 DEF Pointers
  <2> QED BY <1>0, <1>9, <1>10, <2>1, <2>2, <2>3 DEF Pointers, Ids0
<1>13. FreeBlocks'
  BY <1>0, <1>5, <1>6, <1>7, <1>8, <1>10 DEF FreeBlocks, On, Stops
<1>14. HeldBlocks'
  <2>1. disk[run.cur].next = ffree /\ tag[run.cur] = "held" /\ run.left % Capacity # 0
    BY <1>0, <1>1 DEF HeldBlocks, CopyToAllocate
  <2>2. \A b \in Blocks : b \in On(run.first) <=> tag'[b] \in {"held", "free"}
    BY <1>0, <1>1, <1>7, <1>8 DEF HeldBlocks, CopyToAllocate
  <2>3. Stops(run.first) /\ run.first \in Blocks /\ tag'[run.first] = "held"
    BY <1>0, <1>7 DEF HeldBlocks, CopyToAllocate
  <2>4. ffree # 0
    BY <1>3, SetFacts
  <2> QED BY <1>1, <1>3, <1>4, <1>6, <1>7, <1>10, <2>1, <2>2, <2>3, <2>4 DEF HeldBlocks, On, Stops
<1>15. FileBlocks'
  BY <1>0, <1>6, <1>7, <1>8, <1>10, <1>11, FilesKept DEF TagKept, CopyToAllocate
<1>16. DirBlocksOwned'
  BY <1>0, <1>6, <1>7, <1>8, <1>11, DirsKept DEF TagKept, CopyToAllocate
<1>17. Target'
  BY <1>6, <1>10 DEF Target
<1>18. NewName'
  BY <1>0, <1>6, <1>9, <1>10 DEF NewName
<1> QED BY <1>12, <1>13, <1>14, <1>15, <1>16, <1>17, <1>18 DEF Sound

\* A command gives up, or is killed, before it has made an entry: its blocks are
\* lost.
LEMMA GivenUp ==
  ASSUME IInv, TypeOK', Making, run' = Idle, UNCHANGED <<disk, ffree>>, past'.wrecks = past.wrecks,
         \A b \in Blocks : tag'[b] = IF tag[b] = "held" THEN "lost" ELSE tag[b]
  PROVE  Sound'
<1>0. /\ formatted /\ TypeOK /\ Pointers /\ FreeBlocks /\ HeldBlocks /\ FileBlocks /\ DirBlocksOwned
      /\ Target /\ NewName /\ ~Removal /\ run.op \in {"mycopyTo", "mymkdir"}
  BY OnImage DEF Making, Removal, IInv
<1>1. /\ run' = Idle /\ disk' = disk /\ past'.wrecks = past.wrecks /\ ffree' = ffree
      /\ \A b \in Blocks : tag'[b] = IF tag[b] = "held" THEN "lost" ELSE tag[b]
      /\ On(ffree) \subseteq Blocks
  BY <1>0, OnBlocks DEF TypeOK
<1>2. /\ run'.op = "none" /\ run'.at = "none" /\ run'.cur = 0 /\ run'.nxt = 0 /\ run'.ff = 0
      /\ Removal' = FALSE /\ Making' = FALSE
  BY <1>1, IdleIs DEF Removal, Making
<1>3. \A b \in Blocks : Directory(b)' <=> Directory(b)
  BY <1>1 DEF Directory
<1>4. EntriesKept(1) /\ EntriesKept(2)
  BY <1>0, <1>1, <1>2, <1>3, SlotsKept DEF Targeted
<1>5. Pointers'
  <2>1. {ffree', run'.ff, run'.cur, run'.nxt} \subseteq Ids0
    BY <1>0, <1>1, <1>2 DEF Ids0, Pointers
  <2>2. \A b \in Blocks : tag'[b] = "root" <=> b = Root
    BY <1>0, <1>1 DEF Pointers
  <2> QED BY <1>0, <1>1, <1>2, <1>3, <2>1, <2>2 DEF Pointers, Ids0
<1>6. FreeBlocks'
  BY <1>0, <1>1, <1>2 DEF FreeBlocks, On, Stops
<1>7. HeldBlocks'
  BY <1>1, <1>2 DEF HeldBlocks
<1>8. FileBlocks'
  BY <1>0, <1>1, <1>2, <1>4, FilesKept DEF TagKept
<1>9. DirBlocksOwned'
  BY <1>0, <1>1, <1>2, <1>4, DirsKept DEF TagKept
<1>10. Target'
  BY <1>2 DEF Target
<1>11. NewName'
  BY <1>0, <1>1, <1>2, <1>3 DEF NewName
<1> QED BY <1>5, <1>6, <1>7, <1>8, <1>9, <1>10, <1>11 DEF Sound

\* A mycopyTo that ends early gives up what it holds.
LEMMA StepCopyToGivesUp == ASSUME IInv, TypeOK', CopyToNoSpace \/ CopyToDirFull PROVE Sound'
<1>1. /\ run' = Idle /\ disk' = disk /\ past' = past /\ ffree' = ffree /\ Making
      /\ \A b \in Blocks : tag'[b] = IF tag[b] = "held" THEN "lost" ELSE tag[b]
  BY DEF CopyToNoSpace, CopyToDirFull, Retag, Making
<1> QED BY <1>1, GivenUp

\* A number has one remainder.
LEMMA OneRemainder ==
  ASSUME NEW c \in Nat \ {0}, NEW q \in Int, NEW p \in Int,
         NEW r \in 0 .. c - 1, NEW s \in 0 .. c - 1, c * q + r = c * p + s
  PROVE  r = s
<1>1. CASE q = p
  BY <1>1
<1>2. CASE q > p
  <2>1. c * (q - p) >= c
    <3>1. q - p >= 1
      BY <1>2
    <3> QED BY <3>1
  <2> QED BY <2>1
<1>3. CASE q < p
  <2>1. c * (p - q) >= c
    <3>1. p - q >= 1
      BY <1>3
    <3> QED BY <3>1
  <2> QED BY <2>1
<1> QED BY <1>1, <1>2, <1>3

\* Taking a whole block off a length leaves its remainder.
LEMMA OneBlockLess ==
  ASSUME NEW left \in Nat, left >= Capacity
  PROVE  (left - Capacity) % Capacity = left % Capacity
<1> DEFINE q == left \div Capacity
           p == (left - Capacity) \div Capacity
           r == left % Capacity
           s == (left - Capacity) % Capacity
<1>1. Capacity \in Nat \ {0} /\ left - Capacity \in Nat
  BY SizesAssumption DEF SizesAssumption
<1>2. left = Capacity * q + r /\ r \in 0 .. Capacity - 1 /\ q \in Int
  BY <1>1
<1>3. left - Capacity = Capacity * p + s /\ s \in 0 .. Capacity - 1 /\ p \in Int
  BY <1>1
<1> HIDE DEF q, p, r, s
<1>4. Capacity * (p + 1) = Capacity * p + Capacity /\ p + 1 \in Int
  BY <1>1, <1>3
<1>5. Capacity * q + r = Capacity * (p + 1) + s
  BY <1>1, <1>2, <1>3, <1>4
<1>6. r = s
  BY <1>1, <1>2, <1>3, <1>4, <1>5, OneRemainder
<1> QED BY <1>6 DEF r, s

\* A full block now leads to the one that was taken.
LEMMA StepCopyToWriteFull == ASSUME IInv, TypeOK', CopyToWriteFull PROVE Sound'
<1>0. /\ formatted /\ TypeOK /\ Pointers /\ FreeBlocks /\ HeldBlocks /\ FileBlocks /\ DirBlocksOwned
      /\ Target /\ NewName /\ Control
      /\ ~Removal /\ Making /\ run.op = "mycopyTo" /\ run.at = "write" /\ run.ff = ffree /\ Stops(ffree)
      /\ \A b \in Blocks : tag[b] = "free" <=> b \in On(ffree)
      /\ On(ffree) \subseteq Blocks
      /\ Directory(run.dir) /\ run.dirblk = disk[run.dir]
  BY Copying DEF CopyToWriteFull
<1>1. /\ disk \in Images /\ disk' \in Images /\ run \in Runs /\ run.left >= Capacity
      /\ run.cur \in Blocks /\ tag[run.cur] = "held" /\ run.nxt \in Blocks /\ tag[run.nxt] = "held"
      /\ run.nxt # 0 /\ run.cur # 0 /\ disk[run.cur].next = run.nxt /\ disk[run.nxt].next = run.ff
      /\ run.left % Capacity # 0
  <2>1. run.cur # 0
    BY <1>0 DEF HeldBlocks
  <2> QED BY <1>0, <2>1 DEF HeldBlocks, Control, Pointers, Ids0, TypeOK, Images
<1>2. /\ run'.op = "mycopyTo" /\ run'.at = "read" /\ run'.nxt = run.nxt /\ run'.ff = run.ff
      /\ run'.cur = run.nxt /\ run'.first = run.first /\ run'.left = run.left - Capacity
      /\ run'.dir = run.dir /\ run'.dirblk = run.dirblk /\ run'.name = run.name
      /\ tag' = tag /\ ffree' = ffree /\ past' = past
  BY <1>0 DEF CopyToWriteFull, TypeOK, Runs
<1>3. \A b \in Blocks : disk'[b].next = disk[b].next /\ (b # run.cur => disk'[b] = disk[b])
  <2>1. TextBlock(run.nxt, run.c, run.k).next = run.nxt
    BY DEF TextBlock
  <2> QED BY <1>1, <2>1 DEF CopyToWriteFull, Images
<1>4. \A x \in Ids : Reach(disk', x) = Reach(disk, x) /\ (Ended(disk', x) <=> Ended(disk, x))
  BY <1>1, <1>3, ChainsKept DEF LinksKept
<1>5. /\ \A b \in Blocks : Directory(b)' <=> Directory(b)
      /\ \A b \in Blocks : Directory(b) => disk'[b] = disk[b]
      /\ Removal' = FALSE /\ Making' = TRUE
  BY <1>1, <1>2, <1>3 DEF Directory, Removal, Making
<1>6. EntriesKept(1) /\ EntriesKept(2)
  BY <1>0, <1>2, <1>5, SlotsKept DEF Targeted
<1>7. Pointers'
  <2>1. {ffree', run'.ff, run'.cur, run'.nxt} \subseteq Ids0
    BY <1>0, <1>2 DEF Pointers
  <2>2. Directory(run.dir)' /\ run'.dirblk = disk'[run'.dir]
    BY <1>0, <1>2, <1>5 DEF Directory
  <2>3. \A b \in Blocks, s \in Slots :
          <<b, s>> \in past'.wrecks => Directory(b)' /\ disk'[b].slots[s].type # 0
    BY <1>0, <1>2, <1>5 DEF Pointers
  <2> QED BY <1>0, <1>2, <1>3, <2>1, <2>2, <2>3 DEF Pointers, Ids0
<1>8. ffree \in Ids /\ run.first \in Ids
  BY <1>0, RunFields DEF TypeOK
<1>9. FreeBlocks'
  BY <1>0, <1>2, <1>4, <1>5, <1>8 DEF FreeBlocks, On, Stops
<1>10. HeldBlocks'
  <2>1. run'.left % Capacity # 0
    BY <1>1, <1>2, OneBlockLess, RunFields
  <2>2. /\ Stops(run.first) /\ run.first \in Blocks /\ tag[run.first] = "held"
        /\ \A b \in Blocks : b \in On(run.first) <=> tag[b] \in {"held", "free"}
    BY <1>0, <1>1 DEF HeldBlocks
  <2> QED BY <1>1, <1>2, <1>3, <1>4, <1>5, <1>8, <2>1, <2>2 DEF HeldBlocks, On, Stops
<1>11. FileBlocks'
  BY <1>0, <1>2, <1>3, <1>6, FilesKept DEF TagKept
<1>12. DirBlocksOwned'
  BY <1>0, <1>2, <1>6, DirsKept DEF TagKept
<1>13. Target'
  BY <1>2, <1>5 DEF Target
<1>14. NewName'
  <2>1. disk'[run.dir] = disk[run.dir]
    BY <1>0, <1>5 DEF Directory
  <2> QED BY <1>0, <1>2, <1>5, <2>1 DEF NewName
<1> QED BY <1>7, <1>9, <1>10, <1>11, <1>12, <1>13, <1>14 DEF Sound

-----------------------------------------------------------------------------
\* The short block cuts the chain off the free list.
LEMMA StepCopyToWriteShort == ASSUME IInv, TypeOK', CopyToWriteShort PROVE Sound'
<1>0. /\ formatted /\ TypeOK /\ Pointers /\ FreeBlocks /\ HeldBlocks /\ FileBlocks /\ DirBlocksOwned
      /\ Target /\ NewName
      /\ ~Removal /\ Making /\ run.op = "mycopyTo" /\ run.at = "read" /\ run.ff = ffree /\ Stops(ffree)
      /\ \A b \in Blocks : tag[b] = "free" <=> b \in On(ffree)
      /\ On(ffree) \subseteq Blocks
      /\ run.first \in Blocks /\ tag[run.first] = "held" /\ Stops(run.first)
      /\ Directory(run.dir) /\ run.dirblk = disk[run.dir]
  BY Copying DEF CopyToWriteShort
<1>1. /\ disk \in Images /\ disk' \in Images /\ run \in Runs
      /\ run.cur \in Blocks /\ tag[run.cur] = "held" /\ disk[run.cur].next = ffree
      /\ \A b \in Blocks : b \in On(run.first) <=> tag[b] \in {"held", "free"}
  <2>1. run.cur # 0
    BY <1>0 DEF HeldBlocks, CopyToWriteShort
  <2> QED BY <1>0, <2>1 DEF HeldBlocks, Pointers, Ids0, TypeOK, Images
<1>2. /\ run'.op = "mycopyTo" /\ run'.at = "read" /\ run'.nxt = run.nxt /\ run'.ff = run.ff
      /\ run'.cur = 0 /\ run'.first = run.first /\ run'.left = 0
      /\ run'.dir = run.dir /\ run'.dirblk = run.dirblk /\ run'.name = run.name
      /\ tag' = tag /\ ffree' = ffree /\ past' = past
  BY <1>0, <1>1 DEF CopyToWriteShort, Runs
<1>3. disk'[run.cur].next = 0 /\ \A b \in Blocks : b # run.cur => disk'[b] = disk[b]
  <2>1. TextBlock(0, run.c, run.k).next = 0
    BY DEF TextBlock
  <2> QED BY <1>1, <2>1 DEF CopyToWriteShort, Images
<1>4. /\ \A b \in Blocks : Directory(b)' <=> Directory(b)
      /\ \A b \in Blocks : Directory(b) => disk'[b] = disk[b]
      /\ Removal' = FALSE /\ Making' = TRUE
  BY <1>1, <1>2, <1>3 DEF Directory, Removal, Making
<1>5. EntriesKept(1) /\ EntriesKept(2)
  BY <1>0, <1>2, <1>4, SlotsKept DEF Targeted
<1>6. Pointers'
  <2>1. {ffree', run'.ff, run'.cur, run'.nxt} \subseteq Ids0
    BY <1>0, <1>2 DEF Pointers, Ids0
  <2>2. Directory(run.dir)' /\ run'.dirblk = disk'[run'.dir]
    BY <1>0, <1>2, <1>4 DEF Directory
  <2>3. \A b \in Blocks, s \in Slots :
          <<b, s>> \in past'.wrecks => Directory(b)' /\ disk'[b].slots[s].type # 0
    BY <1>0, <1>2, <1>4 DEF Pointers
  <2>4. \A b \in Blocks : disk'[b].next \in Ids0
    BY <1>0, <1>3 DEF Pointers, Ids0
  <2> QED BY <1>0, <1>2, <2>1, <2>2, <2>3, <2>4 DEF Pointers
<1>7. ffree \in Ids /\ run.first \in Ids
  BY <1>0, RunFields DEF TypeOK
<1>8. Reach(disk', ffree) = Reach(disk, ffree) /\ Ended(disk', ffree)
  <2>1. \A y \in Reach(disk, ffree) : disk'[y].next = disk[y].next
    BY <1>0, <1>1, <1>3 DEF On
  <2> QED BY <1>0, <1>1, <1>7, <2>1, Untouched DEF Stops
<1>9. Ended(disk', run.first) /\ Reach(disk', run.first) = Reach(disk, run.first) \ Reach(disk, ffree)
  <2>1. run.cur \in Reach(disk, run.first) /\ Reach(disk, run.first) \subseteq Blocks
    BY <1>1, <1>7, ChainBasics DEF On
  <2>2. \A y \in Reach(disk, run.first) \ {run.cur} : disk'[y].next = disk[y].next
    BY <1>3, <2>1
  <2>3. disk'[run.cur].next \notin Blocks
    BY <1>3, SetFacts
  <2> QED BY <1>0, <1>1, <1>7, <2>1, <2>2, <2>3, Cut DEF Stops
<1>10. FreeBlocks'
  BY <1>0, <1>2, <1>4, <1>8 DEF FreeBlocks, On, Stops
<1>11. HeldBlocks'
  BY <1>0, <1>1, <1>2, <1>4, <1>9 DEF HeldBlocks, On, Stops
<1>12. FileBlocks'
  BY <1>0, <1>1, <1>2, <1>3, <1>5, FilesKept DEF TagKept
<1>13. DirBlocksOwned'
  BY <1>0, <1>2, <1>5, DirsKept DEF TagKept
<1>14. Target'
  BY <1>2, <1>4 DEF Target
<1>15. NewName'
  <2>1. disk'[run.dir] = disk[run.dir]
    BY <1>0, <1>4 DEF Directory
  <2> QED BY <1>0, <1>2, <1>4, <2>1 DEF NewName
<1> QED BY <1>6, <1>10, <1>11, <1>12, <1>13, <1>14, <1>15 DEF Sound

\* mycopyTo and mymkdir end with a new entry in the first unused slot.
LEMMA Entered ==
  ASSUME IInv, TypeOK', formatted, Making, Removal' = FALSE, Making' = FALSE, ~Removal,
         run' = Idle, past' = past, ffree' = ffree, run.ff = ffree,
         NEW type \in {1, 2}, NEW to \in {"file", "dir"}, NEW size \in Nat,
         tag' = Retag("held", to), UnusedSlots(run.dirblk.slots) # {},
         \A b \in Blocks : tag[b] = "held" => \A s \in Slots : to = "dir" => disk[b].slots[s].type = 0,
         disk' = [disk EXCEPT ![run.dir] =
                [run.dirblk EXCEPT !.slots[Min(UnusedSlots(run.dirblk.slots))] =
                    Entry(type, run.name, run.first, size)]]
  PROVE  /\ Pointers' /\ FreeBlocks' /\ HeldBlocks' /\ Target' /\ NewName'
         /\ disk \in Images /\ disk' \in Images /\ LinksKept /\ TypeOK /\ run.dir \in Blocks
         /\ \A b \in Blocks : tag'[b] = IF tag[b] = "held" THEN to ELSE tag[b]
         /\ \E k \in Slots :
              /\ \A t \in {1, 2}, d \in Blocks, s \in Slots :
                   /\ IsEntry(t, d, s)' <=> IsEntry(t, d, s) \/ (t = type /\ d = run.dir /\ s = k)
                   /\ First(d, s)' = IF d = run.dir /\ s = k THEN run.first ELSE First(d, s)
              /\ ~IsEntry(1, run.dir, k) /\ ~IsEntry(2, run.dir, k)
<1>0. TypeOK /\ Pointers /\ FreeBlocks /\ HeldBlocks /\ FileBlocks /\ DirBlocksOwned /\ Target /\ NewName
  BY DEF IInv
<1>1. /\ disk \in Images /\ disk' \in Images /\ run \in Runs /\ ffree \in Ids
      /\ \A b \in Blocks : tag'[b] = IF tag[b] = "held" THEN to ELSE tag[b]
  BY <1>0 DEF TypeOK, Images, Retag
<1>2. Directory(run.dir) /\ run.dirblk = disk[run.dir] /\ run.dir \in Blocks /\ tag[run.dir] # "held"
  BY <1>0 DEF Pointers, Directory
<1>3. PICK k \in Slots : k = Min(UnusedSlots(run.dirblk.slots)) /\ run.dirblk.slots[k].type = 0
  BY <1>1, RunFields, UnusedSlotIs
<1>4. PICK new \in Entries : new = Entry(type, run.name, run.first, size)
  BY <1>1, RunFields DEF Entry, Entries
<1>5. new.type = type /\ new.name = run.name /\ new.first = run.first
  BY <1>4 DEF Entry
<1>6. disk' = [disk EXCEPT ![run.dir] = [disk[run.dir] EXCEPT !.slots[k] = new]]
  BY <1>2, <1>3, <1>4
<1>7. /\ \A b \in Blocks : disk'[b].next = disk[b].next
      /\ \A b \in Blocks, s \in Slots :
           disk'[b].slots[s] = IF b = run.dir /\ s = k THEN new ELSE disk[b].slots[s]
  <2> DEFINE blk == [disk[run.dir] EXCEPT !.slots[k] = new]
  <2>1. disk[run.dir] \in DataBlocks
    BY <1>1, <1>2 DEF Images
  <2>2. /\ blk \in DataBlocks /\ blk.next = disk[run.dir].next
        /\ \A s \in Slots : blk.slots[s] = IF s = k THEN new ELSE disk[run.dir].slots[s]
    BY <2>1, SlotWritten
  <2>3. disk' = [disk EXCEPT ![run.dir] = blk]
    BY <1>6
  <2> HIDE DEF blk
  <2>4. \A b \in Blocks : disk'[b] = IF b = run.dir THEN blk ELSE disk[b]
    BY <1>1, <1>2, <2>3 DEF Images
  <2>5. \A b \in Blocks : disk'[b].next = disk[b].next
    BY <2>2, <2>4
  <2>6. \A s \in Slots : disk'[run.dir].slots[s] = IF s = k THEN new ELSE disk[run.dir].slots[s]
    BY <1>2, <2>2, <2>4
  <2>7. \A b \in Blocks \ {run.dir} : disk'[b].slots = disk[b].slots
    BY <2>4
  <2> QED BY <2>5, <2>6, <2>7
<1>8. disk[run.dir].slots[k].type = 0 /\ <<run.dir, k>> \notin past.wrecks
  BY <1>0, <1>2, <1>3 DEF Pointers
<1>9. \A b \in Blocks : /\ Directory(b) => Directory(b)'
                        /\ Directory(b)' => Directory(b) \/ \A s \in Slots : disk[b].slots[s].type = 0
  BY <1>1 DEF Directory
<1>10. \A t \in {1, 2}, d \in Blocks, s \in Slots :
         /\ IsEntry(t, d, s)' <=> IsEntry(t, d, s) \/ (t = type /\ d = run.dir /\ s = k)
         /\ First(d, s)' = IF d = run.dir /\ s = k THEN run.first ELSE First(d, s)
  <2> SUFFICES ASSUME NEW t \in {1, 2}, NEW d \in Blocks, NEW s \in Slots
               PROVE /\ IsEntry(t, d, s)' <=> IsEntry(t, d, s) \/ (t = type /\ d = run.dir /\ s = k)
                     /\ First(d, s)' = IF d = run.dir /\ s = k THEN run.first ELSE First(d, s)
    OBVIOUS
  <2>1. ~Targeted(d, s) /\ Targeted(d, s)' = FALSE
    BY DEF Targeted
  <2>2. CASE d = run.dir /\ s = k
    BY <1>2, <1>5, <1>7, <1>8, <1>9, <2>1, <2>2 DEF IsEntry, First
  <2>3. CASE ~(d = run.dir /\ s = k)
    BY <1>7, <1>9, <2>1, <2>3 DEF IsEntry, First
  <2> QED BY <2>2, <2>3
<1>11. ~IsEntry(1, run.dir, k) /\ ~IsEntry(2, run.dir, k)
  BY <1>8 DEF IsEntry
<1>12. \A x \in Ids : Reach(disk', x) = Reach(disk, x) /\ (Ended(disk', x) <=> Ended(disk, x))
  BY <1>1, <1>7, ChainsKept DEF LinksKept
<1>13. /\ run'.op = "none" /\ run'.at = "none" /\ run'.cur = 0 /\ run'.nxt = 0 /\ run'.ff = 0
  BY IdleIs
<1>14. Pointers'
  <2>1. {ffree', run'.ff, run'.cur, run'.nxt} \subseteq Ids0
    BY <1>0, <1>13 DEF Ids0, Pointers
  <2>2. \A b \in Blocks : tag'[b] = "root" <=> b = Root
    BY <1>0, <1>1 DEF Pointers
  <2>3. \A b \in Blocks, s \in Slots :
          <<b, s>> \in past'.wrecks => Directory(b)' /\ disk'[b].slots[s].type # 0
    BY <1>0, <1>7, <1>8, <1>9 DEF Pointers
  <2> QED BY <1>0, <1>7, <1>13, <2>1, <2>2, <2>3 DEF Pointers, Ids0
<1>15. FreeBlocks'
  <2>1. Ended(disk', ffree) /\ Reach(disk', ffree) = Reach(disk, ffree)
    BY <1>0, <1>1, <1>12 DEF FreeBlocks, Stops
  <2>2. Reach(disk, ffree) \subseteq Blocks
    BY <1>1, ChainBasics
  <2> QED BY <1>0, <1>1, <1>13, <2>1, <2>2 DEF FreeBlocks, On, Stops
<1>16. HeldBlocks'
  BY <1>1, <1>13 DEF HeldBlocks
<1>17. Target'
  BY <1>13 DEF Target
<1>18. NewName'
  <2> SUFFICES ASSUME WholeNames, NEW d \in Blocks, NEW s \in Slots, NEW t \in Slots,
                      Directory(d)', s # t,
                      {disk'[d].slots[s].type, disk'[d].slots[t].type} \subseteq {1, 2}
               PROVE  disk'[d].slots[s].name # disk'[d].slots[t].name
    BY DEF NewName
  <2>1. \A u \in Slots : disk[run.dir].slots[u].type # 0 => disk[run.dir].slots[u].name # run.name
    BY <1>0 DEF NewName
  <2>2. CASE d # run.dir \/ (s # k /\ t # k)
    BY <1>0, <1>7, <1>9, <2>2 DEF NewName
  <2>3. CASE d = run.dir /\ s = k
    BY <1>5, <1>7, <2>1, <2>3
  <2>4. CASE d = run.dir /\ t = k
    BY <1>5, <1>7, <2>1, <2>4
  <2> QED BY <2>2, <2>3, <2>4
<1> QED BY <1>0, <1>1, <1>2, <1>7, <1>10, <1>11, <1>14, <1>15, <1>16, <1>17, <1>18 DEF LinksKept

-----------------------------------------------------------------------------
\* What was held becomes the file of the new entry.
LEMMA StepCopyToEntry == ASSUME IInv, TypeOK', CopyToEntry PROVE Sound'
<1>0. /\ formatted /\ TypeOK /\ FileBlocks /\ DirBlocksOwned
      /\ ~Removal /\ Making /\ run.op = "mycopyTo" /\ run.ff = ffree
      /\ run.first \in Blocks /\ Stops(run.first) /\ tag[run.first] = "held"
      /\ \A b \in Blocks : b \in On(run.first) <=> tag[b] = "held"
  <2>1. run.op = "mycopyTo" /\ run.left = 0
    BY DEF CopyToEntry
  <2>2. run.cur = 0
    BY <2>1, Copying
  <2> QED BY <2>1, <2>2, Copying DEF HeldBlocks
<1>1. run' = Idle /\ Removal' = FALSE /\ Making' = FALSE /\ run.size \in Nat
  BY <1>0, IdleIs, RunFields DEF CopyToEntry, Removal, Making, TypeOK
<1>2. /\ Pointers' /\ FreeBlocks' /\ HeldBlocks' /\ Target' /\ NewName'
      /\ disk \in Images /\ disk' \in Images /\ LinksKept /\ run.dir \in Blocks
      /\ \A b \in Blocks : tag'[b] = IF tag[b] = "held" THEN "file" ELSE tag[b]
      /\ \E k \in Slots :
           /\ \A t \in {1, 2}, d \in Blocks, s \in Slots :
                /\ IsEntry(t, d, s)' <=> IsEntry(t, d, s) \/ (t = 1 /\ d = run.dir /\ s = k)
                /\ First(d, s)' = IF d = run.dir /\ s = k THEN run.first ELSE First(d, s)
           /\ ~IsEntry(1, run.dir, k) /\ ~IsEntry(2, run.dir, k)
  <2>1. \A b \in Blocks : tag[b] = "held" => \A s \in Slots : "file" = "dir" => disk[b].slots[s].type = 0
    OBVIOUS
  <2>2. /\ past' = past /\ ffree' = ffree /\ tag' = Retag("held", "file")
        /\ UnusedSlots(run.dirblk.slots) # {}
        /\ disk' = [disk EXCEPT ![run.dir] =
                [run.dirblk EXCEPT !.slots[Min(UnusedSlots(run.dirblk.slots))] =
                    Entry(1, run.name, run.first, run.size)]]
    BY DEF CopyToEntry
  <2> QED BY <1>0, <1>1, <2>1, <2>2, Entered
<1>3. PICK k \in Slots :
        /\ \A t \in {1, 2}, d \in Blocks, s \in Slots :
             /\ IsEntry(t, d, s)' <=> IsEntry(t, d, s) \/ (t = 1 /\ d = run.dir /\ s = k)
             /\ First(d, s)' = IF d = run.dir /\ s = k THEN run.first ELSE First(d, s)
        /\ ~IsEntry(1, run.dir, k) /\ ~IsEntry(2, run.dir, k)
  BY <1>2
<1>4. \A x \in Ids : Reach(disk', x) = Reach(disk, x) /\ (Ended(disk', x) <=> Ended(disk, x))
  BY <1>2, ChainsKept
<1>5. FileBlocks'
  <2>1. run'.op # "myrm"
    BY <1>1, IdleIs
  <2>2. ASSUME NEW d \in Blocks, NEW s \in Slots, IsEntry(1, d, s)
        PROVE  /\ First(d, s) \in Blocks /\ Reach(disk', First(d, s)) = Reach(disk, First(d, s))
               /\ Ended(disk', First(d, s))
               /\ \A b \in Reach(disk, First(d, s)) : b \in Blocks /\ tag[b] = "file" /\ tag'[b] = "file"
    <3>1. PICK x \in Ids : x \in Blocks /\ x = First(d, s) /\ Ended(disk, x)
      BY <1>0, <2>2, Sizes DEF FileBlocks, Stops
    <3>2. Reach(disk, x) \subseteq Blocks
      BY <1>2, ChainBasics
    <3> QED BY <1>0, <1>2, <1>4, <2>2, <3>1, <3>2 DEF FileBlocks, On
  <2>3. /\ Reach(disk', run.first) = Reach(disk, run.first) /\ Ended(disk', run.first)
        /\ \A b \in Reach(disk, run.first) : b \in Blocks /\ tag[b] = "held" /\ tag'[b] = "file"
    <3>1. run.first \in Ids /\ Reach(disk, run.first) \subseteq Blocks
      BY <1>0, <1>2, Sizes, ChainBasics
    <3> QED BY <1>0, <1>2, <1>4, <3>1 DEF On, Stops
  <2>4. ASSUME NEW d \in Blocks, NEW s \in Slots, IsEntry(1, d, s)'
        PROVE  /\ First(d, s)' \in Blocks /\ Ended(disk', First(d, s)')
               /\ \A b \in Reach(disk', First(d, s)') :
                    /\ tag'[b] = "file"
                    /\ \A e \in Blocks, t \in Slots :
                         IsEntry(1, e, t)' /\ b \in Reach(disk', First(e, t)') => d = e /\ s = t
    <3>1. CASE d = run.dir /\ s = k
      <4>1. First(d, s)' = run.first
        BY <1>3, <3>1
      <4>2. ASSUME NEW b \in Reach(disk, run.first), NEW e \in Blocks, NEW t \in Slots,
                   IsEntry(1, e, t)', b \in Reach(disk', First(e, t)'), ~(d = e /\ s = t)
            PROVE  FALSE
        <5>1. IsEntry(1, e, t) /\ First(e, t)' = First(e, t)
          BY <1>3, <3>1, <4>2
        <5> QED BY <2>2, <2>3, <4>2, <5>1
      <4> QED BY <1>0, <2>3, <4>1, <4>2
    <3>2. CASE ~(d = run.dir /\ s = k)
      <4>1. IsEntry(1, d, s) /\ First(d, s)' = First(d, s)
        BY <1>3, <2>4, <3>2
      <4>2. ASSUME NEW b \in Reach(disk, First(d, s)), NEW e \in Blocks, NEW t \in Slots,
                   IsEntry(1, e, t)', b \in Reach(disk', First(e, t)')
            PROVE  d = e /\ s = t
        <5>1. CASE e = run.dir /\ t = k
          BY <1>3, <2>2, <2>3, <4>1, <4>2, <5>1
        <5>2. CASE ~(e = run.dir /\ t = k)
          <6>1. IsEntry(1, e, t) /\ First(e, t)' = First(e, t)
            BY <1>3, <4>2, <5>2
          <6>2. b \in Reach(disk, First(e, t))
            BY <2>2, <4>2, <6>1
          <6> QED BY <1>0, <4>1, <4>2, <6>1, <6>2 DEF FileBlocks, On
        <5> QED BY <5>1, <5>2
      <4> QED BY <2>2, <4>1, <4>2
    <3> QED BY <3>1, <3>2
  <2>5. ASSUME NEW b \in Blocks, tag'[b] = "file"
        PROVE  \E d \in Blocks, s \in Slots : IsEntry(1, d, s)' /\ b \in Reach(disk', First(d, s)')
    <3>1. CASE tag[b] = "held"
      <4>0. PICK dir \in Blocks : dir = run.dir
        BY <1>2
      <4>1. IsEntry(1, dir, k)' /\ First(dir, k)' = run.first
        BY <1>3, <4>0
      <4> QED BY <1>0, <1>2, <2>3, <3>1, <4>1 DEF On
    <3>2. CASE tag[b] # "held"
      <4>1. PICK d \in Blocks, s \in Slots : IsEntry(1, d, s) /\ b \in Reach(disk, First(d, s))
        BY <1>0, <1>2, <2>5, <3>2 DEF FileBlocks, On
      <4>2. IsEntry(1, d, s)' /\ First(d, s)' = First(d, s)
        BY <1>3, <4>1
      <4> QED BY <2>2, <4>1, <4>2
    <3> QED BY <3>1, <3>2
  <2> QED BY <2>1, <2>4, <2>5 DEF FileBlocks, On, Stops
<1>6. DirBlocksOwned'
  <2>1. EntriesKept(2)
    BY <1>3 DEF EntriesKept
  <2>2. TagKept("dir")
    BY <1>2 DEF TagKept
  <2>3. ~(run.op = "myrmdir" /\ run.at = "free") /\ ~(run'.op = "myrmdir" /\ run'.at = "free")
    BY <1>0, <1>1, IdleIs
  <2> QED BY <1>0, <2>1, <2>2, <2>3, DirsKept
<1> QED BY <1>2, <1>5, <1>6 DEF Sound
-----------------------------------------------------------------------------
\* What a mymkdir in progress finds.
LEMMA MakingDir ==
  ASSUME IInv, run.op = "mymkdir"
  PROVE  /\ formatted /\ TypeOK /\ Pointers /\ FreeBlocks /\ HeldBlocks /\ FileBlocks /\ DirBlocksOwned
         /\ Target /\ NewName
         /\ ~Removal /\ Making /\ Stops(ffree) /\ On(ffree) \subseteq Blocks
         /\ \A b \in Blocks : tag[b] = "free" <=> b \in On(ffree)
         /\ run.first \in Blocks
         /\ \A b \in Blocks : tag[b] = "held" <=> b = run.first
         /\ Directory(run.dir) /\ run.dirblk = disk[run.dir] /\ run.dir # run.first
         /\ run.at # "undo" => run.ff = ffree
<1>1. /\ formatted /\ TypeOK /\ Pointers /\ FreeBlocks /\ HeldBlocks /\ FileBlocks /\ DirBlocksOwned
      /\ Target /\ NewName
  BY OnImage DEF IInv
<1>2. ~Removal /\ Making /\ Stops(ffree) /\ (run.at # "undo" => run.ff = ffree)
  BY <1>1 DEF Removal, Making, FreeBlocks
<1>3. On(ffree) \subseteq Blocks
  BY <1>1, OnBlocks, TypeFacts
<1>4. \A b \in Blocks : tag[b] = "free" <=> b \in On(ffree)
  BY <1>1, <1>2, <1>3 DEF FreeBlocks
<1>5. run.first \in Blocks /\ \A b \in Blocks : tag[b] = "held" <=> b = run.first
  BY <1>1, <1>2 DEF HeldBlocks
<1>6. Directory(run.dir) /\ run.dirblk = disk[run.dir] /\ run.dir # run.first
  BY <1>1, <1>2, <1>5 DEF Pointers, Directory
<1> QED BY <1>1, <1>2, <1>3, <1>4, <1>5, <1>6

\* mymkdir writes to the block that it has taken: nobody else sees it.
LEMMA OwnBlockWritten ==
  ASSUME IInv, TypeOK', run.op = "mymkdir", run'.op = "mymkdir",
         NEW new \in DataBlocks, disk' = [disk EXCEPT ![run.first] = new], new.next \in Ids0,
         run'.first = run.first, run'.dir = run.dir, run'.dirblk = run.dirblk, run'.name = run.name,
         run'.cur = run.cur, run'.nxt = run.nxt, run'.ff \in Ids0,
         UNCHANGED <<ffree, tag, past>>
  PROVE  /\ Pointers' /\ FileBlocks' /\ DirBlocksOwned' /\ Target' /\ NewName'
         /\ disk'[run.first] = new /\ disk \in Images /\ disk' \in Images
         /\ Reach(disk', ffree) = Reach(disk, ffree) /\ Ended(disk', ffree)
         /\ run.first \notin Reach(disk', ffree)
<1>0. /\ formatted /\ TypeOK /\ Pointers /\ FreeBlocks /\ HeldBlocks /\ FileBlocks /\ DirBlocksOwned
      /\ Target /\ NewName
      /\ ~Removal /\ Making /\ Stops(ffree) /\ On(ffree) \subseteq Blocks
      /\ \A b \in Blocks : tag[b] = "free" <=> b \in On(ffree)
      /\ run.first \in Blocks /\ tag[run.first] = "held"
      /\ Directory(run.dir) /\ run.dirblk = disk[run.dir] /\ run.dir # run.first
  BY MakingDir
<1>1. disk \in Images /\ disk' \in Images /\ ffree \in Ids
  BY <1>0 DEF TypeOK, Images
<1>2. disk'[run.first] = new /\ \A b \in Blocks : b # run.first => disk'[b] = disk[b]
  BY <1>0, <1>1 DEF Images
<1>3. /\ \A b \in Blocks : Directory(b)' <=> Directory(b)
      /\ \A b \in Blocks : Directory(b) => disk'[b] = disk[b]
      /\ Removal' = FALSE /\ Making' = TRUE
  BY <1>0, <1>2 DEF Directory, Removal, Making
<1>4. EntriesKept(1) /\ EntriesKept(2)
  BY <1>0, <1>3, SlotsKept DEF Targeted
<1>5. run.first \notin Reach(disk, ffree)
  BY <1>0 DEF On
<1>6. Reach(disk', ffree) = Reach(disk, ffree) /\ Ended(disk', ffree)
  <2>1. \A y \in Reach(disk, ffree) : disk'[y].next = disk[y].next
    BY <1>0, <1>2, <1>5 DEF On
  <2>2. Ended(disk, ffree)
    BY <1>0 DEF Stops
  <2> QED BY <1>1, <2>1, <2>2, Untouched
<1>7. Pointers'
  <2>1. {ffree', run'.ff, run'.cur, run'.nxt} \subseteq Ids0
    BY <1>0 DEF Pointers
  <2>2. Directory(run.dir)' /\ run'.dirblk = disk'[run'.dir]
    BY <1>0, <1>3 DEF Directory
  <2>3. \A b \in Blocks, s \in Slots :
          <<b, s>> \in past'.wrecks => Directory(b)' /\ disk'[b].slots[s].type # 0
    BY <1>0, <1>3 DEF Pointers
  <2>4. \A b \in Blocks : disk'[b].next \in Ids0
    BY <1>0, <1>2 DEF Pointers
  <2> QED BY <1>0, <2>1, <2>2, <2>3, <2>4 DEF Pointers
<1>8. FileBlocks'
  BY <1>0, <1>2, <1>4, FilesKept DEF TagKept
<1>9. DirBlocksOwned'
  BY <1>0, <1>4, DirsKept DEF TagKept
<1>10. Target'
  BY <1>3 DEF Target
<1>11. NewName'
  <2>1. disk'[run.dir] = disk[run.dir]
    BY <1>0, <1>3 DEF Directory
  <2> QED BY <1>0, <1>3, <2>1 DEF NewName
<1> QED BY <1>1, <1>2, <1>5, <1>6, <1>7, <1>8, <1>9, <1>10, <1>11

\* The new directory is cleared.
LEMMA StepMkdirInit == ASSUME IInv, TypeOK', MkdirInit PROVE Sound'
<1>0. /\ TypeOK /\ run.op = "mymkdir" /\ run.at = "init" /\ run.first \in Blocks /\ run.ff = ffree
      /\ \A b \in Blocks : tag[b] = "held" <=> b = run.first
      /\ \A b \in Blocks : tag[b] = "free" <=> b \in On(ffree)
      /\ On(ffree) \subseteq Blocks /\ Pointers
  BY MakingDir DEF MkdirInit
<1>1. /\ run'.op = "mymkdir" /\ run'.at = "entry" /\ run'.first = run.first /\ run'.dir = run.dir
      /\ run'.dirblk = run.dirblk /\ run'.name = run.name /\ run'.cur = run.cur /\ run'.nxt = run.nxt
      /\ run'.ff = run.ff /\ tag' = tag /\ ffree' = ffree /\ past' = past
      /\ Removal' = FALSE /\ Making' = TRUE
  BY <1>0 DEF MkdirInit, TypeOK, Runs, Removal, Making
<1>2. PICK new \in DataBlocks : new = ZeroBlock(0)
  BY NewBlocks, SetFacts
<1>3. new.next = 0
  BY <1>2 DEF ZeroBlock
<1>4. /\ Pointers' /\ FileBlocks' /\ DirBlocksOwned' /\ Target' /\ NewName'
      /\ disk'[run.first] = new
      /\ Reach(disk', ffree) = Reach(disk, ffree) /\ Ended(disk', ffree)
  <2>1. disk' = [disk EXCEPT ![run.first] = new] /\ run'.ff \in Ids0 /\ new.next \in Ids0
    BY <1>0, <1>1, <1>2, <1>3 DEF MkdirInit, Ids0, Pointers
  <2> QED BY <1>0, <1>1, <2>1, OwnBlockWritten
<1>5. FreeBlocks'
  BY <1>0, <1>1, <1>4 DEF FreeBlocks, On, Stops
<1>6. HeldBlocks'
  BY <1>0, <1>1, <1>2, <1>4 DEF HeldBlocks
<1> QED BY <1>4, <1>5, <1>6 DEF Sound

\* The parent is full: the block is put in front of the free list.
LEMMA StepMkdirUndoBlock == ASSUME IInv, TypeOK', MkdirUndoBlock PROVE Sound'
<1>0. /\ TypeOK /\ run.op = "mymkdir" /\ run.at = "entry" /\ run.first \in Blocks /\ run.ff = ffree
      /\ \A b \in Blocks : tag[b] = "held" <=> b = run.first
      /\ \A b \in Blocks : tag[b] = "free" <=> b \in On(ffree)
      /\ On(ffree) \subseteq Blocks /\ Pointers
  BY MakingDir DEF MkdirUndoBlock
<1>1. /\ run'.op = "mymkdir" /\ run'.at = "undo" /\ run'.first = run.first /\ run'.dir = run.dir
      /\ run'.dirblk = run.dirblk /\ run'.name = run.name /\ run'.cur = run.cur /\ run'.nxt = run.nxt
      /\ run'.ff = run.first /\ tag' = tag /\ ffree' = ffree /\ past' = past
      /\ Removal' = FALSE /\ Making' = TRUE
  BY <1>0 DEF MkdirUndoBlock, TypeOK, Runs, Removal, Making
<1>2. PICK new \in DataBlocks : new = [disk[run.first] EXCEPT !.next = ffree] /\ new.next = ffree
  <2>1. disk[run.first] \in DataBlocks /\ ffree \in Ids
    BY <1>0, TypeFacts
  <2>2. [disk[run.first] EXCEPT !.next = ffree] \in DataBlocks
    BY <2>1 DEF DataBlocks
  <2>3. [disk[run.first] EXCEPT !.next = ffree].next = ffree
    BY <2>1 DEF DataBlocks
  <2> QED BY <2>2, <2>3
<1>3. /\ Pointers' /\ FileBlocks' /\ DirBlocksOwned' /\ Target' /\ NewName'
      /\ disk'[run.first] = new /\ disk' \in Images
      /\ Reach(disk', ffree) = Reach(disk, ffree) /\ Ended(disk', ffree)
      /\ run.first \notin Reach(disk', ffree)
  <2>1. disk' = [disk EXCEPT ![run.first] = new] /\ run'.ff \in Ids0 /\ new.next \in Ids0
    BY <1>0, <1>1, <1>2 DEF MkdirUndoBlock, Ids0, Pointers
  <2> QED BY <1>0, <1>1, <2>1, OwnBlockWritten
<1>4. Ended(disk', run.first) /\ Reach(disk', run.first) = {run.first} \cup Reach(disk', ffree)
  <2>1. disk'[run.first].next = ffree
    BY <1>2, <1>3
  <2> QED BY <1>0, <1>3, <2>1, InFront
<1>5. FreeBlocks'
  BY <1>0, <1>1, <1>3, <1>4 DEF FreeBlocks, On, Stops
<1>6. HeldBlocks'
  BY <1>0, <1>1 DEF HeldBlocks
<1> QED BY <1>3, <1>5, <1>6 DEF Sound

\* The free list with the block given back becomes the one on the disk.
LEMMA StepMkdirUndoSuper == ASSUME IInv, TypeOK', MkdirUndoSuper PROVE Sound'
<1>0. /\ formatted /\ TypeOK /\ Pointers /\ FreeBlocks /\ HeldBlocks /\ FileBlocks /\ DirBlocksOwned
      /\ Target /\ NewName
      /\ ~Removal /\ Making /\ run.op = "mymkdir" /\ run.at = "undo"
      /\ \A b \in Blocks : tag[b] = "free" <=> b \in On(ffree)
      /\ \A b \in Blocks : tag[b] = "held" <=> b = run.first
      /\ run.first \in Blocks
  BY MakingDir DEF MkdirUndoSuper
<1>1. /\ run.ff = run.first /\ Stops(run.first)
      /\ \A b \in Blocks : b \in On(run.first) <=> b = run.first \/ tag[b] = "free"
      /\ On(run.first) \subseteq Blocks
  <2>1. run.first \in Ids
    BY <1>0, Sizes
  <2> QED BY <1>0, <2>1, OnBlocks DEF FreeBlocks
<1>2. /\ run' = Idle /\ disk' = disk /\ past' = past /\ ffree' = run.first
      /\ \A b \in Blocks : tag'[b] = IF tag[b] = "held" THEN "free" ELSE tag[b]
  BY <1>1 DEF MkdirUndoSuper, Retag
<1>3. /\ run'.op = "none" /\ run'.at = "none" /\ run'.cur = 0 /\ run'.nxt = 0 /\ run'.ff = 0
      /\ Removal' = FALSE /\ Making' = FALSE
  BY <1>2, IdleIs DEF Removal, Making
<1>4. \A b \in Blocks : Directory(b)' <=> Directory(b)
  BY <1>2 DEF Directory
<1>5. EntriesKept(1) /\ EntriesKept(2)
  BY <1>0, <1>2, <1>3, <1>4, SlotsKept DEF Targeted
<1>6. Pointers'
  <2>1. {ffree', run'.ff, run'.cur, run'.nxt} \subseteq Ids0
    BY <1>0, <1>2, <1>3 DEF Ids0
  <2>2. \A b \in Blocks : tag'[b] = "root" <=> b = Root
    BY <1>0, <1>2 DEF Pointers
  <2> QED BY <1>0, <1>2, <1>3, <1>4, <2>1, <2>2 DEF Pointers, Ids0
<1>7. FreeBlocks'
  BY <1>0, <1>1, <1>2, <1>3 DEF FreeBlocks, On, Stops
<1>8. HeldBlocks'
  BY <1>2, <1>3 DEF HeldBlocks
<1>9. FileBlocks'
  BY <1>0, <1>2, <1>3, <1>5, FilesKept DEF TagKept
<1>10. DirBlocksOwned'
  BY <1>0, <1>2, <1>3, <1>5, DirsKept DEF TagKept
<1>11. Target'
  BY <1>3 DEF Target
<1>12. NewName'
  BY <1>0, <1>2, <1>3, <1>4 DEF NewName
<1> QED BY <1>6, <1>7, <1>8, <1>9, <1>10, <1>11, <1>12 DEF Sound

\* The block that was held becomes the directory of the new entry.
LEMMA StepMkdirEntry == ASSUME IInv, TypeOK', MkdirEntry PROVE Sound'
<1>0. /\ formatted /\ TypeOK /\ HeldBlocks /\ FileBlocks /\ DirBlocksOwned
      /\ ~Removal /\ Making /\ run.op = "mymkdir" /\ run.at = "entry" /\ run.ff = ffree
      /\ run.first \in Blocks
      /\ \A b \in Blocks : tag[b] = "held" <=> b = run.first
  BY MakingDir DEF MkdirEntry
<1>1. run' = Idle /\ Removal' = FALSE /\ Making' = FALSE
  BY IdleIs DEF MkdirEntry, Removal, Making
<1>2. /\ Pointers' /\ FreeBlocks' /\ HeldBlocks' /\ Target' /\ NewName'
      /\ disk \in Images /\ disk' \in Images /\ LinksKept /\ run.dir \in Blocks
      /\ \A b \in Blocks : tag'[b] = IF tag[b] = "held" THEN "dir" ELSE tag[b]
      /\ \E k \in Slots :
           /\ \A t \in {1, 2}, d \in Blocks, s \in Slots :
                /\ IsEntry(t, d, s)' <=> IsEntry(t, d, s) \/ (t = 2 /\ d = run.dir /\ s = k)
                /\ First(d, s)' = IF d = run.dir /\ s = k THEN run.first ELSE First(d, s)
           /\ ~IsEntry(1, run.dir, k) /\ ~IsEntry(2, run.dir, k)
  <2>1. \A b \in Blocks : tag[b] = "held" => \A s \in Slots : "dir" = "dir" => disk[b].slots[s].type = 0
    <3>1. disk[run.first] = ZeroBlock(0)
      BY <1>0 DEF HeldBlocks
    <3>2. \A s \in Slots : ZeroBlock(0).slots[s].type = 0
      BY DEF ZeroBlock, EmptyDir, Unused, Entry
    <3> QED BY <1>0, <3>1, <3>2
  <2>2. /\ past' = past /\ ffree' = ffree /\ tag' = Retag("held", "dir")
        /\ UnusedSlots(run.dirblk.slots) # {} /\ 0 \in Nat
        /\ disk' = [disk EXCEPT ![run.dir] =
                [run.dirblk EXCEPT !.slots[Min(UnusedSlots(run.dirblk.slots))] =
                    Entry(2, run.name, run.first, 0)]]
    BY DEF MkdirEntry
  <2> QED BY <1>0, <1>1, <2>1, <2>2, Entered
<1>3. PICK k \in Slots :
        /\ \A t \in {1, 2}, d \in Blocks, s \in Slots :
             /\ IsEntry(t, d, s)' <=> IsEntry(t, d, s) \/ (t = 2 /\ d = run.dir /\ s = k)
             /\ First(d, s)' = IF d = run.dir /\ s = k THEN run.first ELSE First(d, s)
        /\ ~IsEntry(1, run.dir, k) /\ ~IsEntry(2, run.dir, k)
  BY <1>2
<1>4. /\ ~(run'.op = "myrmdir" /\ run'.at = "free") /\ run'.op # "myrm"
      /\ ~(run.op = "myrmdir" /\ run.at = "free") /\ run.op # "myrm"
  BY <1>0, <1>1, IdleIs
<1>5. FileBlocks'
  <2>1. EntriesKept(1)
    BY <1>3 DEF EntriesKept
  <2>2. TagKept("file")
    BY <1>2 DEF TagKept
  <2> QED BY <1>0, <1>2, <1>4, <2>1, <2>2, FilesKept DEF LinksKept
<1>6. DirBlocksOwned'
  <2>1. ASSUME NEW d \in Blocks, NEW s \in Slots, IsEntry(2, d, s)
        PROVE  First(d, s) \in Blocks /\ tag[First(d, s)] = "dir" /\ First(d, s) # run.first
    BY <1>0, <2>1 DEF DirBlocksOwned
  <2>2. ASSUME NEW d \in Blocks, NEW s \in Slots, IsEntry(2, d, s)'
        PROVE  /\ First(d, s)' \in Blocks /\ tag'[First(d, s)'] = "dir"
               /\ \A e \in Blocks, t \in Slots :
                    IsEntry(2, e, t)' /\ First(d, s)' = First(e, t)' => d = e /\ s = t
    <3>1. CASE d = run.dir /\ s = k
      BY <1>0, <1>2, <1>3, <2>1, <3>1
    <3>2. CASE ~(d = run.dir /\ s = k)
      <4>1. IsEntry(2, d, s) /\ First(d, s)' = First(d, s)
        BY <1>3, <2>2, <3>2
      <4>2. ASSUME NEW e \in Blocks, NEW t \in Slots, IsEntry(2, e, t)', First(d, s)' = First(e, t)'
            PROVE  d = e /\ s = t
        <5>1. ~(e = run.dir /\ t = k)
          BY <1>3, <2>1, <4>1, <4>2
        <5>2. IsEntry(2, e, t) /\ First(e, t)' = First(e, t)
          BY <1>3, <4>2, <5>1
        <5>3. First(d, s) = First(e, t)
          BY <4>1, <4>2, <5>2
        <5> QED BY <1>0, <4>1, <5>2, <5>3 DEF DirBlocksOwned
      <4> QED BY <1>2, <2>1, <4>1, <4>2
    <3> QED BY <3>1, <3>2
  <2>3. ASSUME NEW b \in Blocks, tag'[b] = "dir"
        PROVE  \E d \in Blocks, s \in Slots : IsEntry(2, d, s)' /\ First(d, s)' = b
    <3>1. CASE b = run.first
      BY <1>2, <1>3, <3>1
    <3>2. CASE b # run.first
      <4>1. PICK d \in Blocks, s \in Slots : IsEntry(2, d, s) /\ First(d, s) = b
        BY <1>0, <1>2, <2>3, <3>2 DEF DirBlocksOwned
      <4> QED BY <1>3, <4>1
    <3> QED BY <3>1, <3>2
  <2> QED BY <1>4, <2>2, <2>3 DEF DirBlocksOwned
<1> QED BY <1>2, <1>5, <1>6 DEF Sound

-----------------------------------------------------------------------------
\* What a myrm or myrmdir in progress finds.
LEMMA OnRemoval ==
  ASSUME IInv, Removal
  PROVE  /\ formatted /\ TypeOK /\ Pointers /\ FreeBlocks /\ HeldBlocks /\ FileBlocks /\ DirBlocksOwned
         /\ Target /\ NewName
         /\ ~Making /\ Stops(ffree) /\ On(ffree) \subseteq Blocks /\ Stops(run.ff) /\ On(run.ff) \subseteq Blocks
         /\ \A b \in Blocks : tag[b] = "free" <=> b \in On(run.ff)
         /\ \A b \in On(ffree) : tag[b] = "free"
         /\ \A b \in Blocks : tag[b] # "held"
         /\ Directory(run.dir) /\ run.dirblk = disk[run.dir] /\ run.slot \in Slots
         /\ Targeted(run.dir, run.slot)
<1>1. /\ formatted /\ TypeOK /\ Pointers /\ FreeBlocks /\ HeldBlocks /\ FileBlocks /\ DirBlocksOwned
      /\ Target /\ NewName /\ run.op \in {"myrm", "myrmdir"}
  BY OnImage DEF IInv, Removal
<1>2. ~Making
  BY <1>1 DEF Making
<1>3. On(ffree) \subseteq Blocks /\ On(run.ff) \subseteq Blocks
  BY <1>1, OnBlocks, TypeFacts, RunFields
<1>4. /\ Stops(ffree) /\ Stops(run.ff) /\ \A b \in On(ffree) : tag[b] = "free"
      /\ \A b \in Blocks : tag[b] = "free" <=> b \in On(run.ff)
  BY <1>1 DEF FreeBlocks
<1>5. \A b \in Blocks : tag[b] # "held"
  BY <1>1, <1>2 DEF HeldBlocks
<1>6. Directory(run.dir) /\ run.dirblk = disk[run.dir]
  BY <1>1 DEF Pointers
<1>7. run.slot \in Slots
  BY <1>1, RunFields DEF TypeOK
<1> QED BY <1>1, <1>2, <1>3, <1>4, <1>5, <1>6, <1>7 DEF Targeted

\* What myrm and myrmdir have in common when they begin: an entry is out of use
\* from now on.
AimedAt(d, s) ==
  /\ formatted /\ run = Idle /\ UNCHANGED <<disk, ffree, tag, formatted, past>>
  /\ Directory(d) /\ <<d, s>> \notin past.wrecks
  /\ run'.op \in {"myrm", "myrmdir"} /\ run'.at = "free"
  /\ run'.dir = d /\ run'.slot = s /\ run'.dirblk = disk[d] /\ run'.first = First(d, s)
  /\ run'.cur \in Ids0 /\ run'.nxt = 0 /\ run'.ff = ffree

\* What the start of a removal leaves as it was: all but its own entry.
LEMMA Aimed ==
  ASSUME IInv, TypeOK', NEW d \in Blocks, NEW s \in Slots, AimedAt(d, s)
  PROVE  /\ FileBlocks /\ Pointers' /\ FreeBlocks' /\ HeldBlocks' /\ NewName' /\ Removal' = TRUE
         /\ \A t \in {1, 2}, e \in Blocks, u \in Slots :
              /\ IsEntry(t, e, u)' <=> IsEntry(t, e, u) /\ ~(e = d /\ u = s)
              /\ First(e, u)' = First(e, u)
<1> USE DEF AimedAt
<1>0. TypeOK /\ Pointers /\ FreeBlocks /\ HeldBlocks /\ FileBlocks /\ DirBlocksOwned /\ NewName
      /\ run.op = "none" /\ ~Removal /\ ~Making /\ disk \in Images
  BY IdleIs, TypeFacts DEF IInv, Removal, Making
<1>1. Removal' = TRUE /\ Making' = FALSE
  BY DEF Removal, Making
<1>2. \A e \in Blocks : Directory(e)' <=> Directory(e)
  BY DEF Directory
<1>3. \A e \in Blocks, u \in Slots :
        /\ ~Targeted(e, u)
        /\ Targeted(e, u)' <=> (e = d /\ u = s)
  BY <1>0, <1>1 DEF Targeted
<1>5. \A t \in {1, 2}, e \in Blocks, u \in Slots :
        /\ IsEntry(t, e, u)' <=> IsEntry(t, e, u) /\ ~(e = d /\ u = s)
        /\ First(e, u)' = First(e, u)
  BY <1>2, <1>3 DEF IsEntry, First
<1>6. Pointers'
  <2>1. {ffree', run'.ff, run'.cur, run'.nxt} \subseteq Ids0
    BY <1>0 DEF Pointers, Ids0
  <2>2. Directory(run.dir)' /\ run'.dirblk = disk'[run'.dir]
    BY DEF Directory
  <2>3. run'.op # "mymkfs"
    OBVIOUS
  <2> QED BY <1>0, <1>2, <2>1, <2>2, <2>3 DEF Pointers, Ids0
<1>7. FreeBlocks'
  <2>1. On(ffree) \subseteq Blocks
    BY <1>0, OnBlocks DEF TypeOK
  <2>2. run'.op # "mycopyTo" /\ run'.op # "mymkdir"
    OBVIOUS
  <2> QED BY <1>0, <1>1, <2>1, <2>2 DEF FreeBlocks, On, Stops
<1>8. HeldBlocks'
  BY <1>0, <1>1 DEF HeldBlocks
<1>9. NewName'
  BY <1>0, <1>1, <1>2 DEF NewName
<1> QED BY <1>0, <1>1, <1>5, <1>6, <1>7, <1>8, <1>9

\* myrm: the chain to be freed is that of one file.
LEMMA StepRmBegin ==
  ASSUME IInv, TypeOK', NEW path \in DirPaths, NEW name \in Names,
         AvoidsWrecks(path, name), RmBegin(path, name)
  PROVE  Sound'
<1>0. formatted /\ run = Idle /\ TypeOK /\ Pointers /\ DirBlocksOwned /\ run.op = "none"
  BY IdleIs DEF IInv, RmBegin
<1>1. PICK d \in Blocks : d = Navigate(path)
  BY DEF RmBegin
<1>2. Directory(d)
  BY <1>0, <1>1, NavigateIs, SetFacts DEF Pointers, Removal
<1>3. PICK s \in Slots : s = FindSlot(disk[d].slots, name)
  <2>1. disk[d].slots \in [Slots -> Entries] /\ Found(disk[d].slots, name)
    BY <1>0, <1>1, TypeFacts DEF RmBegin
  <2> QED BY <2>1, FindSlotIs
<1>14. <<d, s>> \notin past.wrecks
  <2>1. Found(disk[d].slots, name) /\ disk[d].slots \in [Slots -> Entries]
    BY <1>0, <1>1, TypeFacts DEF RmBegin
  <2>2. disk[d].slots[s].name = name
    BY <1>3, <2>1, FindSlotIs DEF Matches
  <2> QED BY <1>1, <2>2, Avoided
<1>4. /\ disk[d].slots[s].type = 1 /\ <<d, s>> \notin past.wrecks
      /\ run' = [Idle EXCEPT !.op = "myrm", !.at = "free", !.dir = d,
                             !.dirblk = disk[d], !.slot = s,
                             !.first = First(d, s), !.cur = First(d, s), !.ff = ffree]
  BY <1>1, <1>3, <1>14 DEF RmBegin, First
<1>5. /\ run'.op = "myrm" /\ run'.at = "free" /\ run'.dir = d /\ run'.slot = s /\ run'.dirblk = disk[d]
      /\ run'.first = First(d, s) /\ run'.cur = First(d, s) /\ run'.ff = ffree /\ run'.nxt = 0
  BY <1>4, IdleIs DEF Runs
<1>6. IsEntry(1, d, s) /\ First(d, s) \in Blocks
  BY <1>0, <1>2, <1>4 DEF IsEntry, Targeted, Removal, IInv, FileBlocks
<1>7. /\ FileBlocks /\ Pointers' /\ FreeBlocks' /\ HeldBlocks' /\ NewName' /\ Removal' = TRUE
      /\ \A t \in {1, 2}, e \in Blocks, u \in Slots :
           /\ IsEntry(t, e, u)' <=> IsEntry(t, e, u) /\ ~(e = d /\ u = s)
           /\ First(e, u)' = First(e, u)
  <2>1. AimedAt(d, s)
    BY <1>0, <1>2, <1>4, <1>5, <1>6 DEF AimedAt, RmBegin, Ids0
  <2> QED BY <2>1, Aimed
<1>8. UNCHANGED <<disk, tag, past>>
  BY DEF RmBegin
<1>9. FileBlocks'
  <2>1. ASSUME NEW e \in Blocks, NEW u \in Slots
        PROVE  /\ IsEntry(1, e, u)' <=> IsEntry(1, e, u) /\ ~(e = d /\ u = s)
               /\ First(e, u)' = First(e, u)
    BY <1>7
  <2>2. ASSUME NEW e \in Blocks, NEW u \in Slots, IsEntry(1, e, u)'
        PROVE  /\ First(e, u)' \in Blocks /\ Ended(disk', First(e, u)')
               /\ \A b \in Reach(disk', First(e, u)') :
                    /\ tag'[b] = "file" /\ b \notin Reach(disk', run'.cur)
                    /\ \A f \in Blocks, v \in Slots :
                         IsEntry(1, f, v)' /\ b \in Reach(disk', First(f, v)') => e = f /\ u = v
    <3>1. IsEntry(1, e, u) /\ ~(e = d /\ u = s) /\ First(e, u)' = First(e, u)
      BY <2>1, <2>2
    <3>2. /\ First(e, u) \in Blocks /\ Ended(disk, First(e, u))
          /\ \A b \in Reach(disk, First(e, u)) : tag[b] = "file" /\ b \notin Reach(disk, First(d, s))
      BY <1>6, <1>7, <3>1 DEF FileBlocks, On, Stops
    <3>3. ASSUME NEW b \in Reach(disk, First(e, u)), NEW f \in Blocks, NEW v \in Slots,
                 IsEntry(1, f, v)', b \in Reach(disk, First(f, v)')
          PROVE  e = f /\ u = v
      BY <1>7, <2>1, <3>1, <3>3 DEF FileBlocks, On
    <3> QED BY <1>5, <1>8, <3>1, <3>2, <3>3
  <2>3. Ended(disk', run'.cur) /\ \A b \in Reach(disk', run'.cur) : tag'[b] = "file"
    BY <1>5, <1>6, <1>7, <1>8 DEF FileBlocks, On, Stops
  <2>4. ASSUME NEW b \in Blocks, tag'[b] = "file"
        PROVE  \/ \E e \in Blocks, u \in Slots : IsEntry(1, e, u)' /\ b \in Reach(disk', First(e, u)')
               \/ b \in Reach(disk', run'.cur)
    <3>1. PICK e \in Blocks, u \in Slots : IsEntry(1, e, u) /\ b \in Reach(disk, First(e, u))
      BY <1>0, <1>7, <1>8, <2>4 DEF FileBlocks, On
    <3> QED BY <1>5, <1>8, <2>1, <3>1
  <2> QED BY <1>5, <2>2, <2>3, <2>4 DEF FileBlocks, On, Stops
<1>10. DirBlocksOwned'
  <2>1. ~IsEntry(2, d, s)
    BY <1>4 DEF IsEntry
  <2>2. EntriesKept(2)
    BY <1>7, <2>1 DEF EntriesKept
  <2> QED BY <1>0, <1>5, <1>7, <1>8, <2>2, DirsKept DEF TagKept
<1>11. Target'
  BY <1>4, <1>5, <1>6, <1>7, <1>8 DEF Target, First
<1> QED BY <1>7, <1>9, <1>10, <1>11 DEF Sound

\* myrmdir: the block to be freed is that of one empty directory.
LEMMA StepRmdirBegin ==
  ASSUME IInv, TypeOK', NEW path \in DirPaths, NEW name \in Names,
         AvoidsWrecks(path, name), RmdirBegin(path, name)
  PROVE  Sound'
<1>0. formatted /\ run = Idle /\ TypeOK /\ Pointers /\ DirBlocksOwned /\ run.op = "none"
  BY IdleIs DEF IInv, RmdirBegin
<1>1. PICK d \in Blocks : d = Navigate(path)
  BY DEF RmdirBegin
<1>2. Directory(d)
  BY <1>0, <1>1, NavigateIs, SetFacts DEF Pointers, Removal
<1>3. PICK s \in Slots : s = FindSlot(disk[d].slots, name)
  <2>1. disk[d].slots \in [Slots -> Entries] /\ Found(disk[d].slots, name)
    BY <1>0, <1>1, TypeFacts DEF RmdirBegin
  <2> QED BY <2>1, FindSlotIs
<1>14. <<d, s>> \notin past.wrecks
  <2>1. Found(disk[d].slots, name) /\ disk[d].slots \in [Slots -> Entries]
    BY <1>0, <1>1, TypeFacts DEF RmdirBegin
  <2>2. disk[d].slots[s].name = name
    BY <1>3, <2>1, FindSlotIs DEF Matches
  <2> QED BY <1>1, <2>2, Avoided
<1>4. /\ disk[d].slots[s].type = 2 /\ <<d, s>> \notin past.wrecks
      /\ UnusedSlots(disk[First(d, s)].slots) = Slots
      /\ run' = [Idle EXCEPT !.op = "myrmdir", !.at = "free", !.dir = d,
                             !.dirblk = disk[d], !.slot = s,
                             !.first = First(d, s), !.ff = ffree]
  BY <1>1, <1>3, <1>14 DEF RmdirBegin, First
<1>5. /\ run'.op = "myrmdir" /\ run'.at = "free" /\ run'.dir = d /\ run'.slot = s /\ run'.dirblk = disk[d]
      /\ run'.first = First(d, s) /\ run'.cur = 0 /\ run'.ff = ffree /\ run'.nxt = 0
  BY <1>4, IdleIs DEF Runs
<1>6. IsEntry(2, d, s) /\ First(d, s) \in Blocks /\ tag[First(d, s)] = "dir"
  BY <1>0, <1>2, <1>4 DEF IsEntry, Targeted, Removal, DirBlocksOwned
<1>7. /\ FileBlocks /\ Pointers' /\ FreeBlocks' /\ HeldBlocks' /\ NewName' /\ Removal' = TRUE
      /\ \A t \in {1, 2}, e \in Blocks, u \in Slots :
           /\ IsEntry(t, e, u)' <=> IsEntry(t, e, u) /\ ~(e = d /\ u = s)
           /\ First(e, u)' = First(e, u)
  <2>1. AimedAt(d, s)
    BY <1>0, <1>2, <1>4, <1>5, <1>6 DEF AimedAt, RmdirBegin, Ids0
  <2> QED BY <2>1, Aimed
<1>8. UNCHANGED <<disk, tag, past>>
  BY DEF RmdirBegin
<1>9. FileBlocks'
  <2>1. ~IsEntry(1, d, s)
    BY <1>4 DEF IsEntry
  <2>2. EntriesKept(1)
    BY <1>7, <2>1 DEF EntriesKept
  <2> QED BY <1>0, <1>5, <1>7, <1>8, <2>2, FilesKept DEF TagKept
<1>10. DirBlocksOwned'
  <2>1. ASSUME NEW e \in Blocks, NEW u \in Slots
        PROVE  /\ IsEntry(2, e, u)' <=> IsEntry(2, e, u) /\ ~(e = d /\ u = s)
               /\ First(e, u)' = First(e, u)
    BY <1>7
  <2>2. ASSUME NEW e \in Blocks, NEW u \in Slots, IsEntry(2, e, u)'
        PROVE  /\ First(e, u)' \in Blocks /\ tag'[First(e, u)'] = "dir" /\ First(e, u)' # First(d, s)
               /\ \A f \in Blocks, v \in Slots :
                    IsEntry(2, f, v)' /\ First(e, u)' = First(f, v)' => e = f /\ u = v
    BY <1>0, <1>6, <1>8, <2>1, <2>2 DEF DirBlocksOwned
  <2>3. \A u \in Slots : disk'[run'.first].slots[u].type = 0
    BY <1>4, <1>5, <1>8 DEF UnusedSlots
  <2>4. ASSUME NEW b \in Blocks, tag'[b] = "dir", b # First(d, s)
        PROVE  \E e \in Blocks, u \in Slots : IsEntry(2, e, u)' /\ First(e, u)' = b
    <3>1. PICK e \in Blocks, u \in Slots : IsEntry(2, e, u) /\ First(e, u) = b
      BY <1>0, <1>8, <2>4 DEF DirBlocksOwned
    <3> QED BY <2>1, <2>4, <3>1
  <2> QED BY <1>5, <1>6, <1>8, <2>2, <2>3, <2>4 DEF DirBlocksOwned
<1>11. Target'
  BY <1>4, <1>5, <1>6, <1>7, <1>8 DEF Target, First
<1> QED BY <1>7, <1>9, <1>10, <1>11 DEF Sound

-----------------------------------------------------------------------------
\* A removal pushes block x, which is not free yet, on the free list that it has
\* in memory.
LEMMA Pushed ==
  ASSUME TypeOK, TypeOK', FreeBlocks, Removal, NEW x \in Blocks, tag[x] # "free",
         disk' = [disk EXCEPT ![x].next = run.ff]
  PROVE  /\ disk \in Images /\ disk' \in Images
         /\ \A b \in Blocks : /\ disk'[b].next = IF b = x THEN run.ff ELSE disk[b].next
                              /\ disk'[b].slots = disk[b].slots
                              /\ b # x => disk'[b] = disk[b]
         /\ Ended(disk', ffree) /\ Reach(disk', ffree) = Reach(disk, ffree)
         /\ Ended(disk', x) /\ Reach(disk', x) = {x} \cup Reach(disk, run.ff)
         /\ \A y \in Ids : x \notin Reach(disk, y) =>
              Reach(disk', y) = Reach(disk, y) /\ (Ended(disk', y) <=> Ended(disk, y))
<1>1. disk \in Images /\ disk' \in Images /\ run.ff \in Ids /\ ffree \in Ids
  BY RunFields DEF TypeOK, Images
<1>2. \A b \in Blocks : /\ disk'[b].next = IF b = x THEN run.ff ELSE disk[b].next
                        /\ disk'[b].slots = disk[b].slots
  BY <1>1, NextWritten
<1>3. \A b \in Blocks : b # x => disk'[b] = disk[b]
  BY <1>1 DEF Images
<1>4. ASSUME NEW y \in Ids, x \notin Reach(disk, y)
      PROVE  Reach(disk', y) = Reach(disk, y) /\ (Ended(disk', y) <=> Ended(disk, y))
  <2>1. Reach(disk, y) \subseteq Blocks
    BY <1>1, ChainBasics
  <2>2. \A z \in Reach(disk, y) : disk'[z].next = disk[z].next
    BY <1>3, <1>4, <2>1
  <2> QED BY <1>1, <2>2, Untouched
<1>5. Ended(disk, ffree) /\ Ended(disk, run.ff) /\ x \notin Reach(disk, ffree) /\ x \notin Reach(disk, run.ff)
  BY DEF FreeBlocks, On, Stops
<1>6. Ended(disk', x) /\ Reach(disk', x) = {x} \cup Reach(disk, run.ff)
  <2>1. PICK f \in Ids : f = run.ff
    BY <1>1
  <2>2. disk'[x].next = f /\ Ended(disk', f) /\ Reach(disk', f) = Reach(disk, f) /\ x \notin Reach(disk', f)
    BY <1>2, <1>4, <1>5, <2>1
  <2>3. Ended(disk', disk'[x].next) /\ x \notin Reach(disk', disk'[x].next)
    BY <2>2
  <2>4. Ended(disk', x) /\ Reach(disk', x) = {x} \cup Reach(disk', disk'[x].next)
    BY <1>1, <2>3, InFront
  <2> QED BY <2>1, <2>2, <2>4
<1> QED BY <1>1, <1>2, <1>3, <1>4, <1>5, <1>6

\* A block of the file goes in front of the free list in memory.
LEMMA StepRmFreeBlock == ASSUME IInv, TypeOK', RmFreeBlock PROVE Sound'
<1>0. /\ formatted /\ TypeOK /\ Pointers /\ FreeBlocks /\ HeldBlocks /\ FileBlocks /\ DirBlocksOwned
      /\ Target /\ NewName /\ Removal /\ run.op = "myrm" /\ run.at = "free" /\ run.cur # 0
      /\ ~Making
      /\ On(ffree) \subseteq Blocks /\ On(run.ff) \subseteq Blocks
      /\ \A b \in Blocks : tag[b] = "free" <=> b \in On(run.ff)
      /\ \A b \in On(ffree) : tag[b] = "free"
      /\ \A b \in Blocks : tag[b] # "held"
      /\ Directory(run.dir) /\ run.dirblk = disk[run.dir]
  <2>1. Removal
    BY DEF RmFreeBlock, Removal
  <2> QED BY <2>1, OnRemoval DEF RmFreeBlock
<1>1. PICK x \in Blocks : x = run.cur
  BY <1>0 DEF Pointers, Ids0
<1>2. Stops(x) /\ \A b \in On(x) : tag[b] = "file"
  BY <1>0, <1>1 DEF FileBlocks
<1>3. PICK n \in Ids : n = disk[x].next
  BY <1>0, TypeFacts
<1>4. Stops(n) /\ On(x) = {x} \cup On(n) /\ x \notin On(n) /\ On(n) \subseteq Blocks
  BY <1>0, <1>2, <1>3, FirstOnChain
<1>5. tag[x] = "file"
  BY <1>2, <1>4
<1>6. /\ disk \in Images /\ disk' \in Images
      /\ \A b \in Blocks : /\ disk'[b].next = IF b = x THEN run.ff ELSE disk[b].next
                           /\ disk'[b].slots = disk[b].slots
                           /\ b # x => disk'[b] = disk[b]
      /\ Ended(disk', ffree) /\ Reach(disk', ffree) = Reach(disk, ffree)
      /\ Ended(disk', x) /\ Reach(disk', x) = {x} \cup Reach(disk, run.ff)
      /\ \A y \in Ids : x \notin Reach(disk, y) =>
           Reach(disk', y) = Reach(disk, y) /\ (Ended(disk', y) <=> Ended(disk, y))
  <2>1. disk' = [disk EXCEPT ![x].next = run.ff] /\ tag[x] # "free"
    BY <1>1, <1>5 DEF RmFreeBlock
  <2> QED BY <1>0, <2>1, Pushed
<1>7. /\ run'.op = "myrm" /\ run'.at = "free" /\ run'.ff = x /\ run'.cur = n /\ run'.first = run.first
      /\ run'.dir = run.dir /\ run'.slot = run.slot /\ run'.dirblk = run.dirblk /\ run'.nxt = run.nxt
      /\ ffree' = ffree /\ past' = past /\ Removal' = TRUE /\ Making' = FALSE
  BY <1>0, <1>1, <1>3 DEF RmFreeBlock, TypeOK, Runs, Removal, Making
<1>8. \A b \in Blocks : tag'[b] = IF b = x THEN "free" ELSE tag[b]
  BY <1>0, <1>1 DEF RmFreeBlock, TypeOK
<1>9. /\ \A b \in Blocks : Directory(b)' <=> Directory(b)
      /\ \A b \in Blocks : Directory(b) => disk'[b] = disk[b]
  BY <1>5, <1>6, <1>8 DEF Directory
<1>10. \A d \in Blocks, s \in Slots : Targeted(d, s)' <=> Targeted(d, s)
  BY <1>0, <1>7 DEF Targeted
<1>11. EntriesKept(1) /\ EntriesKept(2)
  BY <1>7, <1>9, <1>10, SlotsKept
<1>12. Pointers'
  <2>1. {ffree', run'.ff, run'.cur, run'.nxt} \subseteq Ids0
    BY <1>0, <1>3, <1>7 DEF Pointers, Ids0
  <2>2. Directory(run.dir)' /\ run'.dirblk = disk'[run'.dir]
    BY <1>0, <1>7, <1>9 DEF Directory
  <2>3. \A b \in Blocks, s \in Slots :
          <<b, s>> \in past'.wrecks => Directory(b)' /\ disk'[b].slots[s].type # 0
    BY <1>0, <1>7, <1>9 DEF Pointers
  <2>4. \A b \in Blocks : disk'[b].next \in Ids0
    BY <1>0, <1>6 DEF Pointers
  <2>5. \A b \in Blocks : tag'[b] = "root" <=> b = Root
    BY <1>0, <1>5, <1>8 DEF Pointers
  <2> QED BY <1>7, <2>1, <2>2, <2>3, <2>4, <2>5 DEF Pointers
<1>13. n # run.first
  <2>1. CASE run.cur = run.first
    BY <1>1, <1>3, <1>4, OnBlocks, <1>0, <2>1
  <2>2. CASE run.cur # run.first
    <3>1. tag[run.first] = "free" /\ run.first \in Blocks
      BY <1>0, <2>2 DEF Target
    <3>2. n \in Blocks => tag[n] = "file"
      BY <1>0, <1>2, <1>4, OnBlocks
    <3> QED BY <3>1, <3>2
  <2> QED BY <2>1, <2>2
<1>14. FreeBlocks'
  <2>1. Untried' = FALSE
    BY <1>7, <1>13 DEF Untried
  <2>2. \A b \in On(ffree) : tag'[b] = "free"
    BY <1>0, <1>8
  <2>3. \A b \in Blocks : tag'[b] = "free" <=> b \in Reach(disk', x)
    BY <1>0, <1>6, <1>8 DEF On
  <2> QED BY <1>6, <1>7, <2>1, <2>2, <2>3 DEF FreeBlocks, On, Stops
<1>15. HeldBlocks'
  BY <1>0, <1>7, <1>8 DEF HeldBlocks
<1>16. FileBlocks'
  <2>1. ASSUME NEW d \in Blocks, NEW s \in Slots
        PROVE  /\ IsEntry(1, d, s)' <=> IsEntry(1, d, s)
               /\ IsEntry(1, d, s) =>
                    /\ First(d, s)' = First(d, s) /\ First(d, s) \in Blocks
                    /\ Reach(disk', First(d, s)) = Reach(disk, First(d, s)) /\ Ended(disk', First(d, s))
                    /\ \A b \in Reach(disk, First(d, s)) :
                         /\ b # x /\ b \in Blocks /\ tag[b] = "file" /\ b \notin On(n)
                         /\ \A e \in Blocks, t \in Slots :
                              IsEntry(1, e, t) /\ b \in Reach(disk, First(e, t)) => d = e /\ s = t
    <3>1. IsEntry(1, d, s)' <=> IsEntry(1, d, s)
      BY <1>11 DEF EntriesKept
    <3>2. ASSUME IsEntry(1, d, s)
          PROVE  /\ First(d, s)' = First(d, s)
                 /\ First(d, s) \in Blocks /\ Ended(disk, First(d, s))
                 /\ \A b \in Reach(disk, First(d, s)) :
                      /\ tag[b] = "file" /\ b \notin On(x)
                      /\ \A e \in Blocks, t \in Slots :
                           IsEntry(1, e, t) /\ b \in Reach(disk, First(e, t)) => d = e /\ s = t
      BY <1>0, <1>1, <1>11, <3>2 DEF EntriesKept, FileBlocks, On, Stops
    <3>3. ASSUME IsEntry(1, d, s)
          PROVE  /\ Reach(disk, First(d, s)) \subseteq Blocks
                 /\ \A b \in Reach(disk, First(d, s)) : b # x /\ b \notin On(n)
                 /\ Reach(disk', First(d, s)) = Reach(disk, First(d, s)) /\ Ended(disk', First(d, s))
      <4>1. PICK y \in Ids : y = First(d, s) /\ y \in Blocks /\ Ended(disk, y)
        BY <3>2, <3>3, Sizes
      <4>2. \A b \in Reach(disk, y) : b # x /\ b \notin On(n)
        BY <1>4, <3>2, <3>3, <4>1
      <4>3. Reach(disk, y) \subseteq Blocks
        BY <1>6, ChainBasics
      <4> QED BY <1>6, <4>1, <4>2, <4>3
    <3> QED BY <3>1, <3>2, <3>3
  <2>2. ASSUME NEW d \in Blocks, NEW s \in Slots, IsEntry(1, d, s)'
        PROVE  /\ First(d, s)' \in Blocks /\ Ended(disk', First(d, s)')
               /\ \A b \in Reach(disk', First(d, s)') :
                    /\ tag'[b] = "file" /\ b \notin On(n)
                    /\ \A e \in Blocks, t \in Slots :
                         IsEntry(1, e, t)' /\ b \in Reach(disk', First(e, t)') => d = e /\ s = t
    <3>1. IsEntry(1, d, s)
      BY <2>1, <2>2
    <3>2. \A b \in Reach(disk, First(d, s)) : tag'[b] = "file"
      BY <1>8, <2>1, <3>1
    <3> QED BY <2>1, <3>1, <3>2
  <2>3. Ended(disk', n) /\ Reach(disk', n) = On(n)
    BY <1>4, <1>6 DEF On, Stops
  <2>4. \A b \in On(n) : tag'[b] = "file"
    BY <1>2, <1>4, <1>8
  <2>5. ASSUME NEW b \in Blocks, tag'[b] = "file"
        PROVE  \/ \E d \in Blocks, s \in Slots : IsEntry(1, d, s)' /\ b \in Reach(disk', First(d, s)')
               \/ b \in On(n)
    <3>1. tag[b] = "file" /\ b # x
      BY <1>8, <2>5
    <3>2. CASE b \in On(x)
      BY <1>4, <3>1, <3>2
    <3>3. CASE b \notin On(x)
      <4>1. PICK d \in Blocks, s \in Slots : IsEntry(1, d, s) /\ b \in Reach(disk, First(d, s))
        BY <1>0, <1>1, <3>1, <3>3 DEF FileBlocks, On
      <4> QED BY <2>1, <4>1
    <3> QED BY <3>2, <3>3
  <2> QED BY <1>7, <2>2, <2>3, <2>4, <2>5 DEF FileBlocks, On, Stops
<1>17. DirBlocksOwned'
  <2>1. TagKept("dir")
    BY <1>5, <1>8 DEF TagKept
  <2> QED BY <1>0, <1>7, <1>11, <2>1, DirsKept
<1>18. Target'
  <2>1. disk'[run.dir].slots = disk[run.dir].slots
    BY <1>0, <1>9 DEF Directory
  <2>2. Untried' = FALSE
    BY <1>7, <1>13 DEF Untried
  <2>3. run.first \in Blocks /\ tag'[run.first] = "free"
    BY <1>0, <1>1, <1>8 DEF Target
  <2> QED BY <1>0, <1>7, <2>1, <2>2, <2>3 DEF Target
<1>19. NewName'
  BY <1>0, <1>7, <1>9 DEF NewName
<1> QED BY <1>12, <1>14, <1>15, <1>16, <1>17, <1>18, <1>19 DEF Sound

-----------------------------------------------------------------------------
\* The super block is saved: the blocks of the removed file or directory can be
\* taken again.
LEMMA StepSuper == ASSUME IInv, TypeOK', RmSuper \/ RmdirSuper PROVE Sound'
<1>0. /\ formatted /\ TypeOK /\ Pointers /\ FreeBlocks /\ HeldBlocks /\ FileBlocks /\ DirBlocksOwned
      /\ Target /\ NewName /\ Removal /\ ~Making
      /\ Stops(run.ff) /\ On(run.ff) \subseteq Blocks
      /\ \A b \in Blocks : tag[b] = "free" <=> b \in On(run.ff)
      /\ \A b \in Blocks : tag[b] # "held"
      /\ Directory(run.dir) /\ run.dirblk = disk[run.dir]
  <2>1. Removal
    BY DEF RmSuper, RmdirSuper, Removal
  <2> QED BY <2>1, OnRemoval
<1>1. /\ run'.op = run.op /\ run'.at = "entry" /\ run'.ff = run.ff /\ run'.cur = run.cur
      /\ run'.first = run.first /\ run'.dir = run.dir /\ run'.slot = run.slot
      /\ run'.dirblk = run.dirblk /\ run'.nxt = run.nxt
      /\ ffree' = run.ff /\ disk' = disk /\ tag' = tag /\ past' = past
  BY <1>0 DEF RmSuper, RmdirSuper, TypeOK, Runs
<1>2. /\ Removal' = TRUE /\ Making' = FALSE /\ Untried' = FALSE
      /\ \A b \in Blocks : Directory(b)' <=> Directory(b)
      /\ \A d \in Blocks, s \in Slots : Targeted(d, s)' <=> Targeted(d, s)
  BY <1>0, <1>1 DEF Removal, Making, Untried, Directory, Targeted
<1>3. EntriesKept(1) /\ EntriesKept(2)
  BY <1>1, <1>2, SlotsKept
<1>4. Pointers'
  <2>1. {ffree', run'.ff, run'.cur, run'.nxt} \subseteq Ids0 /\ run'.op # "mymkfs"
    BY <1>0, <1>1 DEF Pointers, Ids0
  <2>2. Directory(run.dir)' /\ run'.dirblk = disk'[run'.dir]
    BY <1>0, <1>1 DEF Directory
  <2> QED BY <1>0, <1>1, <1>2, <2>1, <2>2 DEF Pointers, Ids0
<1>5. FreeBlocks'
  <2>1. run.op # "mycopyTo" /\ run.op # "mymkdir"
    BY <1>0 DEF Removal
  <2> QED BY <1>0, <1>1, <1>2, <2>1 DEF FreeBlocks, On, Stops
<1>6. HeldBlocks'
  BY <1>0, <1>1, <1>2 DEF HeldBlocks, Making
<1>7. FileBlocks'
  <2>1. \A d \in Blocks, s \in Slots :
          /\ IsEntry(1, d, s)' <=> IsEntry(1, d, s)
          /\ First(d, s)' = First(d, s)
    BY <1>1, <1>3 DEF EntriesKept, First
  <2> QED BY <1>0, <1>1, <2>1 DEF FileBlocks, On, Stops
<1>8. DirBlocksOwned'
  <2>1. TagKept("dir")
    BY <1>1 DEF TagKept
  <2>2. ~(run.op = "myrmdir" /\ run.at = "free")
    BY DEF RmSuper, RmdirSuper
  <2> QED BY <1>0, <1>1, <1>3, <2>1, <2>2, DirsKept
<1>9. Target'
  <2>1. run.op = "myrm" => run.cur = 0
    BY DEF RmSuper, RmdirSuper
  <2> QED BY <1>0, <1>1, <1>2, <2>1 DEF Target
<1>10. NewName'
  BY <1>0, <1>1, <1>2 DEF NewName
<1> QED BY <1>4, <1>5, <1>6, <1>7, <1>8, <1>9, <1>10 DEF Sound

\* The entry is cleared.
LEMMA StepCleared == ASSUME IInv, TypeOK', RmEntry \/ RmdirEntry PROVE Sound'
<1>0. /\ formatted /\ TypeOK /\ Pointers /\ FreeBlocks /\ HeldBlocks /\ FileBlocks /\ DirBlocksOwned
      /\ Target /\ NewName /\ Removal
      /\ Stops(run.ff) /\ On(run.ff) \subseteq Blocks
      /\ \A b \in Blocks : tag[b] = "free" <=> b \in On(run.ff)
      /\ \A b \in Blocks : tag[b] # "held"
      /\ Directory(run.dir) /\ run.dirblk = disk[run.dir] /\ run.slot \in Slots
  <2>1. Removal
    BY DEF RmEntry, RmdirEntry, Removal
  <2> QED BY <2>1, OnRemoval
<1>1. /\ run' = Idle /\ ffree' = ffree /\ tag' = tag /\ past' = past /\ run.at = "entry"
      /\ run'.op = "none" /\ run'.at = "none" /\ run'.cur = 0 /\ run'.nxt = 0 /\ run'.ff = 0
  BY IdleIs DEF RmEntry, RmdirEntry
<1>2. /\ Removal' = FALSE /\ Making' = FALSE
      /\ \A b \in Blocks : Directory(b)' <=> Directory(b)
      /\ \A d \in Blocks, s \in Slots : Targeted(d, s)' = FALSE
      /\ run.ff = ffree
  BY <1>0, <1>1 DEF Removal, Making, Directory, Targeted, FreeBlocks
<1>3. /\ disk \in Images /\ disk' \in Images
      /\ \A b \in Blocks : disk'[b].next = disk[b].next
      /\ \A b \in Blocks, s \in Slots :
           disk'[b].slots[s] = IF b = run.dir /\ s = run.slot THEN Unused ELSE disk[b].slots[s]
  <2> DEFINE blk == [disk[run.dir] EXCEPT !.slots[run.slot] = Unused]
  <2>1. disk[run.dir] \in DataBlocks /\ disk \in Images /\ disk' \in Images /\ run.dir \in Blocks
    BY <1>0 DEF TypeOK, Images, Directory
  <2>2. /\ blk \in DataBlocks /\ blk.next = disk[run.dir].next
        /\ \A s \in Slots : blk.slots[s] = IF s = run.slot THEN Unused ELSE disk[run.dir].slots[s]
    BY <1>0, <2>1, SlotWritten, SetFacts
  <2>3. disk' = [disk EXCEPT ![run.dir] = blk]
    BY <1>0 DEF RmEntry, RmdirEntry
  <2> HIDE DEF blk
  <2>4. \A b \in Blocks : disk'[b] = IF b = run.dir THEN blk ELSE disk[b]
    BY <2>1, <2>3 DEF Images
  <2>5. \A b \in Blocks : disk'[b].next = disk[b].next
    BY <2>2, <2>4
  <2>6. \A s \in Slots : disk'[run.dir].slots[s] = IF s = run.slot THEN Unused ELSE disk[run.dir].slots[s]
    BY <2>1, <2>2, <2>4
  <2>7. \A b \in Blocks \ {run.dir} : disk'[b].slots = disk[b].slots
    BY <2>4
  <2> QED BY <2>1, <2>5, <2>6, <2>7
<1>4. Unused.type = 0
  BY DEF Unused, Entry
<1>5. EntriesKept(1) /\ EntriesKept(2)
  <2> SUFFICES ASSUME NEW type \in {1, 2}, NEW d \in Blocks, NEW s \in Slots
               PROVE  /\ IsEntry(type, d, s)' <=> IsEntry(type, d, s)
                      /\ IsEntry(type, d, s) => First(d, s)' = First(d, s)
    BY DEF EntriesKept
  <2>1. CASE d = run.dir /\ s = run.slot
    BY <1>0, <1>3, <1>4, <2>1 DEF IsEntry, Targeted
  <2>2. CASE ~(d = run.dir /\ s = run.slot)
    <3>1. disk'[d].slots[s] = disk[d].slots[s] /\ ~Targeted(d, s)
      BY <1>3, <2>2 DEF Targeted
    <3> QED BY <1>1, <1>2, <3>1 DEF IsEntry, First
  <2> QED BY <2>1, <2>2
<1>6. Pointers'
  <2>1. {ffree', run'.ff, run'.cur, run'.nxt} \subseteq Ids0
    BY <1>0, <1>1 DEF Pointers, Ids0
  <2>2. ASSUME NEW b \in Blocks, NEW s \in Slots, <<b, s>> \in past'.wrecks
        PROVE  Directory(b)' /\ disk'[b].slots[s].type # 0
    <3>1. ~(b = run.dir /\ s = run.slot)
      BY <1>0, <1>1, <2>2 DEF Target
    <3> QED BY <1>0, <1>1, <1>2, <1>3, <2>2, <3>1 DEF Pointers
  <2> QED BY <1>0, <1>1, <1>2, <1>3, <2>1, <2>2 DEF Pointers
<1>7. FreeBlocks'
  <2>1. ffree \in Ids
    BY <1>0 DEF TypeOK
  <2>2. Reach(disk', ffree) = Reach(disk, ffree) /\ (Ended(disk', ffree) <=> Ended(disk, ffree))
    BY <1>3, <2>1, ChainsKept DEF LinksKept
  <2> QED BY <1>0, <1>1, <1>2, <2>2 DEF FreeBlocks, On, Stops
<1>8. HeldBlocks'
  BY <1>0, <1>1, <1>2 DEF HeldBlocks
<1>9. FileBlocks'
  <2>1. run.op = "myrm" => On(run.cur) = {}
    <3>1. run.op = "myrm" => run.cur = 0
      BY <1>0, <1>1 DEF Target
    <3> QED BY <1>0, <3>1, OnBlocks, SetFacts
  <2> QED BY <1>0, <1>1, <1>3, <1>5, <2>1, FilesKept DEF TagKept
<1>10. DirBlocksOwned'
  BY <1>0, <1>1, <1>5, DirsKept DEF TagKept
<1>11. Target'
  BY <1>1, <1>2 DEF Target
<1>12. NewName'
  <2>1. ASSUME NEW d \in Blocks, NEW s \in Slots, disk'[d].slots[s].type # 0
        PROVE  disk'[d].slots[s] = disk[d].slots[s]
    BY <1>3, <1>4, <2>1
  <2> SUFFICES ASSUME WholeNames, NEW d \in Blocks, NEW s \in Slots, NEW t \in Slots,
                      Directory(d)', s # t,
                      {disk'[d].slots[s].type, disk'[d].slots[t].type} \subseteq {1, 2}
               PROVE  disk'[d].slots[s].name # disk'[d].slots[t].name
    BY <1>2 DEF NewName
  <2>2. disk'[d].slots[s] = disk[d].slots[s] /\ disk'[d].slots[t] = disk[d].slots[t]
    BY <2>1
  <2> QED BY <1>0, <1>2, <2>2 DEF NewName
<1> QED BY <1>6, <1>7, <1>8, <1>9, <1>10, <1>11, <1>12 DEF Sound

\* The block of the directory goes in front of the free list in memory.
LEMMA StepRmdirFreeBlock == ASSUME IInv, TypeOK', RmdirFreeBlock PROVE Sound'
<1>0. /\ formatted /\ TypeOK /\ Pointers /\ FreeBlocks /\ HeldBlocks /\ FileBlocks /\ DirBlocksOwned
      /\ Target /\ NewName /\ Removal /\ run.op = "myrmdir" /\ run.at = "free"
      /\ ~Making
      /\ On(ffree) \subseteq Blocks /\ On(run.ff) \subseteq Blocks
      /\ \A b \in Blocks : tag[b] = "free" <=> b \in On(run.ff)
      /\ \A b \in On(ffree) : tag[b] = "free"
      /\ \A b \in Blocks : tag[b] # "held"
      /\ Directory(run.dir) /\ run.dirblk = disk[run.dir] /\ run.slot \in Slots
  <2>1. Removal
    BY DEF RmdirFreeBlock, Removal
  <2> QED BY <2>1, OnRemoval DEF RmdirFreeBlock
<1>1. PICK x \in Blocks : /\ x = run.first /\ tag[x] = "dir"
                          /\ \A s \in Slots : disk[x].slots[s].type = 0
  BY <1>0 DEF DirBlocksOwned
<1>2. /\ disk \in Images /\ disk' \in Images
      /\ \A b \in Blocks : /\ disk'[b].next = IF b = x THEN run.ff ELSE disk[b].next
                           /\ disk'[b].slots = disk[b].slots
                           /\ b # x => disk'[b] = disk[b]
      /\ Ended(disk', ffree) /\ Reach(disk', ffree) = Reach(disk, ffree)
      /\ Ended(disk', x) /\ Reach(disk', x) = {x} \cup Reach(disk, run.ff)
  <2>1. disk' = [disk EXCEPT ![x].next = run.ff] /\ tag[x] # "free"
    BY <1>1 DEF RmdirFreeBlock
  <2> QED BY <1>0, <2>1, Pushed
<1>3. /\ run'.op = "myrmdir" /\ run'.at = "super" /\ run'.ff = x /\ run'.cur = run.cur
      /\ run'.dir = run.dir /\ run'.slot = run.slot /\ run'.dirblk = run.dirblk /\ run'.nxt = run.nxt
      /\ run'.first = run.first
      /\ ffree' = ffree /\ past' = past /\ Removal' = TRUE /\ Making' = FALSE /\ Untried' = FALSE
  BY <1>0, <1>1 DEF RmdirFreeBlock, TypeOK, Runs, Removal, Making, Untried
<1>4. \A b \in Blocks : tag'[b] = IF b = x THEN "free" ELSE tag[b]
  BY <1>0, <1>1 DEF RmdirFreeBlock, TypeOK
<1>5. \A b \in Blocks : /\ Directory(b)' <=> Directory(b) /\ b # x
                        /\ disk'[b].slots = disk[b].slots
  BY <1>1, <1>2, <1>4 DEF Directory
<1>6. run.dir # x
  BY <1>0, <1>1 DEF Target
<1>7. EntriesKept(1) /\ EntriesKept(2)
  <2> SUFFICES ASSUME NEW type \in {1, 2}, NEW d \in Blocks, NEW s \in Slots
               PROVE  /\ IsEntry(type, d, s)' <=> IsEntry(type, d, s)
                      /\ First(d, s)' = First(d, s)
    BY DEF EntriesKept
  <2>1. Targeted(d, s)' <=> Targeted(d, s)
    BY <1>0, <1>3 DEF Targeted
  <2>2. disk'[d].slots[s] = disk[d].slots[s]
    BY <1>5
  <2> QED BY <1>1, <1>3, <1>5, <2>1, <2>2 DEF IsEntry, First
<1>8. Pointers'
  <2>1. {ffree', run'.ff, run'.cur, run'.nxt} \subseteq Ids0
    BY <1>0, <1>3 DEF Pointers, Ids0
  <2>2. Directory(run.dir)' /\ run'.dirblk = disk'[run'.dir]
    <3>1. Directory(run.dir)'
      BY <1>0, <1>3, <1>4, <1>6 DEF Directory
    <3> QED BY <1>0, <1>2, <1>3, <1>6, <3>1 DEF Directory
  <2>3. \A b \in Blocks, s \in Slots :
          <<b, s>> \in past'.wrecks => Directory(b)' /\ disk'[b].slots[s].type # 0
    BY <1>0, <1>1, <1>3, <1>5 DEF Pointers
  <2>4. \A b \in Blocks : disk'[b].next \in Ids0
    BY <1>0, <1>2 DEF Pointers
  <2>5. \A b \in Blocks : tag'[b] = "root" <=> b = Root
    BY <1>0, <1>1, <1>4 DEF Pointers
  <2> QED BY <1>3, <2>1, <2>2, <2>3, <2>4, <2>5 DEF Pointers
<1>9. FreeBlocks'
  <2>2. \A b \in On(ffree) : tag'[b] = "free"
    BY <1>0, <1>4
  <2>3. \A b \in Blocks : tag'[b] = "free" <=> b \in Reach(disk', x)
    BY <1>0, <1>2, <1>4 DEF On
  <2> QED BY <1>2, <1>3, <2>2, <2>3 DEF FreeBlocks, On, Stops
<1>10. HeldBlocks'
  BY <1>0, <1>3, <1>4 DEF HeldBlocks
<1>11. FileBlocks'
  <2>1. \A b \in Blocks : tag[b] = "file" => disk'[b].next = disk[b].next
    BY <1>1, <1>2
  <2>2. TagKept("file")
    BY <1>1, <1>4 DEF TagKept
  <2> QED BY <1>0, <1>3, <1>7, <2>1, <2>2, FilesKept
<1>12. DirBlocksOwned'
  <2>1. \A d \in Blocks, s \in Slots :
          /\ IsEntry(2, d, s)' <=> IsEntry(2, d, s)
          /\ IsEntry(2, d, s) => First(d, s)' = First(d, s)
    BY <1>7 DEF EntriesKept
  <2>2. ASSUME NEW d \in Blocks, NEW s \in Slots, IsEntry(2, d, s)'
        PROVE  /\ First(d, s)' \in Blocks /\ tag'[First(d, s)'] = "dir"
               /\ \A e \in Blocks, t \in Slots :
                    IsEntry(2, e, t)' /\ First(d, s)' = First(e, t)' => d = e /\ s = t
    <3>1. IsEntry(2, d, s) /\ First(d, s)' = First(d, s)
      BY <2>1, <2>2
    <3>2. First(d, s) \in Blocks /\ tag[First(d, s)] = "dir" /\ First(d, s) # x
      BY <1>0, <1>1, <3>1 DEF DirBlocksOwned
    <3>3. \A e \in Blocks, t \in Slots :
            IsEntry(2, e, t) /\ First(d, s) = First(e, t) => d = e /\ s = t
      BY <1>0, <3>1 DEF DirBlocksOwned
    <3> QED BY <1>4, <2>1, <3>1, <3>2, <3>3
  <2>3. ASSUME NEW b \in Blocks, tag'[b] = "dir"
        PROVE  \E d \in Blocks, s \in Slots : IsEntry(2, d, s)' /\ First(d, s)' = b
    <3>1. PICK d \in Blocks, s \in Slots : IsEntry(2, d, s) /\ First(d, s) = b
      BY <1>0, <1>1, <1>4, <2>3 DEF DirBlocksOwned
    <3> QED BY <2>1, <3>1
  <2> QED BY <1>3, <2>2, <2>3 DEF DirBlocksOwned
<1>13. Target'
  BY <1>0, <1>2, <1>3, <1>6 DEF Target, Directory
<1>14. NewName'
  BY <1>0, <1>3, <1>5 DEF NewName
<1> QED BY <1>8, <1>9, <1>10, <1>11, <1>12, <1>13, <1>14 DEF Sound

-----------------------------------------------------------------------------
\* What a kill does to the tags and to the entries left behind.
LEMMA Killed ==
  ASSUME IInv, Kill
  PROVE  /\ run' = Idle /\ UNCHANGED <<ffree, disk, formatted>>
         /\ run'.op = "none" /\ run'.at = "none" /\ run'.cur = 0 /\ run'.nxt = 0 /\ run'.ff = 0
         /\ Removal' = FALSE /\ Making' = FALSE
         /\ \A b \in Blocks : Directory(b)' <=> b \in Blocks /\ tag'[b] \in {"root", "dir"}
         /\ ~Removal => /\ past'.wrecks = past.wrecks
                        /\ \A b \in Blocks : tag'[b] = IF tag[b] = "held" THEN "lost" ELSE tag[b]
         /\ Removal /\ Untried =>
              /\ past'.wrecks = past.wrecks
              /\ \A b \in Blocks : tag'[b] = IF tag[b] = "held" THEN "lost" ELSE tag[b]
         /\ Removal /\ ~Untried =>
              /\ past'.wrecks = past.wrecks \cup {<<run.dir, run.slot>>}
              /\ \A b \in Blocks :
                   tag'[b] = IF tag[b] = "held" \/ b \in On(run.cur) \/ b \in On(run.ff) \ On(ffree)
                             THEN "lost" ELSE tag[b]
<1>1. /\ run' = Idle /\ UNCHANGED <<ffree, disk, formatted>>
      /\ run'.op = "none" /\ run'.at = "none" /\ run'.cur = 0 /\ run'.nxt = 0 /\ run'.ff = 0
      /\ Removal' = FALSE /\ Making' = FALSE
      /\ past'.wrecks = past.wrecks \cup ({Victim} \ {<<0, 0>>})
      /\ \A b \in Blocks : tag'[b] = IF b \in Abandoned THEN "lost" ELSE tag[b]
  BY IdleIs DEF Kill, Removal, Making
<1>2. \A b \in Blocks : Directory(b)' <=> b \in Blocks /\ tag'[b] \in {"root", "dir"}
  BY DEF Directory
<1>3. CASE ~Removal \/ Untried
  <2>1. Victim = <<0, 0>>
    <3>1. CASE ~Removal
      BY <3>1 DEF Victim, Removal
    <3>2. CASE Untried
      BY <3>2 DEF Victim, Untried
    <3> QED BY <1>3, <3>1, <3>2
  <2>2. \A b \in Blocks : b \in Abandoned <=> tag[b] = "held"
    BY <2>1 DEF Abandoned
  <2> QED BY <1>1, <1>2, <1>3, <2>1, <2>2
<1>4. CASE Removal /\ ~Untried
  <2>1. run.dir \in Blocks /\ run.dir # 0 /\ run.at \in {"free", "super", "entry"}
    BY <1>4, OnRemoval, SetFacts DEF Directory, IInv, Control, Removal
  <2>2. Victim = <<run.dir, run.slot>> /\ Victim # <<0, 0>>
    <3>1. \/ run.op = "myrmdir" /\ run.at # "free"
          \/ run.op = "myrm" /\ (run.at = "free" => run.cur # run.first)
      BY <1>4 DEF Untried, Removal
    <3> QED BY <2>1, <3>1 DEF Victim
  <2>3. \A x : ToSet(Chain(x)) = On(x)
    BY ChainIs DEF On, Reach, ChainOn, Passed
  <2>4. \A b \in Blocks : b \in Abandoned <=> \/ tag[b] = "held" \/ b \in On(run.cur)
                                              \/ b \in On(run.ff) \ On(ffree)
    BY <2>2, <2>3 DEF Abandoned
  <2> QED BY <1>1, <1>2, <1>4, <2>2, <2>4
<1> QED BY <1>3, <1>4

\* A removal that is killed before its first write changes nothing.
LEMMA KilledUntried == ASSUME IInv, TypeOK', Kill, Removal, Untried PROVE Sound'
<1>0. /\ formatted /\ TypeOK /\ Pointers /\ FreeBlocks /\ HeldBlocks /\ FileBlocks /\ DirBlocksOwned
      /\ Target /\ NewName
      /\ \A b \in Blocks : tag[b] = "free" <=> b \in On(run.ff)
      /\ \A b \in Blocks : tag[b] # "held"
      /\ Directory(run.dir) /\ run.dirblk = disk[run.dir] /\ run.slot \in Slots
      /\ run.ff = ffree /\ Stops(ffree) /\ On(ffree) \subseteq Blocks
      /\ run.op \in {"myrm", "myrmdir"} /\ run.at = "free"
  BY OnRemoval DEF FreeBlocks, Untried, Removal
<1>1. /\ ffree' = ffree /\ disk' = disk /\ run'.op = "none" /\ run'.at = "none" /\ run'.cur = 0
      /\ run'.nxt = 0 /\ run'.ff = 0 /\ Removal' = FALSE /\ Making' = FALSE
      /\ past'.wrecks = past.wrecks /\ \A b \in Blocks : tag'[b] = tag[b]
  BY <1>0, Killed
<1>2. PICK d \in Blocks, s \in Slots : d = run.dir /\ s = run.slot
  BY <1>0 DEF Directory
<1>3. \A e \in Blocks : Directory(e)' <=> Directory(e)
  BY <1>1 DEF Directory
<1>4. /\ First(d, s) = run.first /\ <<d, s>> \notin past.wrecks
      /\ disk[d].slots[s].type = (IF run.op = "myrm" THEN 1 ELSE 2)
  BY <1>0, <1>2 DEF Target
<1>5. \A type \in {1, 2}, e \in Blocks, t \in Slots :
        /\ First(e, t)' = First(e, t)
        /\ IsEntry(type, e, t)' <=>
             IsEntry(type, e, t) \/ (e = d /\ t = s /\ type = (IF run.op = "myrm" THEN 1 ELSE 2))
  <2> SUFFICES ASSUME NEW type \in {1, 2}, NEW e \in Blocks, NEW t \in Slots
               PROVE  /\ First(e, t)' = First(e, t)
                      /\ IsEntry(type, e, t)' <=>
                          IsEntry(type, e, t) \/ (e = d /\ t = s /\ type = (IF run.op = "myrm" THEN 1 ELSE 2))
    OBVIOUS
  <2>1. Targeted(e, t) <=> (e = d /\ t = s)
    BY <1>0, <1>2 DEF Targeted, Removal
  <2>2. Targeted(e, t)' = FALSE
    BY <1>1 DEF Targeted
  <2> QED BY <1>0, <1>1, <1>2, <1>3, <1>4, <2>1, <2>2 DEF IsEntry, First
<1>6. Pointers'
  <2>1. {ffree', run'.ff, run'.cur, run'.nxt} \subseteq Ids0
    BY <1>0, <1>1 DEF Pointers, Ids0
  <2> QED BY <1>0, <1>1, <1>3, <2>1 DEF Pointers
<1>7. FreeBlocks'
  BY <1>0, <1>1 DEF FreeBlocks, On, Stops
<1>8. HeldBlocks'
  BY <1>0, <1>1 DEF HeldBlocks
<1>9. FileBlocks'
  <2>1. CASE run.op = "myrm"
    <3>1. run.cur = First(d, s) /\ First(d, s) \in Blocks
      BY <1>0, <1>4, <2>1 DEF Untried, Target
    <3>2. \A e \in Blocks, t \in Slots :
            /\ IsEntry(1, e, t)' <=> IsEntry(1, e, t) \/ (e = d /\ t = s)
            /\ First(e, t)' = First(e, t)
      BY <1>5, <2>1
    <3>3. \A e \in Blocks, t \in Slots : IsEntry(1, e, t) =>
            /\ First(e, t) \in Blocks /\ Ended(disk, First(e, t))
            /\ \A b \in Reach(disk, First(e, t)) :
                 /\ tag[b] = "file" /\ b \notin Reach(disk, First(d, s))
                 /\ \A f \in Blocks, u \in Slots :
                      IsEntry(1, f, u) /\ b \in Reach(disk, First(f, u)) => e = f /\ t = u
      BY <1>0, <2>1, <3>1 DEF FileBlocks, On, Stops
    <3>4. Ended(disk, First(d, s)) /\ \A b \in Reach(disk, First(d, s)) : tag[b] = "file"
      BY <1>0, <2>1, <3>1 DEF FileBlocks, On, Stops
    <3>5. \A b \in Blocks : tag[b] = "file" =>
            \/ \E e \in Blocks, t \in Slots : IsEntry(1, e, t) /\ b \in Reach(disk, First(e, t))
            \/ b \in Reach(disk, First(d, s))
      BY <1>0, <2>1, <3>1 DEF FileBlocks, On
    <3>6. ASSUME NEW e \in Blocks, NEW t \in Slots, IsEntry(1, e, t)'
          PROVE  /\ First(e, t)' \in Blocks /\ Ended(disk', First(e, t)')
                 /\ \A b \in Reach(disk', First(e, t)') :
                      /\ tag'[b] = "file"
                      /\ \A f \in Blocks, u \in Slots :
                           IsEntry(1, f, u)' /\ b \in Reach(disk', First(f, u)') => e = f /\ t = u
      <4>1. First(e, t)' = First(e, t) /\ First(e, t) \in Blocks /\ Ended(disk, First(e, t))
        BY <3>1, <3>2, <3>3, <3>4, <3>6
      <4>2. PICK x \in Ids : x = First(e, t)
        BY <4>1, Sizes
      <4>3. \A b \in Reach(disk, First(e, t)) : b \in Blocks /\ tag[b] = "file"
        <5>1. Reach(disk, x) \subseteq Blocks
          BY <1>0, TypeFacts, ChainBasics
        <5> QED BY <3>2, <3>3, <3>4, <3>6, <4>2, <5>1
      <4>4. ASSUME NEW b \in Reach(disk, First(e, t)), NEW f \in Blocks, NEW u \in Slots,
                   IsEntry(1, f, u)', b \in Reach(disk, First(f, u))
            PROVE  e = f /\ t = u
        BY <3>2, <3>3, <3>6, <4>4
      <4> QED BY <1>1, <3>2, <4>1, <4>3, <4>4
    <3>7. ASSUME NEW b \in Blocks, tag'[b] = "file"
          PROVE  \E e \in Blocks, t \in Slots : IsEntry(1, e, t)' /\ b \in Reach(disk', First(e, t)')
      BY <1>1, <3>2, <3>5, <3>7
    <3> QED BY <1>1, <3>6, <3>7 DEF FileBlocks, On, Stops
  <2>2. CASE run.op = "myrmdir"
    <3>1. EntriesKept(1)
      BY <1>5, <2>2 DEF EntriesKept
    <3> QED BY <1>0, <1>1, <2>2, <3>1, FilesKept DEF TagKept
  <2> QED BY <1>0, <2>1, <2>2
<1>10. DirBlocksOwned'
  <2>1. CASE run.op = "myrmdir"
    <3>1. \A e \in Blocks, t \in Slots :
            /\ IsEntry(2, e, t)' <=> IsEntry(2, e, t) \/ (e = d /\ t = s)
            /\ First(e, t)' = First(e, t)
      BY <1>5, <2>1
    <3>2. ASSUME NEW e \in Blocks, NEW t \in Slots, IsEntry(2, e, t)'
          PROVE  /\ First(e, t)' \in Blocks /\ tag'[First(e, t)'] = "dir"
                 /\ \A f \in Blocks, u \in Slots :
                      IsEntry(2, f, u)' /\ First(e, t)' = First(f, u)' => e = f /\ t = u
      <4>1. First(d, s) \in Blocks /\ tag[First(d, s)] = "dir"
        BY <1>0, <1>4, <2>1 DEF DirBlocksOwned
      <4>2. \A f \in Blocks, u \in Slots : IsEntry(2, f, u) =>
              First(f, u) \in Blocks /\ tag[First(f, u)] = "dir" /\ First(f, u) # First(d, s)
        BY <1>0, <1>4, <2>1 DEF DirBlocksOwned
      <4>3. \A f \in Blocks, u \in Slots :
              IsEntry(2, e, t) /\ IsEntry(2, f, u) /\ First(e, t) = First(f, u) => e = f /\ t = u
        BY <1>0 DEF DirBlocksOwned
      <4> QED BY <1>1, <3>1, <3>2, <4>1, <4>2, <4>3
    <3>3. ASSUME NEW b \in Blocks, tag'[b] = "dir"
          PROVE  \E e \in Blocks, t \in Slots : IsEntry(2, e, t)' /\ First(e, t)' = b
      <4>1. \/ \E e \in Blocks, t \in Slots : IsEntry(2, e, t) /\ First(e, t) = b
            \/ b = First(d, s)
        BY <1>0, <1>1, <1>4, <3>3 DEF DirBlocksOwned
      <4> QED BY <3>1, <4>1
    <3> QED BY <1>1, <3>2, <3>3 DEF DirBlocksOwned
  <2>2. CASE run.op = "myrm"
    <3>1. EntriesKept(2)
      BY <1>5, <2>2 DEF EntriesKept
    <3> QED BY <1>0, <1>1, <2>2, <3>1, DirsKept DEF TagKept
  <2> QED BY <1>0, <2>1, <2>2
<1>11. Target'
  BY <1>1 DEF Target
<1>12. NewName'
  BY <1>0, <1>1, <1>3 DEF NewName
<1> QED BY <1>6, <1>7, <1>8, <1>9, <1>10, <1>11, <1>12 DEF Sound

\* A removal that is killed later leaves its entry as a wreck, and loses blocks.
LEMMA KilledHalfWay == ASSUME IInv, TypeOK', Kill, Removal, ~Untried PROVE Sound'
<1>0. /\ formatted /\ TypeOK /\ Pointers /\ FreeBlocks /\ HeldBlocks /\ FileBlocks /\ DirBlocksOwned
      /\ Target /\ NewName
      /\ \A b \in Blocks : tag[b] = "free" <=> b \in On(run.ff)
      /\ \A b \in On(ffree) : tag[b] = "free"
      /\ \A b \in Blocks : tag[b] # "held"
      /\ Directory(run.dir) /\ run.slot \in Slots
      /\ Stops(ffree) /\ On(ffree) \subseteq Blocks
      /\ run.op \in {"myrm", "myrmdir"}
  BY OnRemoval DEF Removal
<1>1. /\ ffree' = ffree /\ disk' = disk /\ run'.op = "none" /\ run'.at = "none" /\ run'.cur = 0
      /\ run'.nxt = 0 /\ run'.ff = 0 /\ Removal' = FALSE /\ Making' = FALSE
      /\ past'.wrecks = past.wrecks \cup {<<run.dir, run.slot>>}
  BY Killed
<1>2. \A b \in Blocks : tag'[b] = IF b \in On(run.cur) \/ b \in On(run.ff) \ On(ffree) THEN "lost" ELSE tag[b]
  BY <1>0, Killed
<1>3. \A b \in On(run.cur) : run.op = "myrm" /\ tag[b] = "file"
  <2>1. run.op = "myrmdir" => On(run.cur) = {}
    BY <1>0, OnBlocks, SetFacts DEF Target
  <2> QED BY <1>0, <2>1 DEF FileBlocks
<1>4. \A b \in Blocks : /\ tag'[b] = "root" <=> tag[b] = "root"
                        /\ tag'[b] = "dir" <=> tag[b] = "dir"
                        /\ tag'[b] = "free" <=> b \in On(ffree)
                        /\ tag'[b] # "held"
                        /\ tag'[b] = "file" <=> tag[b] = "file" /\ b \notin On(run.cur)
  BY <1>0, <1>2, <1>3
<1>5. \A b \in Blocks : Directory(b)' <=> Directory(b)
  BY <1>4 DEF Directory
<1>6. \A type \in {1, 2}, d \in Blocks, s \in Slots :
        /\ IsEntry(type, d, s)' <=> IsEntry(type, d, s)
        /\ First(d, s)' = First(d, s)
  <2> SUFFICES ASSUME NEW type \in {1, 2}, NEW d \in Blocks, NEW s \in Slots
               PROVE  /\ IsEntry(type, d, s)' <=> IsEntry(type, d, s)
                      /\ First(d, s)' = First(d, s)
    OBVIOUS
  <2>1. Targeted(d, s) <=> (d = run.dir /\ s = run.slot)
    BY <1>0 DEF Targeted, Removal
  <2>2. Targeted(d, s)' = FALSE
    BY <1>1 DEF Targeted
  <2>3. <<d, s>> \in past'.wrecks <=> <<d, s>> \in past.wrecks \/ (d = run.dir /\ s = run.slot)
    BY <1>1
  <2> QED BY <1>1, <1>5, <2>1, <2>2, <2>3 DEF IsEntry, First
<1>7. Pointers'
  <2>1. {ffree', run'.ff, run'.cur, run'.nxt} \subseteq Ids0
    BY <1>0, <1>1 DEF Pointers, Ids0
  <2>2. ASSUME NEW d \in Blocks, NEW s \in Slots, <<d, s>> \in past'.wrecks
        PROVE  Directory(d)' /\ disk'[d].slots[s].type # 0
    <3>1. CASE <<d, s>> \in past.wrecks
      BY <1>0, <1>1, <1>5, <3>1 DEF Pointers
    <3>2. CASE d = run.dir /\ s = run.slot
      BY <1>0, <1>1, <1>5, <3>2 DEF Target
    <3> QED BY <1>1, <2>2, <3>1, <3>2
  <2> QED BY <1>0, <1>1, <1>4, <2>1, <2>2 DEF Pointers
<1>8. FreeBlocks'
  BY <1>0, <1>1, <1>4 DEF FreeBlocks, On, Stops
<1>9. HeldBlocks'
  BY <1>1, <1>4 DEF HeldBlocks
<1>10. FileBlocks'
  <2>1. \A d \in Blocks, s \in Slots : /\ IsEntry(1, d, s)' <=> IsEntry(1, d, s)
                                       /\ First(d, s)' = First(d, s)
    BY <1>6
  <2>2. ASSUME NEW d \in Blocks, NEW s \in Slots, IsEntry(1, d, s)
        PROVE  /\ First(d, s) \in Blocks /\ Ended(disk, First(d, s))
               /\ \A b \in Reach(disk, First(d, s)) :
                    /\ tag'[b] = "file"
                    /\ \A e \in Blocks, t \in Slots :
                         IsEntry(1, e, t) /\ b \in Reach(disk, First(e, t)) => d = e /\ s = t
    <3>1. PICK x \in Ids : x = First(d, s) /\ x \in Blocks
      BY <1>0, <2>2, Sizes DEF FileBlocks
    <3>2. Reach(disk, x) \subseteq Blocks
      BY <1>0, TypeFacts, ChainBasics
    <3>3. ASSUME NEW b \in Reach(disk, x) PROVE tag[b] = "file" /\ b \notin On(run.cur)
      BY <1>0, <1>3, <2>2, <3>1, <3>3 DEF FileBlocks, On
    <3>4. \A b \in Reach(disk, x) : tag'[b] = "file"
      BY <1>4, <3>2, <3>3
    <3> QED BY <1>0, <2>2, <3>1, <3>4 DEF FileBlocks, On, Stops
  <2>3. ASSUME NEW b \in Blocks, tag'[b] = "file"
        PROVE  \E d \in Blocks, s \in Slots : IsEntry(1, d, s) /\ b \in Reach(disk, First(d, s))
    BY <1>0, <1>4, <2>3 DEF FileBlocks, On
  <2> QED BY <1>1, <2>1, <2>2, <2>3 DEF FileBlocks, On, Stops
<1>11. DirBlocksOwned'
  <2>1. EntriesKept(2) /\ TagKept("dir")
    BY <1>4, <1>6 DEF EntriesKept, TagKept
  <2>2. ~(run.op = "myrmdir" /\ run.at = "free")
    BY DEF Untried
  <2> QED BY <1>0, <1>1, <2>1, <2>2, DirsKept
<1>12. Target'
  BY <1>1 DEF Target
<1>13. NewName'
  BY <1>0, <1>1, <1>5 DEF NewName
<1> QED BY <1>7, <1>8, <1>9, <1>10, <1>11, <1>12, <1>13 DEF Sound

\* A command is killed, on a formatted image.
LEMMA StepKill == ASSUME IInv, TypeOK', Kill, formatted PROVE Sound'
<1>1. CASE Removal
  BY <1>1, KilledUntried, KilledHalfWay
<1>2. CASE ~Removal
  <2>1. Making
    <3>1. run.op \in Commands /\ run.op # "mymkfs"
      BY UseAssumption DEF Kill, UseAssumption, IInv, Pointers
    <3> QED BY <1>2, <3>1 DEF Commands, Making, Removal
  <2>2. run' = Idle /\ UNCHANGED <<disk, ffree>>
    BY Killed
  <2>3. past'.wrecks = past.wrecks /\ \A b \in Blocks : tag'[b] = IF tag[b] = "held" THEN "lost" ELSE tag[b]
    BY <1>2, Killed
  <2> QED BY <2>1, <2>2, <2>3, GivenUp
<1> QED BY <1>1, <1>2

-----------------------------------------------------------------------------
\* What mymkfs knows of its image before the last write.
LEMMA OnFormat ==
  ASSUME IInv, run.op = "mymkfs"
  PROVE  ~formatted /\ Formatting /\ TypeOK /\ disk \in Images /\ run \in Runs
BY TypeFacts DEF IInv, Pointers

\* mymkfs builds the free list from below.
LEMMA StepMkfs ==
  ASSUME IInv, MkfsSuper \/ MkfsRoot \/ MkfsList
  PROVE  ~formatted' /\ Formatting'
<1>1. CASE MkfsSuper
  <2>1. run'.op = "mymkfs" /\ run'.at = "root"
    BY <1>1, IdleIs DEF MkfsSuper, Runs
  <2>2. ffree' = 2 /\ past'.wrecks = {} /\ ~formatted'
    BY <1>1 DEF MkfsSuper, NoPast
  <2> QED BY <2>1, <2>2 DEF Formatting
<1>2. CASE MkfsRoot
  <2>1. ~formatted /\ Formatting /\ TypeOK /\ disk \in Images /\ run \in Runs /\ run.op = "mymkfs"
    BY <1>2, OnFormat DEF MkfsRoot
  <2>2. run'.op = "mymkfs" /\ run'.at = "list" /\ run'.cur = 2
    BY <1>2, <2>1 DEF MkfsRoot, Runs
  <2>3. /\ \A b \in Blocks : tag'[b] = IF b = Root THEN "root" ELSE "free"
        /\ disk'[Root] = ZeroBlock(0)
    BY <1>2, <2>1, SetFacts DEF MkfsRoot, Images
  <2>4. ffree' = ffree /\ past' = past /\ formatted' = formatted
    BY <1>2 DEF MkfsRoot
  <2>5. 2 \in 2 .. NBlocks /\ \A b \in 2 .. 2 - 1 : FALSE
    BY Sizes
  <2> QED BY <2>1, <2>2, <2>3, <2>4, <2>5 DEF Formatting
<1>3. CASE MkfsList
  <2>1. ~formatted /\ Formatting /\ TypeOK /\ disk \in Images /\ run \in Runs /\ run.op = "mymkfs"
        /\ run.at = "list"
    BY <1>3, OnFormat DEF MkfsList
  <2>2. PICK c \in 2 .. NBlocks : c = run.cur /\ c < NBlocks
    BY <1>3, <2>1 DEF MkfsList, Formatting
  <2>3. run'.op = "mymkfs" /\ run'.at = "list" /\ run'.cur = c + 1
    BY <1>3, <2>1, <2>2 DEF MkfsList, Runs
  <2>4. c \in Blocks /\ c # Root /\ c + 1 \in Ids /\ c + 1 \in 2 .. NBlocks /\ c \in Nat
        /\ 2 .. (c + 1) - 1 = (2 .. c - 1) \cup {c}
    BY <2>2, Sizes DEF Blocks, Root, Ids
  <2>5. ZeroBlock(c + 1) \in DataBlocks /\ ZeroBlock(c + 1).next = c + 1
    BY <2>4, NewBlocks DEF ZeroBlock
  <2>6. disk' = [disk EXCEPT ![c] = ZeroBlock(c + 1)]
    BY <1>3, <2>2 DEF MkfsList
  <2>7. \A b \in Blocks : disk'[b] = IF b = c THEN ZeroBlock(c + 1) ELSE disk[b]
    BY <2>1, <2>5, <2>6, BlockWritten
  <2>8. disk'[Root] = ZeroBlock(0) /\ \A b \in 2 .. c - 1 : disk[b].next = b + 1
    BY <2>1, <2>2, <2>4, <2>7, SetFacts DEF Formatting
  <2>9. ASSUME NEW b \in 2 .. (c + 1) - 1 PROVE disk'[b].next = b + 1
    <3>1. CASE b = c
      BY <2>4, <2>5, <2>7, <3>1
    <3>2. CASE b \in 2 .. c - 1
      <4>1. b \in Blocks /\ b # c
        BY <2>4, <3>2, Sizes DEF Blocks
      <4> QED BY <2>7, <2>8, <3>2, <4>1
    <3> QED BY <2>4, <3>1, <3>2
  <2>10. ffree' = ffree /\ past' = past /\ formatted' = formatted /\ tag' = tag
    BY <1>3 DEF MkfsList
  <2>11. /\ ffree = 2 /\ past.wrecks = {}
         /\ \A b \in Blocks : tag[b] = IF b = Root THEN "root" ELSE "free"
    BY <2>1 DEF Formatting
  <2> QED BY <2>1, <2>3, <2>4, <2>8, <2>9, <2>10, <2>11 DEF Formatting
<1> QED BY <1>1, <1>2, <1>3

\* A mymkfs that is killed leaves an image to be formatted again.
LEMMA StepMkfsKilled == ASSUME IInv, ~formatted, Kill PROVE ~formatted' /\ Formatting'
<1>1. /\ run' = Idle /\ run'.op = "none" /\ formatted' = formatted /\ past'.wrecks = past.wrecks
  <2>1. ~Removal
    BY DEF IInv, Formatting, Removal
  <2> QED BY <2>1, Killed
<1> QED BY <1>1 DEF IInv, Formatting

\* The image that mymkfs leaves: the root is empty and every other block free.
LEMMA StepMkfsLast == ASSUME IInv, TypeOK', MkfsLast PROVE Sound'
<1>1. /\ Formatting /\ TypeOK /\ disk \in Images /\ run.op = "mymkfs" /\ run.at = "list"
      /\ run.cur = NBlocks
  BY OnFormat DEF MkfsLast
<1>2. /\ ffree = 2 /\ past.wrecks = {}
      /\ \A b \in Blocks : tag[b] = IF b = Root THEN "root" ELSE "free"
      /\ disk[Root] = ZeroBlock(0)
      /\ \A b \in 2 .. NBlocks - 1 : disk[b].next = b + 1
  BY <1>1 DEF Formatting
<1>3. /\ run' = Idle /\ run'.op = "none" /\ run'.at = "none" /\ run'.cur = 0 /\ run'.nxt = 0 /\ run'.ff = 0
      /\ ffree' = ffree /\ tag' = tag /\ past' = past
      /\ disk' = [disk EXCEPT ![NBlocks - 1] = ZeroBlock(0)]
      /\ Removal' = FALSE /\ Making' = FALSE
  BY IdleIs DEF MkfsLast, Removal, Making
<1>4. /\ NBlocks - 1 \in Blocks /\ NBlocks - 1 # Root /\ Root \in Blocks
      /\ ZeroBlock(0) \in DataBlocks /\ ZeroBlock(0).next = 0
      /\ \A s \in Slots : ZeroBlock(0).slots[s].type = 0
  BY Sizes, SetFacts, NewBlocks DEF Blocks, Root, ZeroBlock, EmptyDir, Unused, Entry
<1>5. disk' \in Images /\ \A b \in Blocks : disk'[b] = IF b = NBlocks - 1 THEN ZeroBlock(0) ELSE disk[b]
  <2>1. PICK last \in Blocks, new \in DataBlocks : last = NBlocks - 1 /\ new = ZeroBlock(0)
    BY <1>4, Sizes
  <2>2. disk' = [disk EXCEPT ![last] = new]
    BY <1>3, <2>1
  <2>3. disk' \in Images /\ \A b \in Blocks : disk'[b] = IF b = last THEN new ELSE disk[b]
    BY <1>1, <2>2 DEF Images
  <2> QED BY <2>1, <2>3
<1>6. ASSUME NEW b \in Blocks \ {Root}
      PROVE  disk'[b].next = IF b < NBlocks - 1 THEN b + 1 ELSE 0
  <2>1. b \in 2 .. NBlocks - 1
    BY Sizes DEF Blocks, Root
  <2> QED BY <1>2, <1>4, <1>5, <2>1, Sizes
<1>7. Ended(disk', ffree') /\ Reach(disk', ffree') = Blocks \ {Root}
  BY <1>2, <1>3, <1>5, <1>6, NewList
<1>8. /\ \A b \in Blocks : Directory(b)' <=> b = Root
      /\ disk'[Root] = ZeroBlock(0)
      /\ \A b \in Blocks : tag'[b] = IF b = Root THEN "root" ELSE "free"
  BY <1>2, <1>3, <1>4, <1>5 DEF Directory
<1>9. \A d \in Blocks, s \in Slots : IsEntry(1, d, s)' = FALSE /\ IsEntry(2, d, s)' = FALSE
  BY <1>4, <1>8 DEF IsEntry
<1>10. Pointers'
  <2>1. \A b \in Blocks : disk'[b].next \in Ids0
    <3> SUFFICES ASSUME NEW b \in Blocks PROVE disk'[b].next \in Ids0
      OBVIOUS
    <3>1. CASE b = Root
      BY <1>4, <1>8, <3>1 DEF Ids0
    <3>2. CASE b # Root
      <4>1. b < NBlocks - 1 => b + 1 \in Blocks
        BY Sizes DEF Blocks
      <4> QED BY <1>6, <3>2, <4>1 DEF Ids0
    <3> QED BY <3>1, <3>2
  <2>2. {ffree', run'.ff, run'.cur, run'.nxt} \subseteq Ids0
    BY <1>2, <1>3, SetFacts DEF Ids0
  <2> QED BY <1>2, <1>3, <1>8, <2>1, <2>2 DEF Pointers
<1>11. FreeBlocks'
  BY <1>3, <1>7, <1>8 DEF FreeBlocks, On, Stops
<1>12. HeldBlocks'
  BY <1>3, <1>8 DEF HeldBlocks
<1>13. FileBlocks'
  BY <1>3, <1>8, <1>9 DEF FileBlocks
<1>14. DirBlocksOwned'
  BY <1>3, <1>8, <1>9 DEF DirBlocksOwned
<1>15. Target'
  BY <1>3 DEF Target
<1>16. NewName'
  BY <1>3, <1>4, <1>8 DEF NewName
<1> QED BY <1>10, <1>11, <1>12, <1>13, <1>14, <1>15, <1>16 DEF Sound
-----------------------------------------------------------------------------
\* Every step leaves its command where the program can be.
LEMMA ControlStep == ASSUME IInv, TypeOK', [Next]_vars PROVE Control'
<1>1. Control /\ TypeOK /\ run \in Runs
  BY TypeFacts DEF IInv
<1>2. ASSUME run' = Idle PROVE Control'
  BY <1>2, IdleIs DEF Control
<1>3. ASSUME run' = run PROVE Control'
  BY <1>1, <1>3 DEF Control
<1>4. ASSUME run'.op = "mymkfs", run'.at \in {"root", "list"} PROVE Control'
  BY <1>4 DEF Control
<1>5. ASSUME run'.op = "mycopyTo", run'.at = "read" PROVE Control'
  BY <1>5 DEF Control
<1>6. ASSUME run'.op = "myrm", run'.at \in {"free", "entry"} PROVE Control'
  BY <1>6 DEF Control
<1>7. ASSUME run'.op = "mymkdir", run'.at \in {"init", "entry", "undo"} PROVE Control'
  BY <1>7 DEF Control
<1>8. ASSUME run'.op = "myrmdir", run'.at \in {"free", "super", "entry"} PROVE Control'
  BY <1>8 DEF Control
<1>9. CASE MkfsSuper \/ MkfsRoot \/ MkfsList
  <2>1. run'.op = "mymkfs" /\ run'.at \in {"root", "list"}
    BY <1>1, <1>9, IdleIs DEF MkfsSuper, MkfsRoot, MkfsList, Runs
  <2> QED BY <2>1, <1>4
<1>10. CASE \/ MkfsLast \/ CopyToNoSpace \/ CopyToEntry \/ CopyToDirFull \/ RmEntry \/ MkdirEntry
            \/ MkdirUndoSuper \/ RmdirEntry \/ Kill
  BY <1>2, <1>10 DEF MkfsLast, CopyToNoSpace, CopyToEntry, CopyToDirFull, RmEntry, MkdirEntry,
                     MkdirUndoSuper, RmdirEntry, Kill
<1>11. ASSUME NEW path \in DirPaths, NEW name \in Names,
              \/ \E c \in Contents, len \in Lengths : CopyToBegin(path, name, c, len)
              \/ RmBegin(path, name) \/ MkdirBegin(path, name) \/ RmdirBegin(path, name)
       PROVE  Control'
  <2>1. ASSUME NEW c \in Contents, NEW len \in Lengths, CopyToBegin(path, name, c, len) PROVE Control'
    <3>1. run'.op = "mycopyTo" /\ run'.at = "read"
      BY <2>1, IdleIs DEF CopyToBegin, Runs
    <3> QED BY <3>1, <1>5
  <2>2. ASSUME RmBegin(path, name) PROVE Control'
    <3>1. run'.op = "myrm" /\ run'.at = "free"
      BY <2>2, IdleIs DEF RmBegin, Runs
    <3> QED BY <3>1, <1>6
  <2>3. ASSUME MkdirBegin(path, name) PROVE Control'
    <3>1. run'.op = "mymkdir" /\ run'.at = "init"
      BY <2>3, IdleIs DEF MkdirBegin, Runs
    <3> QED BY <3>1, <1>7
  <2>4. ASSUME RmdirBegin(path, name) PROVE Control'
    <3>1. run'.op = "myrmdir" /\ run'.at = "free"
      BY <2>4, IdleIs DEF RmdirBegin, Runs
    <3> QED BY <3>1, <1>8
  <2> QED BY <1>11, <2>1, <2>2, <2>3, <2>4
<1>12. CASE CopyToAllocate
  <2>1. run'.op = "mycopyTo" /\ run'.at = "write" /\ run'.left >= Capacity
    BY <1>1, <1>12 DEF CopyToAllocate, Runs
  <2> QED BY <2>1 DEF Control
<1>13. CASE CopyToWriteFull \/ CopyToWriteShort
  <2>1. run'.op = "mycopyTo" /\ run'.at = "read"
    BY <1>1, <1>13 DEF CopyToWriteFull, CopyToWriteShort, Runs
  <2> QED BY <2>1, <1>5
<1>14. CASE RmFreeBlock \/ RmSuper
  <2>1. run'.op = "myrm" /\ run'.at \in {"free", "entry"}
    BY <1>1, <1>14 DEF RmFreeBlock, RmSuper, Runs
  <2> QED BY <2>1, <1>6
<1>15. CASE MkdirInit \/ MkdirUndoBlock
  <2>1. run'.op = "mymkdir" /\ run'.at \in {"init", "entry", "undo"}
    BY <1>1, <1>15 DEF MkdirInit, MkdirUndoBlock, Runs
  <2> QED BY <2>1, <1>7
<1>16. CASE RmdirFreeBlock \/ RmdirSuper
  <2>1. run'.op = "myrmdir" /\ run'.at \in {"free", "super", "entry"}
    BY <1>1, <1>16 DEF RmdirFreeBlock, RmdirSuper, Runs
  <2> QED BY <2>1, <1>8
<1>17. CASE UNCHANGED vars \/ Refused
  BY <1>3, <1>17 DEF Refused, vars
<1> QED BY <1>9, <1>10, <1>11, <1>12, <1>13, <1>14, <1>15, <1>16, <1>17 DEF Next, Begin, Step

\* The image is not touched, formatted or left half formatted by a step that is
\* not one of mymkfs.
LEMMA StillFormatted ==
  ASSUME IInv, Next, ~MkfsSuper, ~MkfsRoot, ~MkfsList, ~MkfsLast, ~Kill
  PROVE  formatted /\ formatted' = formatted
<1>1. CASE Begin
  <2> QED BY <1>1 DEF Begin, CopyToBegin, RmBegin, MkdirBegin, RmdirBegin
<1>2. CASE Step
  <2>1. run.op \in {"mycopyTo", "myrm", "mymkdir", "myrmdir"} /\ formatted' = formatted
    BY <1>2 DEF Step, CopyToAllocate, CopyToNoSpace, CopyToWriteFull, CopyToWriteShort, CopyToEntry,
                CopyToDirFull, RmFreeBlock, RmSuper, RmEntry, MkdirInit, MkdirEntry, MkdirUndoBlock,
                MkdirUndoSuper, RmdirFreeBlock, RmdirSuper, RmdirEntry
  <2> QED BY <2>1, OnImage
<1>3. CASE Refused
  BY <1>3 DEF Refused, vars
<1> QED BY <1>1, <1>2, <1>3 DEF Next

\* The invariant depends on nothing but the variables.
LEMMA Unmoved ==
  ASSUME UNCHANGED vars
  PROVE  (Sound => Sound') /\ (Formatting => Formatting')
<1>1. /\ ffree' = ffree /\ disk' = disk /\ run' = run /\ tag' = tag /\ past' = past
      /\ Removal' = Removal /\ Making' = Making /\ Untried' = Untried
  BY DEF vars, Removal, Making, Untried
<1>2. \A d, s : First(d, s)' = First(d, s)
  BY <1>1 DEF First
<1>3. \A b : Directory(b)' = Directory(b)
  BY <1>1 DEF Directory
<1>4. \A type, d, s : IsEntry(type, d, s)' = IsEntry(type, d, s)
  BY <1>1, <1>3 DEF IsEntry, Targeted, Removal, Directory
<1>5. Pointers => Pointers'
  BY <1>1, <1>3 DEF Pointers
<1>6. FreeBlocks => FreeBlocks'
  BY <1>1 DEF FreeBlocks, On, Stops
<1>7. HeldBlocks => HeldBlocks'
  BY <1>1 DEF HeldBlocks, On, Stops
<1>8. FileBlocks => FileBlocks'
  BY <1>1, <1>2, <1>4 DEF FileBlocks, On, Stops
<1>9. DirBlocksOwned => DirBlocksOwned'
  BY <1>1, <1>2, <1>4 DEF DirBlocksOwned
<1>10. Target => Target'
  BY <1>1, <1>2 DEF Target
<1>11. NewName => NewName'
  BY <1>1, <1>3 DEF NewName
<1>12. Formatting => Formatting'
  BY <1>1 DEF Formatting
<1> QED BY <1>5, <1>6, <1>7, <1>8, <1>9, <1>10, <1>11, <1>12 DEF Sound

\* All steps of the commands that work on a formatted image.
LEMMA SoundStep ==
  ASSUME IInv, TypeOK', Next, ~MkfsSuper, ~MkfsRoot, ~MkfsList, ~MkfsLast, ~Kill
  PROVE  Sound'
<1>0. formatted /\ Sound
  BY StillFormatted DEF IInv, Sound
<1>1. CASE Begin
  <2>1. PICK path \in DirPaths, name \in Names :
          /\ AvoidsWrecks(path, name)
          /\ \/ \E c \in Contents, len \in Lengths : CopyToBegin(path, name, c, len)
             \/ RmBegin(path, name) \/ MkdirBegin(path, name) \/ RmdirBegin(path, name)
    BY <1>1 DEF Begin
  <2> QED BY <2>1, StepCopyToBegin, StepRmBegin, StepMkdirBegin, StepRmdirBegin
<1>2. CASE Step
  <2>1. CASE CopyToAllocate \/ CopyToNoSpace \/ CopyToDirFull \/ CopyToWriteFull \/ CopyToWriteShort
             \/ CopyToEntry
    BY <2>1, StepCopyToAllocate, StepCopyToGivesUp, StepCopyToWriteFull, StepCopyToWriteShort,
       StepCopyToEntry
  <2>2. CASE RmFreeBlock \/ RmSuper \/ RmEntry \/ RmdirFreeBlock \/ RmdirSuper \/ RmdirEntry
    BY <2>2, StepRmFreeBlock, StepSuper, StepCleared, StepRmdirFreeBlock
  <2>3. CASE MkdirInit \/ MkdirEntry \/ MkdirUndoBlock \/ MkdirUndoSuper
    BY <2>3, StepMkdirInit, StepMkdirEntry, StepMkdirUndoBlock, StepMkdirUndoSuper
  <2> QED BY <1>2, <2>1, <2>2, <2>3 DEF Step
<1>3. CASE Refused
  <2>1. UNCHANGED vars
    BY <1>3 DEF Refused
  <2> QED BY <1>0, <2>1, Unmoved
<1> QED BY <1>1, <1>2, <1>3 DEF Next

\* The invariant is inductive.
LEMMA Inductive == IInv /\ [Next]_vars => IInv'
<1> SUFFICES ASSUME IInv, [Next]_vars PROVE IInv'
  OBVIOUS
<1>1. TypeOK'
  BY TypeStep
<1>2. Control'
  BY <1>1, ControlStep
<1>3. NoFullBlocks'
  BY DEF IInv, NoFullBlocks
<1>4. (~formatted' => Formatting') /\ (formatted' => Sound') => IInv'
  BY <1>1, <1>2, <1>3 DEF IInv, Sound
<1>5. CASE UNCHANGED vars
  <2>1. formatted' <=> formatted
    BY <1>5 DEF vars
  <2>2. CASE formatted
    <3>1. Sound' /\ formatted'
      BY <1>5, <2>1, <2>2, Unmoved DEF IInv, Sound
    <3> QED BY <1>4, <3>1
  <2>3. CASE ~formatted
    <3>1. Formatting' /\ ~formatted'
      BY <1>5, <2>1, <2>3, Unmoved DEF IInv
    <3> QED BY <1>4, <3>1
  <2> QED BY <2>2, <2>3
<1>6. CASE MkfsSuper \/ MkfsRoot \/ MkfsList
  <2>1. ~formatted' /\ Formatting'
    BY <1>6, StepMkfs
  <2> QED BY <1>4, <2>1
<1>7. CASE MkfsLast
  <2>1. Sound' /\ formatted'
    BY <1>1, <1>7, StepMkfsLast DEF MkfsLast
  <2> QED BY <1>4, <2>1
<1>8. CASE Kill
  <2>1. CASE ~formatted
    <3>1. ~formatted' /\ Formatting'
      BY <1>8, <2>1, StepMkfsKilled
    <3> QED BY <1>4, <3>1
  <2>2. CASE formatted
    <3>1. Sound' /\ formatted' = formatted
      BY <1>1, <1>8, <2>2, StepKill, Killed
    <3> QED BY <1>4, <2>2, <3>1
  <2> QED BY <2>1, <2>2
<1>9. CASE Next /\ ~MkfsSuper /\ ~MkfsRoot /\ ~MkfsList /\ ~MkfsLast /\ ~Kill
  <2>1. Sound' /\ formatted'
    BY <1>1, <1>9, StillFormatted, SoundStep
  <2> QED BY <1>4, <2>1
<1> QED BY <1>5, <1>6, <1>7, <1>8, <1>9

\* The invariant holds of every behaviour in which no text fills its last block.
LEMMA Invariance == NoFullBlocks /\ Spec => []IInv
<1> SUFFICES ASSUME NoFullBlocks PROVE Spec => []IInv
  BY DEF NoFullBlocks
<1>1. Init => IInv
  BY Start
<1> QED BY <1>1, Inductive, PTL DEF Spec, Safety

-----------------------------------------------------------------------------
\* A chain of the model is the blocks on it, and ends or does not.
LEMMA ChainView ==
  ASSUME NEW x
  PROVE  ToSet(Chain(x)) = On(x) /\ (Ends(Chain(x)) <=> Stops(x))
BY ChainIs DEF ChainOn, On, Reach, Passed, Stops, Ended, Size, Length, Ends

\* The entries that OneOwner is about: those in use, and the one that is being
\* removed as long as nothing of it is freed.
InUse(type, d, s) ==
  \/ IsEntry(type, d, s)
  \/ /\ Removal /\ Untried /\ d = run.dir /\ s = run.slot
     /\ type = (IF run.op = "myrm" THEN 1 ELSE 2)

\* The entry a removal in progress has begun to take apart.
LEMMA VictimIs ==
  ASSUME IInv, formatted
  PROVE  Victim = IF Removal /\ ~Untried THEN <<run.dir, run.slot>> ELSE <<0, 0>>
<1>1. CASE ~Removal
  BY <1>1 DEF Victim, Removal
<1>2. CASE Removal /\ Untried
  BY <1>2 DEF Victim, Untried
<1>3. CASE Removal /\ ~Untried
  <2>1. \/ run.op = "myrmdir" /\ run.at # "free"
        \/ run.op = "myrm" /\ (run.at = "free" => run.cur # run.first)
    BY <1>3 DEF Untried, Removal
  <2> QED BY <1>3, <2>1 DEF Victim
<1> QED BY <1>1, <1>2, <1>3

\* The entries that the properties speak of are the ones in use.
LEMMA EntriesAre ==
  ASSUME IInv, formatted, NEW type \in {1, 2}
  PROVE  /\ EntriesOfType(type) \subseteq Blocks \X Slots
         /\ \A d \in Blocks, s \in Slots :
              /\ <<d, s>> \in EntriesOfType(type) <=> InUse(type, d, s)
              /\ At(<<d, s>>) = disk[d].slots[s]
<1>1. EntriesOfType(type) \subseteq Blocks \X Slots
  BY DEF EntriesOfType, DirBlocks
<1>2. ASSUME NEW d \in Blocks, NEW s \in Slots
      PROVE  <<d, s>> \in EntriesOfType(type) <=> InUse(type, d, s)
  <2>1. At(<<d, s>>).type = disk[d].slots[s].type /\ (<<d, s>> \in DirBlocks \X Slots <=> Directory(d))
    BY DEF At, DirBlocks, Directory
  <2>2. <<d, s>> \in EntriesOfType(type) <=>
          /\ Directory(d) /\ disk[d].slots[s].type = type
          /\ <<d, s>> \notin past.wrecks /\ <<d, s>> # Victim
    BY <2>1 DEF EntriesOfType
  <2>3. CASE ~Removal
    <3>1. Victim = <<0, 0>> /\ d # 0
      BY <2>3, VictimIs, SetFacts
    <3> QED BY <2>2, <2>3, <3>1 DEF InUse, IsEntry, Targeted
  <2>4. CASE Removal /\ ~Untried
    <3>1. Victim = <<run.dir, run.slot>>
      BY <2>4, VictimIs
    <3> QED BY <2>2, <2>4, <3>1 DEF InUse, IsEntry, Targeted
  <2>5. CASE Removal /\ Untried
    <3>1. Victim = <<0, 0>> /\ d # 0
      BY <2>5, VictimIs, SetFacts
    <3>2. /\ Directory(run.dir) /\ <<run.dir, run.slot>> \notin past.wrecks
          /\ disk[run.dir].slots[run.slot].type = (IF run.op = "myrm" THEN 1 ELSE 2)
      BY <2>5 DEF IInv, Pointers, Target
    <3> QED BY <2>2, <2>5, <3>1, <3>2 DEF InUse, IsEntry, Targeted
  <2> QED BY <2>3, <2>4, <2>5
<1> QED BY <1>1, <1>2 DEF At

\* The invariant, of all these entries.
LEMMA FilesInUse ==
  ASSUME IInv, formatted
  PROVE  /\ \A d \in Blocks, s \in Slots : InUse(1, d, s) =>
              /\ First(d, s) \in Blocks /\ Stops(First(d, s)) /\ On(First(d, s)) \subseteq Blocks
              /\ \A b \in On(First(d, s)) : tag[b] = "file"
         /\ \A d, e \in Blocks, s, t \in Slots :
              InUse(1, d, s) /\ InUse(1, e, t) /\ On(First(d, s)) \cap On(First(e, t)) # {} =>
                d = e /\ s = t
         /\ ~Removal => \A b \in Blocks : tag[b] = "file" =>
              \E d \in Blocks, s \in Slots : InUse(1, d, s) /\ b \in On(First(d, s))
<1>0. FileBlocks /\ Target /\ TypeOK
  BY DEF IInv
<1>1. ASSUME NEW d \in Blocks, NEW s \in Slots, InUse(1, d, s), ~IsEntry(1, d, s)
      PROVE  /\ run.op = "myrm" /\ d = run.dir /\ s = run.slot
             /\ First(d, s) = run.cur /\ First(d, s) \in Blocks
  <2>1. Removal /\ Untried /\ d = run.dir /\ s = run.slot /\ run.op = "myrm"
    BY <1>1 DEF InUse
  <2> QED BY <1>0, <2>1 DEF Target, Untried
<1>2. ASSUME NEW d \in Blocks, NEW s \in Slots, InUse(1, d, s)
      PROVE  /\ First(d, s) \in Blocks /\ Stops(First(d, s)) /\ On(First(d, s)) \subseteq Blocks
             /\ \A b \in On(First(d, s)) : tag[b] = "file"
  <2>1. /\ First(d, s) \in Blocks /\ Stops(First(d, s))
        /\ \A b \in On(First(d, s)) : tag[b] = "file"
    BY <1>0, <1>1, <1>2 DEF FileBlocks
  <2>2. PICK x \in Blocks : x = First(d, s)
    BY <2>1
  <2> QED BY <1>0, <2>1, <2>2, OnBlocks, Sizes
<1>3. ASSUME NEW d \in Blocks, NEW e \in Blocks, NEW s \in Slots, NEW t \in Slots,
             InUse(1, d, s), InUse(1, e, t), On(First(d, s)) \cap On(First(e, t)) # {}
      PROVE  d = e /\ s = t
  <2>1. PICK b \in On(First(d, s)) : b \in On(First(e, t))
    BY <1>3
  <2>2. CASE IsEntry(1, d, s) /\ IsEntry(1, e, t)
    BY <1>0, <2>1, <2>2 DEF FileBlocks
  <2>3. CASE ~IsEntry(1, d, s) /\ IsEntry(1, e, t)
    <3>1. run.op = "myrm" /\ First(d, s) = run.cur
      BY <1>1, <1>3, <2>3
    <3> QED BY <1>0, <2>1, <2>3, <3>1 DEF FileBlocks
  <2>4. CASE IsEntry(1, d, s) /\ ~IsEntry(1, e, t)
    <3>1. run.op = "myrm" /\ First(e, t) = run.cur
      BY <1>1, <1>3, <2>4
    <3> QED BY <1>0, <2>1, <2>4, <3>1 DEF FileBlocks
  <2>5. CASE ~IsEntry(1, d, s) /\ ~IsEntry(1, e, t)
    BY <1>1, <1>3, <2>5
  <2> QED BY <2>2, <2>3, <2>4, <2>5
<1>4. ASSUME ~Removal, NEW b \in Blocks, tag[b] = "file"
      PROVE  \E d \in Blocks, s \in Slots : InUse(1, d, s) /\ b \in On(First(d, s))
  <2>1. PICK d \in Blocks, s \in Slots : IsEntry(1, d, s) /\ b \in On(First(d, s))
    BY <1>0, <1>4 DEF FileBlocks, Removal
  <2> QED BY <2>1 DEF InUse
<1> QED BY <1>2, <1>3, <1>4

\* The same, of directories.
LEMMA DirsInUse ==
  ASSUME IInv, formatted
  PROVE  /\ \A d \in Blocks, s \in Slots : InUse(2, d, s) =>
              First(d, s) \in Blocks /\ tag[First(d, s)] = "dir"
         /\ \A d, e \in Blocks, s, t \in Slots :
              InUse(2, d, s) /\ InUse(2, e, t) /\ First(d, s) = First(e, t) => d = e /\ s = t
         /\ \A b \in Blocks : tag[b] = "dir" =>
              \E d \in Blocks, s \in Slots : InUse(2, d, s) /\ First(d, s) = b
<1>0. DirBlocksOwned /\ Target /\ TypeOK
  BY DEF IInv
<1>1. ASSUME NEW d \in Blocks, NEW s \in Slots, InUse(2, d, s), ~IsEntry(2, d, s)
      PROVE  /\ run.op = "myrmdir" /\ run.at = "free" /\ d = run.dir /\ s = run.slot
             /\ First(d, s) = run.first
  <2>1. Removal /\ Untried /\ d = run.dir /\ s = run.slot /\ run.op # "myrm"
    BY <1>1 DEF InUse
  <2> QED BY <1>0, <2>1 DEF Target, Untried, Removal
<1>2. ASSUME NEW d \in Blocks, NEW s \in Slots, InUse(2, d, s)
      PROVE  First(d, s) \in Blocks /\ tag[First(d, s)] = "dir"
  BY <1>0, <1>1, <1>2 DEF DirBlocksOwned
<1>3. ASSUME NEW d \in Blocks, NEW e \in Blocks, NEW s \in Slots, NEW t \in Slots,
             InUse(2, d, s), InUse(2, e, t), First(d, s) = First(e, t)
      PROVE  d = e /\ s = t
  <2>2. CASE IsEntry(2, d, s) /\ IsEntry(2, e, t)
    BY <1>0, <1>3, <2>2 DEF DirBlocksOwned
  <2>3. CASE ~IsEntry(2, d, s) /\ IsEntry(2, e, t)
    BY <1>0, <1>1, <1>3, <2>3 DEF DirBlocksOwned
  <2>4. CASE IsEntry(2, d, s) /\ ~IsEntry(2, e, t)
    BY <1>0, <1>1, <1>3, <2>4 DEF DirBlocksOwned
  <2>5. CASE ~IsEntry(2, d, s) /\ ~IsEntry(2, e, t)
    BY <1>1, <1>3, <2>5
  <2> QED BY <2>2, <2>3, <2>4, <2>5
<1>4. ASSUME NEW b \in Blocks, tag[b] = "dir"
      PROVE  \E d \in Blocks, s \in Slots : InUse(2, d, s) /\ First(d, s) = b
  <2>1. CASE \E d \in Blocks, s \in Slots : IsEntry(2, d, s) /\ First(d, s) = b
    BY <2>1 DEF InUse
  <2>2. CASE ~\E d \in Blocks, s \in Slots : IsEntry(2, d, s) /\ First(d, s) = b
    <3>1. run.op = "myrmdir" /\ run.at = "free" /\ b = run.first
      BY <1>0, <1>4, <2>2 DEF DirBlocksOwned
    <3>2. Removal /\ Untried
      BY <3>1 DEF Removal, Untried
    <3>3. First(run.dir, run.slot) = b /\ Directory(run.dir) /\ run.slot \in Slots
      BY <1>0, <3>1, <3>2, TypeFacts, RunFields DEF Target, IInv, Pointers
    <3>4. InUse(2, run.dir, run.slot)
      BY <3>1, <3>2 DEF InUse
    <3> QED BY <3>3, <3>4 DEF Directory
  <2> QED BY <2>1, <2>2
<1> QED BY <1>2, <1>3, <1>4

-----------------------------------------------------------------------------
\* The free list part of OneOwner.
LEMMA ListIsSound == ASSUME IInv, formatted PROVE FreeListSound
<1>0. /\ TypeOK /\ Pointers /\ FreeBlocks /\ HeldBlocks /\ FileBlocks /\ Control
      /\ ffree \in Ids /\ run.ff \in Ids
  BY TypeFacts, RunFields DEF IInv
<1> DEFINE undone == IF run.at = "undo" THEN {run.first} ELSE {}
<1>1. ASSUME NEW b \in Blocks,
             b \in DirBlocks \cup {c \in Blocks : tag[c] = "held"} \cup Removing
                     \cup (UNION {ToSet(ch) : ch \in FileChains})
      PROVE  tag[b] # "free"
  <2>1. CASE b \in Removing
    <3>1. run.op = "myrm" /\ b \in On(run.cur)
      BY <2>1, ChainView DEF Removing
    <3> QED BY <1>0, <3>1 DEF FileBlocks
  <2>2. CASE b \in UNION {ToSet(ch) : ch \in FileChains}
    <3>1. PICK f \in EntriesOfType(1) : b \in ToSet(Chain(At(f).first))
      BY <2>2 DEF FileChains
    <3>2. PICK d \in Blocks, s \in Slots : f = <<d, s>>
      BY <3>1, EntriesAre
    <3>3. InUse(1, d, s) /\ b \in On(First(d, s))
      BY <3>1, <3>2, EntriesAre, ChainView DEF First
    <3> QED BY <3>3, FilesInUse
  <2>3. CASE b \in DirBlocks \cup {c \in Blocks : tag[c] = "held"}
    BY <2>3 DEF DirBlocks
  <2> QED BY <1>1, <2>1, <2>2, <2>3
<1>2. ASSUME NEW x \in Ids, Stops(x), \A b \in On(x) : tag[b] = "free" \/ b \in undone
      PROVE  /\ Ends(Chain(x))
             /\ ToSet(Chain(x)) \cap
                  (DirBlocks \cup {b \in Blocks : tag[b] = "held"} \cup Removing
                     \cup UNION {ToSet(ch) : ch \in FileChains}) \subseteq undone
  <2>1. Ends(Chain(x)) /\ ToSet(Chain(x)) = On(x) /\ On(x) \subseteq Blocks
    BY <1>0, <1>2, ChainView, OnBlocks
  <2> HIDE DEF undone
  <2> QED BY <1>1, <1>2, <2>1
<1>3. Stops(ffree) /\ \A b \in On(ffree) : tag[b] = "free"
  BY <1>0 DEF FreeBlocks
<1>4. CASE Removal
  <2>1. FreeList = Chain(run.ff) /\ Stops(run.ff) /\ \A b \in On(run.ff) : tag[b] = "free"
    <3>1. On(run.ff) \subseteq Blocks
      BY <1>0, OnBlocks
    <3> QED BY <1>0, <1>4, <3>1 DEF FreeBlocks, FreeList, Removal
  <2> QED BY <1>0, <1>2, <1>3, <2>1 DEF FreeListSound
<1>5. CASE run.at = "undo" /\ ~Removal
  <2>1. run.op = "mymkdir"
    <3>1. run.op \in {"none", "mymkfs", "mycopyTo", "mymkdir"}
      BY <1>0, <1>5, TypeFacts, RunFields DEF Removal, Commands
    <3> QED BY <1>0, <1>5, <3>1, IdleIs DEF Control, Pointers
  <2>2. FreeList = Chain(run.ff) /\ Stops(run.ff) /\ \A b \in On(run.ff) : tag[b] = "free" \/ b \in undone
    <3>1. On(run.ff) \subseteq Blocks
      BY <1>0, OnBlocks
    <3> QED BY <1>0, <1>5, <2>1, <3>1 DEF FreeBlocks, FreeList
  <2> QED BY <1>0, <1>2, <1>3, <2>2 DEF FreeListSound
<1>6. CASE run.at # "undo" /\ ~Removal
  <2>1. FreeList = Chain(ffree)
    BY <1>6 DEF FreeList, Removal
  <2> QED BY <1>0, <1>2, <1>3, <2>1 DEF FreeListSound
<1> QED BY <1>4, <1>5, <1>6

\* The files part of OneOwner.
LEMMA FilesAreApart == ASSUME IInv, formatted PROVE ChainsDisjoint
<1>1. ASSUME NEW f \in EntriesOfType(1)
      PROVE  \E d \in Blocks, s \in Slots :
               /\ f = <<d, s>> /\ InUse(1, d, s)
               /\ Chain(At(f).first) = Chain(First(d, s))
  <2>1. PICK d \in Blocks, s \in Slots : f = <<d, s>>
    BY EntriesAre
  <2> QED BY <2>1, EntriesAre DEF First
<1>2. ASSUME NEW ch \in FileChains PROVE Ends(ch)
  <2>1. PICK f \in EntriesOfType(1) : ch = Chain(At(f).first)
    BY DEF FileChains
  <2>2. PICK d \in Blocks, s \in Slots : InUse(1, d, s) /\ ch = Chain(First(d, s))
    BY <1>1, <2>1
  <2> QED BY <2>2, FilesInUse, ChainView
<1>3. ASSUME NEW f \in EntriesOfType(1), NEW g \in EntriesOfType(1), f # g
      PROVE  ToSet(Chain(At(f).first)) \cap ToSet(Chain(At(g).first)) = {}
  <2>1. PICK d \in Blocks, s \in Slots :
          f = <<d, s>> /\ InUse(1, d, s) /\ Chain(At(f).first) = Chain(First(d, s))
    BY <1>1
  <2>2. PICK e \in Blocks, t \in Slots :
          g = <<e, t>> /\ InUse(1, e, t) /\ Chain(At(g).first) = Chain(First(e, t))
    BY <1>1
  <2>3. ToSet(Chain(First(d, s))) = On(First(d, s)) /\ ToSet(Chain(First(e, t))) = On(First(e, t))
    BY ChainView
  <2> QED BY <1>3, <2>1, <2>2, <2>3, FilesInUse
<1> QED BY <1>2, <1>3 DEF ChainsDisjoint

\* The directories part of OneOwner.
LEMMA DirsAreApart == ASSUME IInv, formatted PROVE DirectoriesOwned
<1>0. Root \in Blocks /\ \A b \in Blocks : tag[b] = "root" <=> b = Root
  BY SetFacts DEF IInv, Pointers
<1>1. ASSUME NEW f \in EntriesOfType(2)
      PROVE  \E d \in Blocks, s \in Slots : f = <<d, s>> /\ InUse(2, d, s) /\ At(f).first = First(d, s)
  <2>1. PICK d \in Blocks, s \in Slots : f = <<d, s>>
    BY EntriesAre
  <2> QED BY <2>1, EntriesAre DEF First
<1>2. ASSUME NEW f \in EntriesOfType(2), NEW g \in EntriesOfType(2), At(f).first = At(g).first
      PROVE  f = g
  BY <1>1, <1>2, DirsInUse
<1>3. ASSUME NEW f \in EntriesOfType(2) PROVE At(f).first \in DirBlocks \ {Root}
  <2>1. PICK d \in Blocks, s \in Slots : InUse(2, d, s) /\ At(f).first = First(d, s)
    BY <1>1
  <2>2. First(d, s) \in Blocks /\ tag[First(d, s)] = "dir"
    BY <2>1, DirsInUse
  <2> QED BY <1>0, <2>1, <2>2 DEF DirBlocks
<1>4. ASSUME NEW b \in DirBlocks \ {Root} PROVE b \in {At(f).first : f \in EntriesOfType(2)}
  <2>1. b \in Blocks /\ tag[b] = "dir"
    BY <1>0 DEF DirBlocks
  <2>2. PICK d \in Blocks, s \in Slots : InUse(2, d, s) /\ First(d, s) = b
    BY <2>1, DirsInUse
  <2>3. <<d, s>> \in EntriesOfType(2) /\ At(<<d, s>>).first = b
    BY <2>2, EntriesAre DEF First
  <2> QED BY <2>3
<1> QED BY <1>2, <1>3, <1>4 DEF DirectoriesOwned

\* The tags tell what became of each block.
LEMMA AllAccountedFor == ASSUME IInv PROVE NothingLost
<1> SUFFICES ASSUME formatted, run = Idle
             PROVE  {b \in Blocks : tag[b] # "lost"} =
                      {Root} \cup ToSet(FreeList)
                        \cup (UNION {ToSet(ch) : ch \in FileChains})
                        \cup {At(f).first : f \in EntriesOfType(2)}
  BY DEF NothingLost
<1>0. /\ TypeOK /\ FreeBlocks /\ HeldBlocks /\ Pointers /\ ffree \in Ids
      /\ tag \in [Blocks -> Tags] /\ ~Removal /\ ~Making /\ run.at = "none" /\ Root \in Blocks
  BY TypeFacts, IdleIs, SetFacts DEF IInv, Removal, Making
<1>1. ToSet(FreeList) = {b \in Blocks : tag[b] = "free"}
  <2>1. ToSet(FreeList) = On(ffree) /\ On(ffree) \subseteq Blocks
    BY <1>0, ChainView, OnBlocks DEF FreeList, Removal
  <2> QED BY <1>0, <2>1 DEF FreeBlocks
<1>2. {At(f).first : f \in EntriesOfType(2)} = {b \in Blocks : tag[b] = "dir"}
  <2>1. {At(f).first : f \in EntriesOfType(2)} = DirBlocks \ {Root}
    BY DirsAreApart DEF DirectoriesOwned
  <2> QED BY <1>0, <2>1 DEF DirBlocks, Pointers
<1>3. (UNION {ToSet(ch) : ch \in FileChains}) = {b \in Blocks : tag[b] = "file"}
  <2>1. ASSUME NEW b \in UNION {ToSet(ch) : ch \in FileChains} PROVE b \in Blocks /\ tag[b] = "file"
    <3>1. PICK f \in EntriesOfType(1) : b \in ToSet(Chain(At(f).first))
      BY <2>1 DEF FileChains
    <3>2. PICK d \in Blocks, s \in Slots : f = <<d, s>>
      BY <3>1, EntriesAre
    <3>3. InUse(1, d, s) /\ b \in On(First(d, s))
      BY <3>1, <3>2, EntriesAre, ChainView DEF First
    <3> QED BY <3>3, FilesInUse
  <2>2. ASSUME NEW b \in Blocks, tag[b] = "file" PROVE b \in UNION {ToSet(ch) : ch \in FileChains}
    <3>1. PICK d \in Blocks, s \in Slots : InUse(1, d, s) /\ b \in On(First(d, s))
      BY <1>0, <2>2, FilesInUse
    <3>2. <<d, s>> \in EntriesOfType(1) /\ b \in ToSet(Chain(At(<<d, s>>).first))
      BY <3>1, EntriesAre, ChainView DEF First
    <3> QED BY <3>2 DEF FileChains
  <2> QED BY <2>1, <2>2
<1>4. \A b \in Blocks : tag[b] \in {"root", "free", "file", "dir", "lost"} /\ (tag[b] = "root" <=> b = Root)
  BY <1>0 DEF HeldBlocks, Pointers, Tags
<1> QED BY <1>0, <1>1, <1>2, <1>3, <1>4

\* The names in the entries in use.
LEMMA NamesApart == ASSUME IInv, WholeNames PROVE NamesUnique
<1> SUFFICES ASSUME formatted, NEW f \in EntriesOfType(1) \cup EntriesOfType(2),
                    NEW g \in EntriesOfType(1) \cup EntriesOfType(2), f # g, f[1] = g[1]
             PROVE  At(f).name # At(g).name
  BY DEF NamesUnique
<1>1. ASSUME NEW h \in EntriesOfType(1) \cup EntriesOfType(2)
      PROVE  \E d \in Blocks, s \in Slots : /\ h = <<d, s>> /\ Directory(d) /\ At(h) = disk[d].slots[s]
                                            /\ disk[d].slots[s].type \in {1, 2}
  <2>1. PICK d \in Blocks, s \in Slots : h = <<d, s>>
    BY EntriesAre
  <2>2. At(h) = disk[d].slots[s]
    BY <2>1, EntriesAre
  <2>3. d \in DirBlocks /\ At(h).type \in {1, 2}
    BY <2>1 DEF EntriesOfType
  <2> QED BY <2>1, <2>2, <2>3 DEF DirBlocks, Directory
<1>2. PICK d \in Blocks, s \in Slots : /\ f = <<d, s>> /\ Directory(d) /\ At(f) = disk[d].slots[s]
                                       /\ disk[d].slots[s].type \in {1, 2}
  BY <1>1
<1>3. PICK t \in Slots : g = <<d, t>> /\ At(g) = disk[d].slots[t] /\ disk[d].slots[t].type \in {1, 2}
  BY <1>1, <1>2
<1>4. s # t
  BY <1>2, <1>3
<1> QED BY <1>2, <1>3, <1>4 DEF IInv, NewName
-----------------------------------------------------------------------------
\* The state has its type: in particular every number of a block that a command
\* follows is one of the image, or 0.
THEOREM Typing == NoFullBlocks /\ Spec => []TypeOK
BY Invariance, PTL DEF IInv

\* No block has two owners, whatever the size of the image, with kills between any
\* two writes and mymkfs on an image in use: what get_free_block hands out nobody
\* else uses, what myrm and myrmdir free no other path leads to, and every chain
\* ends.
THEOREM BlocksHaveOneOwner == NoFullBlocks /\ Spec => []OneOwner
<1>1. IInv => OneOwner
  BY ListIsSound, FilesAreApart, DirsAreApart DEF OneOwner
<1> QED BY <1>1, Invariance, PTL

\* No block disappears: between commands each is the root, free, in a file, a
\* directory, or was lost where the code gives blocks up or a command was killed.
THEOREM BlocksAccountedFor == NoFullBlocks /\ Spec => []NothingLost
<1>1. IInv => NothingLost
  BY AllAccountedFor
<1> QED BY <1>1, Invariance, PTL

\* The checks of mycopyTo and mymkdir (lines 249 and 596) keep the names in a
\* directory apart, if entries hold names to their last character.
THEOREM NamesAreUnique == NoFullBlocks /\ WholeNames /\ Spec => []NamesUnique
<1> SUFFICES ASSUME WholeNames PROVE NoFullBlocks /\ Spec => []NamesUnique
  BY DEF WholeNames
<1>1. IInv => NamesUnique
  BY NamesApart
<1> QED BY <1>1, Invariance, PTL

\* myrm frees blocks of files only, never one that is on the free list already;
\* the run full_blocks shows that without NoFullBlocks it does.
THEOREM OwnBlocksFreed == NoFullBlocks /\ Spec => RmFreesFileBlocks
<1>1. IInv /\ [Next]_vars => [RmFreeBlock => tag[run.cur] = "file"]_vars
  <2> SUFFICES ASSUME IInv, RmFreeBlock PROVE tag[run.cur] = "file"
    OBVIOUS
  <2>1. /\ run.op = "myrm" /\ run.cur # 0 /\ TypeOK /\ Pointers /\ FileBlocks
    BY OnImage DEF RmFreeBlock, IInv
  <2>2. run.cur \in Blocks
    BY <2>1 DEF Pointers, Ids0
  <2>3. run.cur \in On(run.cur)
    BY <2>1, <2>2, OnBlocks, Sizes
  <2> QED BY <2>1, <2>3 DEF FileBlocks
<1> QED BY <1>1, Invariance, PTL DEF Spec, Safety, RmFreesFileBlocks

-----------------------------------------------------------------------------
\* A view of an image: the entry of each name in each directory, Unused where
\* there is none.  Look follows a path in a view from entry to entry; u is what
\* the rule makes of w, k tokens far.
RootEntry == Entry(2, NoName, Root, 0)
Token(v, e, name) == IF e.type = 2 THEN v[e.first][name] ELSE Unused
Looks(v, p, k, w, u) ==
  u = [i \in 0 .. k |-> IF i = 0 THEN RootEntry ELSE Token(v, w[i - 1], p[i])]
Look(v, p) == (CHOOSE w : Looks(v, p, Len(p), w, w))[Len(p)]

\* The entries are of files and directories; those of directories lead to
\* different blocks, and none to the root.
Treelike(v) ==
  /\ \A b \in Blocks, n \in Names : v[b][n].type \in {0, 1, 2}
  /\ \A b \in Blocks, n \in Names : v[b][n].type = 2 => v[b][n].first \in Blocks \ {Root}
  /\ \A b, c \in Blocks, m, n \in Names :
       v[b][m].type = 2 /\ v[c][n].type = 2 /\ v[b][m].first = v[c][n].first => b = c /\ m = n

\* One entry of a walk along a path that follows the rule.
LEMMA LooksAt ==
  ASSUME NEW v, NEW p, NEW k, NEW w, NEW u, Looks(v, p, k, w, u), NEW i \in 0 .. k
  PROVE  u[i] = IF i = 0 THEN RootEntry ELSE Token(v, w[i - 1], p[i])
BY DEF Looks

\* The same, of a walk that is defined by itself.
LEMMA LooksSelf ==
  ASSUME NEW v, NEW p, NEW k, NEW w, Looks(v, p, k, w, w), NEW i \in 0 .. k
  PROVE  w[i] = IF i = 0 THEN RootEntry ELSE Token(v, w[i - 1], p[i])
BY LooksAt

\* The walk along a path exists.
LEMMA LooksExists ==
  ASSUME NEW v, NEW p, NEW k \in Nat
  PROVE  \E w : Looks(v, p, k, w, w)
<1> DEFINE T == {n \in Nat : \E w : Looks(v, p, n, w, w)}
<1>1. 0 \in T
  <2> DEFINE w == [i \in 0 .. 0 |-> RootEntry]
  <2>1. Looks(v, p, 0, w, w)
    BY DEF Looks
  <2> QED BY <2>1
<1>2. ASSUME NEW n \in Nat, n \in T PROVE n + 1 \in T
  <2>1. PICK w : Looks(v, p, n, w, w)
    BY <1>2
  <2> DEFINE next == Token(v, w[n], p[n + 1])
             u == [i \in 0 .. n + 1 |-> IF i <= n THEN w[i] ELSE next]
             g == [i \in 0 .. n + 1 |-> IF i = 0 THEN RootEntry ELSE Token(v, u[i - 1], p[i])]
  <2>2. ASSUME NEW i \in 0 .. n + 1 PROVE u[i] = g[i]
    <3>0. g[i] = IF i = 0 THEN RootEntry ELSE Token(v, u[i - 1], p[i])
      OBVIOUS
    <3>1. CASE i <= n
      <4>1. u[i] = w[i] /\ (i # 0 => u[i - 1] = w[i - 1]) /\ i \in 0 .. n
        BY <3>1
      <4> HIDE DEF u, g, T, next
      <4>2. w[i] = IF i = 0 THEN RootEntry ELSE Token(v, w[i - 1], p[i])
        BY <2>1, <4>1, LooksSelf
      <4> QED BY <3>0, <4>1, <4>2
    <3>2. CASE i = n + 1
      <4>1. u[i - 1] = w[n] /\ u[i] = next /\ i # 0
        BY <3>2
      <4> HIDE DEF u, g
      <4> QED BY <3>0, <3>2, <4>1
    <3> QED BY <3>1, <3>2
  <2>3. u = g
    <3>1. u = [i \in 0 .. n + 1 |-> u[i]] /\ g = [i \in 0 .. n + 1 |-> g[i]]
      OBVIOUS
    <3> HIDE DEF u, g
    <3> QED BY <2>2, <3>1
  <2>4. Looks(v, p, n + 1, u, u)
    BY <2>3 DEF Looks
  <2> QED BY <2>4
<1> HIDE DEF T
<1>3. k \in T
  BY <1>1, <1>2, Induct
<1> QED BY <1>3 DEF T

\* What a path leads to, token by token.
LEMMA LookRoot == ASSUME NEW v PROVE Look(v, <<>>) = RootEntry
<1>1. PICK w : w = CHOOSE u : Looks(v, <<>>, Len(<<>>), u, u)
  OBVIOUS
<1>2. Looks(v, <<>>, Len(<<>>), w, w)
  BY <1>1, LooksExists
<1>3. Len(<<>>) = 0 /\ 0 \in 0 .. Len(<<>>)
  OBVIOUS
<1>4. w[0] = RootEntry
  BY <1>2, <1>3, LooksSelf
<1> QED BY <1>1, <1>3, <1>4 DEF Look

\* The same for one token more.
LEMMA LookAppend ==
  ASSUME NEW v, NEW p \in Seq(Names), NEW n \in Names
  PROVE  Look(v, Append(p, n)) = Token(v, Look(v, p), n)
<1>1. PICK q \in Seq(Names) : /\ q = Append(p, n) /\ Len(q) = Len(p) + 1 /\ q[Len(p) + 1] = n
                              /\ \A i \in 1 .. Len(p) : q[i] = p[i]
  <2>1. /\ Append(p, n) \in Seq(Names) /\ Len(Append(p, n)) = Len(p) + 1
        /\ \A i \in 1 .. Len(p) : Append(p, n)[i] = p[i]
        /\ Append(p, n)[Len(p) + 1] = n
    BY AppendProperties
  <2> QED BY <2>1
<1>2. PICK k \in Nat : k = Len(p) /\ Len(q) = k + 1
  BY <1>1, LenProperties
<1>3. PICK w : w = CHOOSE u : Looks(v, p, Len(p), u, u)
  OBVIOUS
<1>4. PICK x : x = CHOOSE u : Looks(v, q, Len(q), u, u)
  OBVIOUS
<1>5. Looks(v, p, k, w, w)
  BY <1>2, <1>3, LooksExists
<1>6. Looks(v, q, k + 1, x, x)
  <2>1. k + 1 \in Nat
    OBVIOUS
  <2>2. \E u : Looks(v, q, k + 1, u, u)
    BY <2>1, LooksExists
  <2> QED BY <1>2, <1>4, <2>2
<1> DEFINE T == {i \in Nat : i <= k => x[i] = w[i]}
<1>7. 0 \in T
  <2>1. 0 \in 0 .. k /\ 0 \in 0 .. k + 1
    OBVIOUS
  <2>2. x[0] = RootEntry /\ w[0] = RootEntry
    BY <1>5, <1>6, <2>1, LooksSelf
  <2> QED BY <2>2
<1>8. ASSUME NEW i \in Nat, i \in T PROVE i + 1 \in T
  <2> SUFFICES ASSUME i + 1 <= k PROVE x[i + 1] = w[i + 1]
    OBVIOUS
  <2>1. PICK j \in Nat : j = i + 1 /\ j # 0 /\ j - 1 = i
    OBVIOUS
  <2>2. j \in 0 .. k /\ j \in 0 .. k + 1 /\ q[j] = p[j]
    BY <1>1, <1>2, <2>1
  <2>3. x[i] = w[i]
    BY <1>8
  <2> HIDE DEF T
  <2>4. x[j] = Token(v, x[j - 1], q[j])
    BY <1>6, <2>1, <2>2, LooksSelf
  <2>5. w[j] = Token(v, w[j - 1], p[j])
    BY <1>5, <2>1, <2>2, LooksSelf
  <2> QED BY <2>1, <2>2, <2>3, <2>4, <2>5
<1>9. x[k] = w[k]
  <2>1. k \in T
    <3> HIDE DEF T
    <3> QED BY <1>7, <1>8, Induct
  <2> QED BY <2>1
<1> HIDE DEF T
<1>10. PICK j \in Nat : j = k + 1 /\ j # 0 /\ j - 1 = k /\ j \in 0 .. k + 1 /\ q[j] = n
  BY <1>1, <1>2
<1>11. x[j] = Token(v, x[j - 1], q[j])
  BY <1>6, <1>10, LooksSelf
<1> QED BY <1>1, <1>2, <1>3, <1>4, <1>9, <1>10, <1>11 DEF Look

\* Induction along a path, over a set of paths instead of a predicate.
LEMMA PathInduct ==
  ASSUME NEW T, <<>> \in T, \A p \in Seq(Names), n \in Names : p \in T => Append(p, n) \in T
  PROVE  Seq(Names) \subseteq T
<1> DEFINE U == {k \in Nat : \A p \in Seq(Names) : Len(p) = k => p \in T}
<1>1. 0 \in U
  BY EmptySeq
<1>2. ASSUME NEW k \in Nat, k \in U PROVE k + 1 \in U
  <2> SUFFICES ASSUME NEW p \in Seq(Names), Len(p) = k + 1 PROVE p \in T
    OBVIOUS
  <2>1. p # <<>>
    BY EmptySeq
  <2>2. PICK q \in Seq(Names), n \in Names : p = Append(q, n)
    BY <2>1, SequenceEmptyOrAppend
  <2>3. Len(p) = Len(q) + 1 /\ Len(q) \in Nat
    BY <2>2, AppendProperties, LenProperties
  <2>4. q \in T
    BY <1>2, <2>3
  <2> QED BY <2>2, <2>4
<1>3. Nat \subseteq U
  <2> HIDE DEF U
  <2> QED BY <1>1, <1>2, Induct
<1>4. ASSUME NEW p \in Seq(Names) PROVE p \in T
  <2>1. Len(p) \in U
    <3> HIDE DEF U
    <3> QED BY <1>3, LenProperties
  <2> QED BY <2>1
<1> QED BY <1>4

\* A path that leads to a directory leads to a block; only the empty one to the
\* root.
LEMMA LookBlock ==
  ASSUME NEW v, Treelike(v)
  PROVE  \A p \in Seq(Names) : Look(v, p).type = 2 => Look(v, p).first \in Blocks
<1> DEFINE T == {p \in Seq(Names) : Look(v, p).type = 2 => Look(v, p).first \in Blocks}
<1>1. <<>> \in T
  BY LookRoot, SetFacts, EmptySeq DEF RootEntry, Entry
<1>2. ASSUME NEW p \in Seq(Names), NEW n \in Names, p \in T PROVE Append(p, n) \in T
  <2>1. Append(p, n) \in Seq(Names)
    BY AppendProperties
  <2>2. Look(v, Append(p, n)) = Token(v, Look(v, p), n)
    BY LookAppend
  <2>3. CASE Look(v, p).type = 2
    BY <1>2, <2>1, <2>2, <2>3 DEF Token, Treelike
  <2>4. CASE Look(v, p).type # 2
    BY <2>1, <2>2, <2>4 DEF Token, Unused, Entry
  <2> QED BY <2>3, <2>4
<1> HIDE DEF T
<1>3. Seq(Names) \subseteq T
  BY <1>1, <1>2, PathInduct
<1> QED BY <1>3 DEF T

\* The last token of a path that leads somewhere.
LEMMA LookLast ==
  ASSUME NEW v, Treelike(v), NEW p \in Seq(Names), NEW n \in Names, Look(v, Append(p, n)).type # 0
  PROVE  /\ Look(v, p).type = 2 /\ Look(v, p).first \in Blocks
         /\ Look(v, Append(p, n)) = v[Look(v, p).first][n]
<1>1. Look(v, Append(p, n)) = Token(v, Look(v, p), n)
  BY LookAppend
<1>2. Look(v, p).type = 2
  BY <1>1 DEF Token, Unused, Entry
<1> QED BY <1>1, <1>2, LookBlock DEF Token

\* One path leads to a directory.
LEMMA OnePath ==
  ASSUME NEW v, Treelike(v)
  PROVE  \A p, q \in Seq(Names) :
           /\ Look(v, p).type = 2 /\ Look(v, q).type = 2 /\ Look(v, p).first = Look(v, q).first
           => p = q
<1> DEFINE P(p, q) == Look(v, p).type = 2 /\ Look(v, q).type = 2 /\ Look(v, p).first = Look(v, q).first
           T == {p \in Seq(Names) : \A q \in Seq(Names) : P(p, q) => p = q}
<1>0. ASSUME NEW p \in Seq(Names), NEW n \in Names, Look(v, Append(p, n)).type = 2
      PROVE  Look(v, Append(p, n)).first # Look(v, <<>>).first
  <2>0. Look(v, p).first \in Blocks /\ Look(v, Append(p, n)) = v[Look(v, p).first][n]
    BY <1>0, LookLast
  <2>1. Look(v, Append(p, n)).first \in Blocks \ {Root}
    BY <1>0, <2>0 DEF Treelike
  <2> QED BY <2>1, LookRoot DEF RootEntry, Entry
<1>1. <<>> \in T
  <2> SUFFICES ASSUME NEW q \in Seq(Names), P(<<>>, q) PROVE q = <<>>
    BY EmptySeq
  <2>1. CASE q # <<>>
    <3>1. PICK p \in Seq(Names), n \in Names : q = Append(p, n)
      BY <2>1, SequenceEmptyOrAppend
    <3> QED BY <1>0, <3>1
  <2> QED BY <2>1
<1>2. ASSUME NEW p \in Seq(Names), NEW m \in Names, p \in T PROVE Append(p, m) \in T
  <2>0. Append(p, m) \in Seq(Names)
    BY AppendProperties
  <2> SUFFICES ASSUME NEW q \in Seq(Names), P(Append(p, m), q) PROVE Append(p, m) = q
    BY <2>0
  <2>1. q # <<>>
    BY <1>0
  <2>2. PICK r \in Seq(Names), n \in Names : q = Append(r, n)
    BY <2>1, SequenceEmptyOrAppend
  <2>3. /\ Look(v, p).type = 2 /\ Look(v, p).first \in Blocks
        /\ Look(v, Append(p, m)) = v[Look(v, p).first][m]
    BY LookLast
  <2>4. /\ Look(v, r).type = 2 /\ Look(v, r).first \in Blocks
        /\ Look(v, q) = v[Look(v, r).first][n]
    BY <2>2, LookLast
  <2>5. Look(v, p).first = Look(v, r).first /\ m = n
    BY <2>3, <2>4 DEF Treelike
  <2>6. p = r
    BY <1>2, <2>3, <2>4, <2>5
  <2> QED BY <2>2, <2>5, <2>6
<1> HIDE DEF T
<1>3. Seq(Names) \subseteq T
  BY <1>1, <1>2, PathInduct
<1> QED BY <1>3 DEF T

-----------------------------------------------------------------------------
\* The view w is v with one more entry e, under the name n in directory b; if it
\* is of a directory, that is empty.
OneMore(v, w, b, n, e) ==
  /\ v[b][n] = Unused /\ w[b][n] = e /\ e.type \in {1, 2}
  /\ \A c \in Blocks, m \in Names : c # b \/ m # n => w[c][m] = v[c][m]
  /\ e.type = 2 => \A m \in Names : w[e.first][m] = Unused

\* What one more entry changes: the paths that led somewhere lead there still,
\* and only a path to the directory, with the name, leads to something new.
LEMMA LookMore ==
  ASSUME NEW v, NEW w, Treelike(v), Treelike(w), NEW b \in Blocks, NEW n \in Names, NEW e,
         OneMore(v, w, b, n, e)
  PROVE  \A q \in Seq(Names) :
           /\ Look(v, q).type # 0 => Look(w, q) = Look(v, q)
           /\ Look(v, q).type = 0 /\ Look(w, q).type # 0 =>
                /\ Look(w, q) = e
                /\ \E p \in Seq(Names) : q = Append(p, n) /\ Look(v, p).type = 2 /\ Look(v, p).first = b
<1> DEFINE Old(q) == Look(v, q).type # 0 => Look(w, q) = Look(v, q)
           New(q) == Look(v, q).type = 0 /\ Look(w, q).type # 0 =>
                       /\ Look(w, q) = e
                       /\ \E p \in Seq(Names) :
                            q = Append(p, n) /\ Look(v, p).type = 2 /\ Look(v, p).first = b
           T == {q \in Seq(Names) : Old(q) /\ New(q)}
<1>1. <<>> \in T
  <2>1. Look(v, <<>>) = RootEntry /\ Look(w, <<>>) = RootEntry /\ RootEntry.type # 0
    BY LookRoot DEF RootEntry, Entry
  <2> QED BY <2>1, EmptySeq
<1>2. ASSUME NEW p \in Seq(Names), NEW m \in Names, p \in T PROVE Append(p, m) \in T
  <2>1. PICK q \in Seq(Names) : q = Append(p, m)
    BY AppendProperties
  <2>2. Look(v, q) = Token(v, Look(v, p), m) /\ Look(w, q) = Token(w, Look(w, p), m)
    BY <2>1, LookAppend
  <2>3. Old(p) /\ New(p)
    BY <1>2
  <2>4. CASE Look(v, p).type = 2
    <3>1. Look(w, p) = Look(v, p) /\ Look(v, p).first \in Blocks
      BY <2>3, <2>4, LookBlock
    <3>2. PICK c \in Blocks : c = Look(v, p).first
      BY <3>1
    <3>3. Look(v, q) = v[c][m] /\ Look(w, q) = w[c][m]
      BY <2>2, <2>4, <3>1, <3>2 DEF Token
    <3>4. CASE c = b /\ m = n
      <4>1. Look(v, q).type = 0 /\ Look(w, q) = e
        BY <3>3, <3>4 DEF OneMore, Unused, Entry
      <4>2. q = Append(p, n) /\ Look(v, p).type = 2 /\ Look(v, p).first = b
        BY <2>1, <2>4, <3>2, <3>4
      <4> QED BY <2>1, <4>1, <4>2
    <3>5. CASE ~(c = b /\ m = n)
      <4>1. w[c][m] = v[c][m]
        BY <3>5 DEF OneMore
      <4> QED BY <2>1, <3>3, <4>1
    <3> QED BY <3>4, <3>5
  <2>5. CASE Look(v, p).type # 2 /\ Look(v, p).type # 0
    <3>1. Look(w, p) = Look(v, p)
      BY <2>3, <2>5
    <3>2. Look(v, q).type = 0 /\ Look(w, q).type = 0
      BY <2>2, <2>5, <3>1 DEF Token, Unused, Entry
    <3> QED BY <2>1, <3>2
  <2>6. CASE Look(v, p).type = 0
    <3>1. Look(v, q).type = 0
      BY <2>2, <2>6 DEF Token, Unused, Entry
    <3>2. Look(w, q).type = 0
      <4>1. CASE Look(w, p).type # 2
        BY <2>2, <4>1 DEF Token, Unused, Entry
      <4>2. CASE Look(w, p).type = 2
        <5>1. Look(w, p) = e
          BY <2>3, <2>6, <4>2
        <5>2. Look(w, q) = Unused
          BY <2>2, <4>2, <5>1 DEF Token, OneMore
        <5> QED BY <5>2 DEF Unused, Entry
      <4> QED BY <4>1, <4>2
    <3> QED BY <2>1, <3>1, <3>2
  <2> QED BY <2>4, <2>5, <2>6
<1> HIDE DEF T, Old, New
<1>3. Seq(Names) \subseteq T
  BY <1>1, <1>2, PathInduct
<1>4. \A q \in Seq(Names) : Old(q) /\ New(q)
  BY <1>3 DEF T
<1> QED BY <1>4 DEF Old, New

\* What a path leads to is a file, a directory or nothing.
LEMMA LookTypes ==
  ASSUME NEW v, Treelike(v), NEW q \in Seq(Names)
  PROVE  /\ Look(v, q).type \in {0, 1, 2}
         /\ Look(v, q).type = 1 => \E c \in Blocks, m \in Names : Look(v, q) = v[c][m]
<1>1. CASE q = <<>>
  BY <1>1, LookRoot DEF RootEntry, Entry
<1>2. CASE q # <<>>
  <2>1. PICK p \in Seq(Names), n \in Names : q = Append(p, n)
    BY <1>2, SequenceEmptyOrAppend
  <2>2. CASE Look(v, q).type = 0
    BY <2>2
  <2>3. CASE Look(v, q).type # 0
    <3>1. Look(v, p).first \in Blocks /\ Look(v, q) = v[Look(v, p).first][n]
      BY <2>1, <2>3, LookLast
    <3> QED BY <3>1 DEF Treelike
  <2> QED BY <2>2, <2>3
<1> QED BY <1>1, <1>2
-----------------------------------------------------------------------------
\* The tree that a user sees in a view, T being the text at each first block.
NodeOf(q, e, T) ==
  [path |-> q, dir |-> e.type = 2, text |-> IF e.type = 2 THEN NoContent ELSE T[e.first],
   len |-> e.size]
Led(v) == {q \in Paths : Look(v, q).type # 0}
TreeOf(v, T) == {NodeOf(q, Look(v, q), T) : q \in Led(v)}

\* The paths that the user types lead through directories whose paths he types.
PathsClosed ==
  \A p \in DirPaths : p = <<>> \/ \E q \in DirPaths, name \in Names : p = Append(q, name)

\* The paths of the tree are paths of names, and closed towards the root.
LEMMA PathsAre ==
  ASSUME WholeNames, PathsClosed
  PROVE  /\ Paths \subseteq Seq(Names)
         /\ \A p \in Seq(Names), n \in Names : Append(p, n) \in Paths => p \in Paths
<1>1. \A path \in DirPaths, name \in Names :
        path \in Seq(Names) /\ Stored[name] = name /\ Append(path, Stored[name]) \in Seq(Names)
  BY NamesAssumption, AppendProperties DEF WholeNames
<1>2. Paths \subseteq Seq(Names)
  <2>1. <<>> \in Seq(Names)
    BY EmptySeq
  <2>2. ASSUME NEW q \in Paths PROVE q \in Seq(Names)
    <3>1. CASE q = <<>>
      BY <2>1, <3>1
    <3>2. CASE q # <<>>
      <4>1. PICK path \in DirPaths, name \in Names : q = Append(path, Stored[name])
        BY <3>2 DEF Paths
      <4> QED BY <1>1, <4>1
    <3> QED BY <3>1, <3>2
  <2> QED BY <2>2
<1>3. ASSUME NEW p \in Seq(Names), NEW n \in Names, Append(p, n) \in Paths PROVE p \in Paths
  <2>1. Append(p, n) # <<>>
    BY AppendProperties
  <2>2. PICK path \in DirPaths, name \in Names : Append(p, n) = Append(path, Stored[name])
    BY <1>3, <2>1 DEF Paths
  <2>3. path \in Seq(Names) /\ Stored[name] \in Names
    BY <1>1
  <2>4. p = path
    BY <2>2, <2>3, AppendInjective
  <2>5. CASE p = <<>>
    BY <2>5 DEF Paths
  <2>6. CASE p # <<>>
    <3>1. PICK q \in DirPaths, m \in Names : p = Append(q, m)
      BY <2>4, <2>6 DEF PathsClosed
    <3>2. Append(q, Stored[m]) \in Paths
      BY DEF Paths
    <3> QED BY <1>1, <3>1, <3>2
  <2> QED BY <2>5, <2>6
<1> QED BY <1>2, <1>3

\* The texts U agree with the texts T on the files of the view.
SameTexts(v, T, U) ==
  \A c \in Blocks, m \in Names : v[c][m].type = 1 => U[v[c][m].first] = T[v[c][m].first]

\* Texts that agree on the files of a view make the same nodes.
LEMMA NodesKept ==
  ASSUME NEW v, Treelike(v), NEW T, NEW U, SameTexts(v, T, U), NEW q \in Seq(Names),
         Look(v, q).type # 0
  PROVE  NodeOf(q, Look(v, q), U) = NodeOf(q, Look(v, q), T)
<1>1. CASE Look(v, q).type = 2
  BY <1>1 DEF NodeOf
<1>2. CASE Look(v, q).type = 1
  <2>1. PICK c \in Blocks, m \in Names : Look(v, q) = v[c][m]
    BY <1>2, LookTypes
  <2> QED BY <1>2, <2>1 DEF NodeOf, SameTexts
<1> QED BY <1>1, <1>2, LookTypes

\* The node d of the tree t is new: it is in a directory of u, at a path that u has
\* not.
Grown(u, t, d, p) ==
  /\ \E m \in u : m.path = p /\ m.dir
  /\ \A m \in u : m.path # d.path
  /\ t = u \cup {d}

\* One more entry in a view is one more node in the tree, if any path that the
\* user types leads to it.
LEMMA TreeMore ==
  ASSUME WholeNames, PathsClosed,
         NEW v, NEW w, Treelike(v), Treelike(w), NEW b \in Blocks, NEW n \in Names, NEW e,
         OneMore(v, w, b, n, e), NEW T, NEW U, SameTexts(v, T, U)
  PROVE  \/ TreeOf(w, U) = TreeOf(v, T)
         \/ \E p \in Seq(Names) :
              /\ Append(p, n) \in Paths /\ Look(w, Append(p, n)) = e
              /\ Grown(TreeOf(v, T), TreeOf(w, U), NodeOf(Append(p, n), e, U), p)
<1>0. /\ Paths \subseteq Seq(Names)
      /\ \A p \in Seq(Names), m \in Names : Append(p, m) \in Paths => p \in Paths
  BY PathsAre
<1> DEFINE To(p) == Look(v, p).type = 2 /\ Look(v, p).first = b
<1>1. \A q \in Seq(Names) :
           /\ Look(v, q).type # 0 => Look(w, q) = Look(v, q)
           /\ Look(v, q).type = 0 /\ Look(w, q).type # 0 =>
                Look(w, q) = e /\ \E p \in Seq(Names) : q = Append(p, n) /\ To(p)
  BY LookMore
<1>2. \A q \in Led(v) : q \in Seq(Names) /\ q \in Led(w) /\ Look(w, q) = Look(v, q)
                        /\ NodeOf(q, Look(w, q), U) = NodeOf(q, Look(v, q), T)
  <2> SUFFICES ASSUME NEW q \in Led(v)
               PROVE  /\ q \in Seq(Names) /\ q \in Led(w) /\ Look(w, q) = Look(v, q)
                      /\ NodeOf(q, Look(w, q), U) = NodeOf(q, Look(v, q), T)
    OBVIOUS
  <2>1. q \in Seq(Names) /\ q \in Paths /\ Look(v, q).type # 0
    BY <1>0 DEF Led
  <2>2. Look(w, q) = Look(v, q)
    BY <1>1, <2>1
  <2>3. NodeOf(q, Look(v, q), U) = NodeOf(q, Look(v, q), T)
    BY <2>1, NodesKept
  <2> QED BY <2>1, <2>2, <2>3 DEF Led
<1>3. \A q \in Led(w) \ Led(v) :
        q \in Paths /\ Look(w, q) = e /\ \E p \in Seq(Names) : q = Append(p, n) /\ To(p)
  BY <1>0, <1>1 DEF Led
<1>4. CASE Led(w) \ Led(v) = {}
  <2>1. Led(w) = Led(v)
    BY <1>2, <1>4
  <2> QED BY <1>2, <2>1 DEF TreeOf
<1>5. CASE Led(w) \ Led(v) # {}
  <2>1. PICK q \in Led(w) \ Led(v) : TRUE
    BY <1>5
  <2>2. PICK p \in Seq(Names) : q = Append(p, n) /\ To(p)
    BY <1>3, <2>1
  <2>3. q \in Paths /\ Look(w, q) = e
    BY <1>3, <2>1
  <2>4. Led(w) = Led(v) \cup {q}
    <3>1. ASSUME NEW r \in Led(w) \ Led(v) PROVE r = q
      <4>1. PICK o \in Seq(Names) : r = Append(o, n) /\ To(o)
        BY <1>3, <3>1
      <4>2. o = p
        BY <2>2, <4>1, OnePath
      <4> QED BY <2>2, <4>1, <4>2
    <3> QED BY <1>2, <2>1, <3>1
  <2>5. TreeOf(w, U) = TreeOf(v, T) \cup {NodeOf(q, e, U)}
    <3> DEFINE d == NodeOf(q, e, U)
    <3>1. d = NodeOf(q, Look(w, q), U)
      BY <2>3
    <3>2. ASSUME NEW x \in TreeOf(w, U) PROVE x \in TreeOf(v, T) \cup {d}
      <4>1. PICK r \in Led(w) : x = NodeOf(r, Look(w, r), U)
        BY <3>2 DEF TreeOf
      <4> HIDE DEF d
      <4>2. CASE r \in Led(v)
        <5>1. x = NodeOf(r, Look(v, r), T)
          BY <1>2, <4>1, <4>2
        <5> QED BY <4>2, <5>1 DEF TreeOf
      <4>3. CASE r = q
        BY <3>1, <4>1, <4>3
      <4> QED BY <2>4, <4>2, <4>3
    <3>3. ASSUME NEW x \in TreeOf(v, T) PROVE x \in TreeOf(w, U)
      <4>1. PICK r \in Led(v) : x = NodeOf(r, Look(v, r), T)
        BY <3>3 DEF TreeOf
      <4>2. r \in Led(w) /\ x = NodeOf(r, Look(w, r), U)
        BY <1>2, <4>1
      <4> QED BY <4>2 DEF TreeOf
    <3>4. d \in TreeOf(w, U)
      <4> HIDE DEF d
      <4> QED BY <2>1, <3>1 DEF TreeOf
    <3> HIDE DEF d
    <3>5. TreeOf(w, U) = TreeOf(v, T) \cup {d}
      BY <3>2, <3>3, <3>4
    <3> QED BY <3>5 DEF d
  <2>6. \A m \in TreeOf(v, T) : m.path # q
    <3> SUFFICES ASSUME NEW r \in Led(v) PROVE NodeOf(r, Look(v, r), T).path # q
      BY DEF TreeOf
    <3>1. NodeOf(r, Look(v, r), T).path = r
      BY DEF NodeOf
    <3> QED BY <2>1, <3>1
  <2>7. \E m \in TreeOf(v, T) : m.path = p /\ m.dir
    <3>1. p \in Led(v)
      BY <1>0, <2>2, <2>3 DEF Led
    <3>2. NodeOf(p, Look(v, p), T).path = p /\ NodeOf(p, Look(v, p), T).dir
      BY <2>2 DEF NodeOf
    <3> QED BY <3>1, <3>2 DEF TreeOf
  <2>8. NodeOf(q, e, U).path = q
    BY DEF NodeOf
  <2>9. Grown(TreeOf(v, T), TreeOf(w, U), NodeOf(q, e, U), p)
    BY <2>5, <2>6, <2>7, <2>8 DEF Grown
  <2> QED BY <2>2, <2>3, <2>9
<1> QED BY <1>4, <1>5
-----------------------------------------------------------------------------
\* No path leads through an empty directory.
LEMMA NothingBelow ==
  ASSUME NEW w, NEW q \in Seq(Names), Look(w, q).type = 2,
         \A m \in Names : w[Look(w, q).first][m] = Unused
  PROVE  \A r \in Seq(Names) : Len(r) > Len(q) /\ SubSeq(r, 1, Len(q)) = q => Look(w, r).type = 0
<1> DEFINE T == {r \in Seq(Names) : Len(r) > Len(q) /\ SubSeq(r, 1, Len(q)) = q => Look(w, r).type = 0}
<1>0. Len(q) \in Nat
  BY LenProperties
<1>1. <<>> \in T
  BY <1>0, EmptySeq
<1>2. ASSUME NEW r \in Seq(Names), NEW m \in Names, r \in T PROVE Append(r, m) \in T
  <2>1. /\ Append(r, m) \in Seq(Names) /\ Len(Append(r, m)) = Len(r) + 1
        /\ Len(r) \in Nat
    BY AppendProperties, LenProperties
  <2> SUFFICES ASSUME Len(Append(r, m)) > Len(q), SubSeq(Append(r, m), 1, Len(q)) = q
               PROVE  Look(w, Append(r, m)).type = 0
    BY <2>1
  <2>2. Len(q) <= Len(r)
    BY <1>0, <2>1
  <2>3. SubSeq(r, 1, Len(q)) = q
    <3>1. /\ \A i \in 1 .. Len(r) : Append(r, m)[i] = r[i] /\ r[i] \in Names
      BY AppendProperties, ElementOfSeq
    <3>2. \A i \in 1 .. Len(q) : Append(r, m)[i] = r[i] /\ r[i] \in Names /\ Append(r, m)[i] \in Names
      BY <1>0, <2>1, <2>2, <3>1
    <3>3. PICK a : a = SubSeq(r, 1, Len(q))
      OBVIOUS
    <3>4. PICK s : s = Append(r, m)
      OBVIOUS
    <3>5. /\ a \in Seq(Names) /\ Len(a) = (IF 1 <= Len(q) THEN Len(q) - 1 + 1 ELSE 0)
          /\ \A i \in 1 .. Len(q) - 1 + 1 : a[i] = r[1 + i - 1]
      BY <1>0, <3>2, <3>3, SubSeqProperties
    <3>6. \A i \in 1 .. Len(q) - 1 + 1 : q[i] = s[1 + i - 1]
      <4>1. SubSeq(s, 1, Len(q)) = q
        BY <3>4
      <4> QED BY <1>0, <3>2, <3>4, <4>1, SubSeqProperties
    <3>7. Len(a) = Len(q) /\ \A i \in 1 .. Len(a) : a[i] = q[i]
      BY <1>0, <3>2, <3>4, <3>5, <3>6
    <3> QED BY <3>3, <3>5, <3>7, SeqEqual
  <2>4. Look(w, Append(r, m)) = Token(w, Look(w, r), m)
    BY LookAppend
  <2>5. CASE Len(r) = Len(q)
    <3>1. r = q
      BY <2>3, <2>5, SubSeqFull
    <3> QED BY <2>4, <3>1 DEF Token, Unused, Entry
  <2>6. CASE Len(r) # Len(q)
    <3>1. Look(w, r).type = 0
      BY <1>0, <1>2, <2>1, <2>2, <2>3, <2>6
    <3> QED BY <2>4, <3>1 DEF Token, Unused, Entry
  <2> QED BY <2>5, <2>6
<1> HIDE DEF T
<1>3. Seq(Names) \subseteq T
  BY <1>1, <1>2, PathInduct
<1> QED BY <1>3 DEF T

-----------------------------------------------------------------------------
\* The blocks of a mycopyTo that it has yet to write.
Waiting == {run.cur} \cup (IF run.at = "write" THEN {run.nxt} ELSE {})

\* What the invariant does not say of the blocks, and no property of the image
\* but what the user reads depends on: directories have no entries but of files
\* and directories, under names that the user types, and the blocks that a
\* mycopyTo has written are the pieces of its text, in the order of the chain.
Proper(e) == e.type = 0 \/ (e.type \in {1, 2} /\ e.name \in Names)
DirTypes == \A d \in Blocks, s \in Slots : Directory(d) => Proper(disk[d].slots[s])

Joined(b, c) == disk[c].chunk = [c |-> disk[b].chunk.c, k |-> disk[b].chunk.k + 1]

CopyTexts ==
  run.op = "mycopyTo" =>
    /\ run.c \in Contents /\ run.size \in Lengths /\ run.name \in Names
    /\ run.first \in Waiting => run.k = 0
    /\ run.at = "write" => run.nxt # run.first
    /\ \A b \in Blocks : tag[b] = "held" /\ b \notin Waiting =>
         /\ disk[b].chunk.c = run.c
         /\ b = run.first => disk[b].chunk.k = 0
         /\ disk[b].next # 0 =>
              /\ tag[disk[b].next] = "held"
              /\ IF disk[b].next \in Waiting
                 THEN disk[b].next = run.cur /\ run.k = disk[b].chunk.k + 1
                 ELSE Joined(b, disk[b].next)

MakingName == run.op = "mymkdir" => run.name \in Names

TInv == formatted => DirTypes /\ CopyTexts /\ MakingName

\* Directories that a step leaves alone, or writes nothing else to.
LEMMA DirTypesKept ==
  ASSUME DirTypes,
         \A d \in Blocks : Directory(d)' =>
           \/ Directory(d) /\ \A s \in Slots : disk'[d].slots[s] = disk[d].slots[s] \/ Proper(disk'[d].slots[s])
           \/ \A s \in Slots : Proper(disk'[d].slots[s])
  PROVE  DirTypes'
<1> SUFFICES ASSUME NEW d \in Blocks, NEW s \in Slots, Directory(d)'
             PROVE  Proper(disk'[d].slots[s])
  BY DEF DirTypes, Directory, Proper
<1>1. CASE Directory(d) /\ disk'[d].slots[s] = disk[d].slots[s]
  <2>1. Proper(disk[d].slots[s])
    BY <1>1 DEF DirTypes
  <2> QED BY <1>1, <2>1
<1>2. CASE Proper(disk'[d].slots[s])
  BY <1>2
<1> QED BY <1>1, <1>2

\* A command other than mymkfs goes on, is started, or is killed.
Ordinary ==
  /\ IInv /\ TypeOK' /\ Next /\ formatted /\ formatted'
  /\ ~MkfsSuper /\ ~MkfsRoot /\ ~MkfsList /\ ~MkfsLast

\* Blocks do not become directories but by a mymkdir that has cleared them.
LEMMA TagsStep ==
  ASSUME Ordinary, ~MkdirEntry
  PROVE  \A d \in Blocks : Directory(d)' => Directory(d)
<1> SUFFICES ASSUME NEW d \in Blocks, tag'[d] \in {"root", "dir"} PROVE tag[d] \in {"root", "dir"}
  BY DEF Directory
<1>0. tag \in [Blocks -> Tags] /\ ffree \in Ids
  BY TypeFacts DEF Ordinary, IInv
<1>1. CASE Begin
  <2>1. PICK path \in DirPaths, name \in Names :
          \/ \E c \in Contents, len \in Lengths : CopyToBegin(path, name, c, len)
          \/ RmBegin(path, name) \/ MkdirBegin(path, name) \/ RmdirBegin(path, name)
    BY <1>1 DEF Begin, Ordinary
  <2>2. tag' = tag \/ tag' = [tag EXCEPT ![ffree] = "held"]
    BY <2>1 DEF CopyToBegin, RmBegin, MkdirBegin, RmdirBegin
  <2> QED BY <1>0, <2>2
<1>2. CASE Step
  <2>1. \/ tag' = tag \/ \E x \in Ids : tag' = [tag EXCEPT ![x] = "held"] \/ tag' = [tag EXCEPT ![x] = "free"]
        \/ \E to \in {"lost", "file", "free"} : tag' = Retag("held", to)
    <3>1. run.ff \in Ids /\ run.cur \in Ids /\ run.first \in Ids
      BY RunFields DEF Ordinary, IInv, TypeOK
    <3>2. CASE CopyToAllocate
      BY <3>1, <3>2 DEF CopyToAllocate
    <3>3. CASE CopyToNoSpace \/ CopyToDirFull \/ CopyToEntry \/ MkdirUndoSuper
      BY <3>3 DEF CopyToNoSpace, CopyToDirFull, CopyToEntry, MkdirUndoSuper
    <3>4. CASE RmFreeBlock
      BY <3>1, <3>4 DEF RmFreeBlock
    <3>5. CASE RmdirFreeBlock
      BY <3>1, <3>5 DEF RmdirFreeBlock
    <3>6. CASE CopyToWriteFull \/ CopyToWriteShort \/ RmSuper \/ RmEntry \/ MkdirInit \/ MkdirUndoBlock
               \/ RmdirSuper \/ RmdirEntry
      BY <3>6 DEF CopyToWriteFull, CopyToWriteShort, RmSuper, RmEntry, MkdirInit, MkdirUndoBlock,
                  RmdirSuper, RmdirEntry
    <3> QED BY <1>2, <3>2, <3>3, <3>4, <3>5, <3>6 DEF Step, Ordinary
  <2> QED BY <1>0, <2>1 DEF Retag
<1>3. CASE Refused
  BY <1>3 DEF Refused, vars
<1>4. CASE Kill
  BY <1>4, <1>0 DEF Kill
<1> QED BY <1>1, <1>2, <1>3, <1>4 DEF Ordinary, Next

\* What each step writes: nothing, a block that it has taken, a pointer, or one
\* slot of a directory.
LEMMA SlotsStep ==
  ASSUME Ordinary, TInv, ~MkdirEntry
  PROVE  \A d \in Blocks : Directory(d)' =>
           \A s \in Slots : disk'[d].slots[s] = disk[d].slots[s] \/ Proper(disk'[d].slots[s])
<1>0. disk \in Images /\ disk' \in Images /\ run \in Runs
  BY DEF Ordinary, IInv, TypeOK, Images
<1> SUFFICES ASSUME NEW d \in Blocks, Directory(d)', NEW s \in Slots
             PROVE  disk'[d].slots[s] = disk[d].slots[s] \/ Proper(disk'[d].slots[s])
  OBVIOUS
<1>d. Directory(d) /\ tag[d] # "held"
  BY TagsStep DEF Directory
<1>1. CASE disk' = disk
  BY <1>1
<1>2. CASE CopyToWriteFull \/ CopyToWriteShort \/ MkdirInit
  <2>0. /\ \A n \in Ids : ZeroBlock(n) \in DataBlocks /\ TextBlock(n, run.c, run.k) \in DataBlocks
        /\ run.nxt \in Ids /\ 0 \in Ids
    BY <1>0, RunFields, NewBlocks, SetFacts
  <2>1. \E x \in Blocks, new \in DataBlocks : tag[x] = "held" /\ disk' = [disk EXCEPT ![x] = new]
    <3>1. CASE CopyToWriteFull
      <4>1. run.cur \in Blocks /\ tag[run.cur] = "held"
        <5>1. run.op = "mycopyTo" /\ run.at = "write"
          BY <3>1 DEF CopyToWriteFull
        <5>2. run.cur # 0
          BY <5>1, Copying DEF HeldBlocks, Ordinary
        <5> QED BY <5>1, <5>2, Copying DEF Ordinary
      <4> QED BY <2>0, <3>1, <4>1 DEF CopyToWriteFull
    <3>2. CASE CopyToWriteShort
      <4>1. run.cur \in Blocks /\ tag[run.cur] = "held"
        <5>1. run.op = "mycopyTo" /\ run.left >= 1 /\ run.left \in Nat /\ IInv
          BY <3>2, <1>0, SizesAssumption DEF CopyToWriteShort, Ordinary, Runs
        <5>2. run.cur \in Blocks
          BY <5>1, Copying
        <5> QED BY <5>1, <5>2, Copying, SetFacts
      <4> QED BY <2>0, <3>2, <4>1 DEF CopyToWriteShort
    <3>3. CASE MkdirInit
      <4>1. run.op = "mymkdir" /\ IInv
        BY <3>3 DEF MkdirInit, Ordinary
      <4>2. run.first \in Blocks /\ tag[run.first] = "held"
        BY <4>1, MakingDir
      <4> QED BY <2>0, <3>3, <4>2 DEF MkdirInit
    <3> QED BY <1>2, <3>1, <3>2, <3>3
  <2>2. PICK x \in Blocks, new \in DataBlocks : tag[x] = "held" /\ disk' = [disk EXCEPT ![x] = new]
    BY <2>1
  <2> QED BY <1>0, <1>d, <2>2 DEF Images
<1>3. CASE RmFreeBlock \/ MkdirUndoBlock \/ RmdirFreeBlock
  <2>1. \E x \in Ids, n \in Ids : disk' = [disk EXCEPT ![x].next = n]
    BY <1>0, <1>3, RunFields DEF RmFreeBlock, MkdirUndoBlock, RmdirFreeBlock
  <2>2. PICK x \in Ids, n \in Ids : disk' = [disk EXCEPT ![x].next = n]
    BY <2>1
  <2>3. disk'[d].slots = disk[d].slots
    <3>1. CASE x \in Blocks
      BY <1>0, <2>2, <3>1, NextWritten
    <3>2. CASE x \notin Blocks
      BY <1>0, <2>2, <3>2 DEF Images
    <3> QED BY <3>1, <3>2
  <2> QED BY <2>3
<1>4. CASE CopyToEntry \/ RmEntry \/ RmdirEntry
  <2>1. run.op \in {"mycopyTo", "myrm", "myrmdir"} /\ IInv
    BY <1>4 DEF CopyToEntry, RmEntry, RmdirEntry, Ordinary
  <2>2. Directory(run.dir) /\ run.dirblk = disk[run.dir]
    BY <2>1, OnImage DEF Pointers, Making, Removal
  <2>3. \E k \in Slots, new \in Entries :
          Proper(new) /\ disk' = [disk EXCEPT ![run.dir] = [run.dirblk EXCEPT !.slots[k] = new]]
    <3>1. CASE CopyToEntry
      <4>1. Min(UnusedSlots(run.dirblk.slots)) \in Slots
        BY <1>0, <3>1, RunFields, UnusedSlotIs DEF CopyToEntry
      <4>2. Entry(1, run.name, run.first, run.size) \in Entries
        BY <1>0, RunFields DEF Entry, Entries
      <4>a. run.name \in Names
        BY <3>1 DEF CopyToEntry, TInv, CopyTexts, Ordinary
      <4>3. Proper(Entry(1, run.name, run.first, run.size))
        BY <4>a DEF Entry, Proper
      <4> QED BY <3>1, <4>1, <4>2, <4>3 DEF CopyToEntry
    <3>2. CASE RmEntry \/ RmdirEntry
      <4>1. run.slot \in Slots /\ Unused \in Entries /\ Proper(Unused)
        BY <1>0, RunFields, SetFacts DEF Unused, Entry, Proper
      <4> QED BY <3>2, <4>1 DEF RmEntry, RmdirEntry
    <3> QED BY <1>4, <3>1, <3>2
  <2>4. PICK k \in Slots, new \in Entries :
          Proper(new) /\ disk' = [disk EXCEPT ![run.dir] = [run.dirblk EXCEPT !.slots[k] = new]]
    BY <2>3
  <2>5. CASE d # run.dir
    BY <1>0, <2>4, <2>5 DEF Images
  <2>6. CASE d = run.dir
    <3>1. disk'[d] = [disk[d] EXCEPT !.slots[k] = new]
      BY <1>0, <2>2, <2>4, <2>6 DEF Images
    <3>2. disk[d] \in DataBlocks
      BY <1>0 DEF Images
    <3>3. disk'[d].slots[s] = IF s = k THEN new ELSE disk[d].slots[s]
      BY <3>1, <3>2, SlotWritten
    <3> QED BY <2>4, <3>3
  <2> QED BY <2>5, <2>6
<1>5. CASE Begin
  <2>1. PICK path \in DirPaths, name \in Names :
          \/ \E c \in Contents, len \in Lengths : CopyToBegin(path, name, c, len)
          \/ RmBegin(path, name) \/ MkdirBegin(path, name) \/ RmdirBegin(path, name)
    BY <1>5 DEF Begin, Ordinary
  <2>2. disk' = disk
    BY <2>1 DEF CopyToBegin, RmBegin, MkdirBegin, RmdirBegin
  <2> QED BY <1>1, <2>2
<1>6. CASE CopyToAllocate \/ CopyToNoSpace \/ CopyToDirFull \/ RmSuper \/ MkdirUndoSuper \/ RmdirSuper
           \/ Refused \/ Kill
  <2>1. disk' = disk
    BY <1>6 DEF CopyToAllocate, CopyToNoSpace, CopyToDirFull, RmSuper, MkdirUndoSuper, RmdirSuper, Refused,
                Kill, vars
  <2> QED BY <1>1, <2>1
<1> QED BY <1>2, <1>3, <1>4, <1>5, <1>6 DEF Ordinary, Next, Step

\* Every step keeps the types of the entries.
LEMMA DirTypesStep == ASSUME Ordinary, TInv PROVE DirTypes'
<1>0. DirTypes /\ MakingName
  BY DEF TInv, Ordinary
<1>1. CASE ~MkdirEntry
  BY <1>0, <1>1, TagsStep, SlotsStep, DirTypesKept
<1>2. CASE MkdirEntry
  <2>1. /\ run.op = "mymkdir" /\ run.at = "entry" /\ IInv
        /\ UnusedSlots(run.dirblk.slots) # {}
        /\ disk' = [disk EXCEPT ![run.dir] =
                [run.dirblk EXCEPT !.slots[Min(UnusedSlots(run.dirblk.slots))] =
                    Entry(2, run.name, run.first, 0)]]
        /\ tag' = Retag("held", "dir")
    BY <1>2 DEF MkdirEntry, Ordinary
  <2>2. /\ disk \in Images /\ run \in Runs /\ tag \in [Blocks -> Tags]
    BY <2>1 DEF IInv, TypeOK, Images
  <2>3. /\ Directory(run.dir) /\ run.dirblk = disk[run.dir]
        /\ \A b \in Blocks : tag[b] = "held" <=> b = run.first
    BY <2>1, MakingDir
  <2>4. disk[run.first] = ZeroBlock(0)
    BY <2>1, MakingDir DEF HeldBlocks
  <2>5. PICK k \in Slots : k = Min(UnusedSlots(run.dirblk.slots))
    BY <2>1, <2>2, RunFields, UnusedSlotIs
  <2>6. PICK new \in Entries : new = Entry(2, run.name, run.first, 0) /\ Proper(new)
    <3>1. Entry(2, run.name, run.first, 0) \in Entries
      BY <2>2, RunFields DEF Entry, Entries
    <3>2. run.name \in Names
      BY <1>0, <2>1 DEF MakingName
    <3> QED BY <3>1, <3>2 DEF Entry, Proper
  <2>7. ASSUME NEW d \in Blocks, Directory(d)', NEW s \in Slots
        PROVE  Proper(disk'[d].slots[s])
    <3>1. Proper(disk[d].slots[s])
      <4>1. CASE d = run.first
        <5>1. disk[d].slots = EmptyDir
          BY <2>4, <4>1 DEF ZeroBlock
        <5> QED BY <5>1 DEF EmptyDir, Unused, Entry, Proper
      <4>2. CASE d # run.first
        <5>1. tag'[d] = tag[d]
          BY <2>1, <2>2, <2>3, <4>2 DEF Retag
        <5>2. Directory(d)
          BY <2>7, <5>1 DEF Directory
        <5> QED BY <1>0, <5>2 DEF DirTypes
      <4> QED BY <4>1, <4>2
    <3>2. CASE d # run.dir
      BY <2>1, <2>2, <3>1, <3>2 DEF Images
    <3>3. CASE d = run.dir
      <4>1. disk'[d] = [disk[d] EXCEPT !.slots[k] = new]
        BY <2>1, <2>2, <2>3, <2>5, <2>6, <3>3 DEF Images
      <4>2. disk[d] \in DataBlocks
        BY <2>2 DEF Images
      <4>3. disk'[d].slots[s] = IF s = k THEN new ELSE disk[d].slots[s]
        BY <4>1, <4>2, SlotWritten
      <4> QED BY <2>6, <3>1, <4>3
    <3> QED BY <3>2, <3>3
  <2> QED BY <1>0, <2>7, DirTypesKept
<1> QED BY <1>1, <1>2

-----------------------------------------------------------------------------
\* mycopyTo: nothing is written yet.
LEMMA TextsBegin ==
  ASSUME IInv, NEW path \in DirPaths, NEW name \in Names, NEW c \in Contents, NEW len \in Lengths,
         CopyToBegin(path, name, c, len)
  PROVE  CopyTexts'
<1>1. /\ run = Idle /\ formatted /\ tag' = [tag EXCEPT ![ffree] = "held"]
      /\ run' = [Idle EXCEPT !.op = "mycopyTo", !.at = "read",
                         !.dir = Navigate(path), !.dirblk = disk[Navigate(path)], !.name = Stored[name],
                         !.first = ffree, !.cur = ffree, !.size = len,
                         !.left = len, !.c = c, !.ff = PopFree(ffree)]
  BY DEF CopyToBegin
<1>2. /\ run'.c = c /\ run'.size = len /\ run'.name = Stored[name] /\ run'.k = 0 /\ run'.at = "read"
      /\ run'.cur = ffree
  BY <1>1 DEF Idle
<1>3. Stored[name] \in Names
  BY NamesAssumption
<1>4. Waiting' = {ffree}
  BY <1>2 DEF Waiting
<1>5. \A b \in Blocks : tag[b] # "held" /\ tag \in [Blocks -> Tags]
  BY <1>1, IdleIs DEF IInv, HeldBlocks, Making, TypeOK
<1>6. \A b \in Blocks : tag'[b] = "held" => b \in Waiting'
  BY <1>1, <1>4, <1>5
<1> QED BY <1>2, <1>3, <1>6 DEF CopyTexts

\* One more block waits to be written.
LEMMA TextsAllocate == ASSUME IInv, TInv, TypeOK', CopyToAllocate PROVE CopyTexts'
<1>1. /\ run.op = "mycopyTo" /\ run.at = "read" /\ run.left >= Capacity /\ run.ff # 0
      /\ run' = [run EXCEPT !.at = "write", !.nxt = run.ff, !.ff = PopFree(run.ff)]
      /\ tag' = [tag EXCEPT ![run.ff] = "held"] /\ disk' = disk
  BY DEF CopyToAllocate
<1>2. /\ formatted /\ TypeOK /\ run \in Runs /\ tag \in [Blocks -> Tags] /\ disk \in Images
      /\ run.ff = ffree /\ run.first \in Blocks /\ tag[run.first] = "held"
      /\ \A b \in Blocks : tag[b] = "free" <=> b \in On(ffree)
      /\ Pointers
  BY <1>1, Copying, TypeFacts
<1>3. run.ff \in Blocks /\ tag[run.ff] = "free"
  <2>1. ffree \in Blocks
    BY <1>1, <1>2 DEF Pointers, Ids0
  <2> QED BY <1>2, <2>1, OnBlocks, Sizes
<1>4. /\ run'.c = run.c /\ run'.size = run.size /\ run'.name = run.name /\ run'.k = run.k
      /\ run'.at = "write" /\ run'.cur = run.cur /\ run'.nxt = run.ff /\ run'.first = run.first
  BY <1>1, <1>2 DEF Runs
<1>5. Waiting = {run.cur} /\ Waiting' = {run.cur, run.ff}
  BY <1>1, <1>4 DEF Waiting
<1>6. CopyTexts
  BY <1>2 DEF TInv
<1>7. ASSUME NEW b \in Blocks, tag'[b] = "held", b \notin Waiting'
      PROVE  /\ disk[b].chunk.c = run.c
             /\ b = run.first => disk[b].chunk.k = 0
             /\ disk[b].next # 0 =>
                  /\ tag'[disk[b].next] = "held"
                  /\ IF disk[b].next \in Waiting'
                     THEN disk[b].next = run.cur /\ run.k = disk[b].chunk.k + 1
                     ELSE Joined(b, disk[b].next)
  <2>1. tag[b] = "held" /\ b \notin Waiting
    BY <1>1, <1>2, <1>3, <1>5, <1>7
  <2>2. /\ disk[b].chunk.c = run.c
        /\ b = run.first => disk[b].chunk.k = 0
        /\ disk[b].next # 0 =>
             /\ tag[disk[b].next] = "held"
             /\ IF disk[b].next \in Waiting
                THEN disk[b].next = run.cur /\ run.k = disk[b].chunk.k + 1
                ELSE Joined(b, disk[b].next)
    BY <1>1, <1>6, <2>1 DEF CopyTexts
  <2>3. ASSUME disk[b].next # 0
        PROVE  tag'[disk[b].next] = "held" /\ (disk[b].next \in Waiting' <=> disk[b].next \in Waiting)
    <3>1. disk[b].next \in Blocks
      BY <1>2, <2>3 DEF Pointers, Ids0
    <3>2. disk[b].next # run.ff
      BY <1>3, <2>2, <2>3
    <3> QED BY <1>1, <1>2, <1>5, <2>2, <2>3, <3>1, <3>2
  <2> QED BY <2>2, <2>3
<1>8. run.first # run.ff
  BY <1>2, <1>3
<1>9. /\ run.c \in Contents /\ run.size \in Lengths /\ run.name \in Names
      /\ run.first \in Waiting => run.k = 0
  BY <1>1, <1>6 DEF CopyTexts
<1>10. run'.first \in Waiting' => run'.k = 0
  BY <1>4, <1>5, <1>8, <1>9
<1> QED BY <1>1, <1>4, <1>7, <1>8, <1>9, <1>10 DEF CopyTexts, Joined

\* A block is written: the next piece of the text, behind the ones before it.
\* next is the block that it leads to, and that waits now.
LEMMA TextsWritten ==
  ASSUME IInv, TInv, TypeOK', run.op = "mycopyTo", run'.op = "mycopyTo", run.cur \in Blocks,
         NEW next \in Ids, next # run.cur,
         disk' = [disk EXCEPT ![run.cur] = TextBlock(next, run.c, run.k)],
         tag' = tag, run'.at = "read", run'.cur = next, run'.k = run.k + 1,
         run'.c = run.c, run'.size = run.size, run'.name = run.name, run'.first = run.first,
         next # 0 => tag[next] = "held" /\ next \in Waiting,
         next # run.first,
         Waiting \ {run.cur} \subseteq {next}
  PROVE  CopyTexts'
<1>1. formatted /\ CopyTexts /\ Pointers /\ run \in Runs /\ disk \in Images
  <2>1. formatted
    BY Copying
  <2> QED BY <2>1, Copying, TypeFacts DEF TInv
<1>2. /\ disk'[run.cur].next = next /\ disk'[run.cur].chunk.c = run.c /\ disk'[run.cur].chunk.k = run.k
      /\ disk'[run.cur].chunk = [c |-> run.c, k |-> run.k]
      /\ \A b \in Blocks : b # run.cur => disk'[b] = disk[b]
  <2>1. disk'[run.cur] = TextBlock(next, run.c, run.k)
    BY <1>1 DEF Images
  <2> QED BY <1>1, <2>1 DEF TextBlock, Images
<1>3. Waiting' = {next}
  BY DEF Waiting
<1>4. run.cur \in Waiting
  BY DEF Waiting
<1>5. ASSUME NEW b \in Blocks, tag[b] = "held", b # next
      PROVE  /\ disk'[b].chunk.c = run.c
             /\ b = run.first => disk'[b].chunk.k = 0
             /\ disk'[b].next # 0 =>
                  /\ tag[disk'[b].next] = "held"
                  /\ IF disk'[b].next = next
                     THEN disk'[b].next = next /\ run.k + 1 = disk'[b].chunk.k + 1
                     ELSE disk'[disk'[b].next].chunk = [c |-> disk'[b].chunk.c, k |-> disk'[b].chunk.k + 1]
  <2>1. CASE b = run.cur
    <3>1. b = run.first => run.k = 0
      BY <1>1, <1>4, <2>1 DEF CopyTexts
    <3> QED BY <1>2, <2>1, <3>1
  <2>2. CASE b # run.cur
    <3>1. disk'[b] = disk[b] /\ b \notin Waiting
      BY <1>2, <1>5, <2>2
    <3>2. /\ disk[b].chunk.c = run.c
          /\ b = run.first => disk[b].chunk.k = 0
          /\ disk[b].next # 0 =>
               /\ tag[disk[b].next] = "held"
               /\ IF disk[b].next \in Waiting
                  THEN disk[b].next = run.cur /\ run.k = disk[b].chunk.k + 1
                  ELSE Joined(b, disk[b].next)
      BY <1>1, <1>5, <3>1 DEF CopyTexts
    <3>3. CASE disk[b].next = 0
      BY <3>1, <3>2, <3>3
    <3>4. CASE disk[b].next # 0 /\ disk[b].next = run.cur
      BY <1>2, <1>4, <3>1, <3>2, <3>4
    <3>5. CASE disk[b].next # 0 /\ disk[b].next # run.cur
      <4>1. disk[b].next \in Blocks /\ disk[b].next \notin Waiting
        BY <1>1, <3>2, <3>5 DEF Pointers, Ids0
      <4>2. disk'[disk[b].next] = disk[disk[b].next]
        BY <1>2, <3>5, <4>1
      <4>3. disk[disk[b].next].chunk = [c |-> disk[b].chunk.c, k |-> disk[b].chunk.k + 1]
        BY <3>2, <3>5, <4>1 DEF Joined
      <4>4. CASE disk[b].next # next
        BY <3>1, <3>2, <3>5, <4>2, <4>3, <4>4
      <4>5. CASE disk[b].next = next
        BY <3>5, <4>1, <4>5
      <4> QED BY <4>4, <4>5
    <3> QED BY <3>3, <3>4, <3>5
  <2> QED BY <2>1, <2>2
<1>6. run.c \in Contents /\ run.size \in Lengths /\ run.name \in Names
  BY <1>1 DEF CopyTexts
<1> QED BY <1>3, <1>5, <1>6 DEF CopyTexts, Joined
\* A full block: it leads to the one that was taken before.
LEMMA TextsFull == ASSUME IInv, TInv, TypeOK', CopyToWriteFull PROVE CopyTexts'
<1>1. /\ run.op = "mycopyTo" /\ run.at = "write"
      /\ disk' = [disk EXCEPT ![run.cur] = TextBlock(run.nxt, run.c, run.k)]
      /\ run' = [run EXCEPT !.at = "read", !.cur = run.nxt, !.k = @ + 1, !.left = @ - Capacity]
      /\ tag' = tag
  BY DEF CopyToWriteFull
<1>2. /\ TypeOK /\ run \in Runs /\ formatted /\ Stops(run.first) /\ run.first \in Blocks
      /\ HeldBlocks /\ run.nxt \in Ids
  BY <1>1, Copying, TypeFacts, RunFields
<1>3. run.cur # 0 /\ run.cur \in Blocks /\ tag[run.cur] = "held"
  <2>1. run.cur # 0
    BY <1>1, <1>2 DEF HeldBlocks
  <2> QED BY <1>1, <2>1, Copying
<1>4. run.nxt # 0 /\ tag[run.nxt] = "held" /\ disk[run.cur].next = run.nxt
  BY <1>1, <1>2, <1>3 DEF HeldBlocks
<1>5. run.nxt # run.cur
  <2>1. run.cur \in On(run.first)
    BY <1>1, <1>2, <1>3 DEF HeldBlocks
  <2>2. Stops(run.cur)
    <3>1. disk \in Images /\ run.first \in Ids
      BY <1>2, TypeFacts, Sizes
    <3> QED BY <1>2, <2>1, <3>1, Within DEF On, Stops
  <2>3. run.cur \notin On(run.nxt)
    BY <1>2, <1>3, <1>4, <2>2, FirstOnChain
  <2>4. run.nxt \in Blocks
    BY <1>1, <1>2, <1>4, SetFacts DEF IInv, Pointers, Ids0
  <2>5. run.nxt \in On(run.nxt)
    BY <1>2, <2>4, OnBlocks
  <2> QED BY <2>3, <2>5
<1>6. Waiting = {run.cur, run.nxt}
  BY <1>1 DEF Waiting
<1>7. run.nxt # run.first
  BY <1>1, <1>2 DEF TInv, CopyTexts
<1>8. /\ run'.op = "mycopyTo" /\ run'.at = "read" /\ run'.cur = run.nxt /\ run'.k = run.k + 1
      /\ run'.c = run.c /\ run'.size = run.size /\ run'.name = run.name /\ run'.first = run.first
  BY <1>1, <1>2 DEF Runs
<1>9. PICK next \in Ids : next = run.nxt
  BY <1>2
<1> QED BY <1>1, <1>3, <1>4, <1>5, <1>6, <1>7, <1>8, <1>9, TextsWritten

\* The short block is the last.
LEMMA TextsShort == ASSUME IInv, TInv, TypeOK', CopyToWriteShort PROVE CopyTexts'
<1>1. /\ run.op = "mycopyTo" /\ run.at = "read" /\ run.left \in 1 .. Capacity - 1
      /\ disk' = [disk EXCEPT ![run.cur] = TextBlock(0, run.c, run.k)]
      /\ run' = [run EXCEPT !.cur = 0, !.k = @ + 1, !.left = 0]
      /\ tag' = tag
  BY DEF CopyToWriteShort
<1>2. /\ run \in Runs /\ run.cur \in Blocks /\ run.first \in Blocks /\ 0 \in Ids /\ 0 \notin Blocks
  BY <1>1, Copying, TypeFacts, SetFacts, SizesAssumption
<1>3. Waiting = {run.cur}
  BY <1>1 DEF Waiting
<1>4. /\ run'.op = "mycopyTo" /\ run'.at = "read" /\ run'.cur = 0 /\ run'.k = run.k + 1
      /\ run'.c = run.c /\ run'.size = run.size /\ run'.name = run.name /\ run'.first = run.first
  BY <1>1, <1>2 DEF Runs
<1>5. PICK next \in Ids : next = 0 /\ next # run.cur /\ next # run.first
  BY <1>2
<1> QED BY <1>1, <1>2, <1>3, <1>4, <1>5, TextsWritten

\* Every step keeps what mycopyTo has written.
LEMMA TextsStep == ASSUME Ordinary, TInv PROVE CopyTexts' /\ MakingName'
<1>0. IInv /\ TypeOK' /\ run \in Runs /\ CopyTexts /\ MakingName
  BY DEF Ordinary, IInv, TypeOK, TInv
<1>i. Idle.op = "none"
  BY IdleIs
<1>1. CASE Begin
  <2>1. PICK path \in DirPaths, name \in Names :
          \/ \E c \in Contents, len \in Lengths : CopyToBegin(path, name, c, len)
          \/ RmBegin(path, name) \/ MkdirBegin(path, name) \/ RmdirBegin(path, name)
    BY <1>1 DEF Begin, Ordinary
  <2>2. CASE \E c \in Contents, len \in Lengths : CopyToBegin(path, name, c, len)
    <3>1. PICK c \in Contents, len \in Lengths : CopyToBegin(path, name, c, len)
      BY <2>2
    <3>2. CopyTexts'
      BY <1>0, <3>1, TextsBegin
    <3>3. run'.op = "mycopyTo"
      BY <3>1 DEF CopyToBegin, Idle
    <3> QED BY <3>2, <3>3 DEF MakingName
  <2>3. CASE RmBegin(path, name) \/ RmdirBegin(path, name)
    <3>1. run'.op \in {"myrm", "myrmdir"}
      BY <2>3 DEF RmBegin, RmdirBegin, Idle
    <3> QED BY <3>1 DEF MakingName, CopyTexts
  <2>4. CASE MkdirBegin(path, name)
    <3>1. run'.op = "mymkdir" /\ run'.name = Stored[name]
      BY <2>4 DEF MkdirBegin, Idle
    <3> QED BY <3>1, NamesAssumption DEF MakingName, CopyTexts
  <2> QED BY <2>1, <2>2, <2>3, <2>4
<1>2. CASE CopyToAllocate \/ CopyToWriteFull \/ CopyToWriteShort
  <2>1. CopyTexts'
    BY <1>0, <1>2, TextsAllocate, TextsFull, TextsShort
  <2>2. run'.op = "mycopyTo"
    BY <1>0, <1>2 DEF CopyToAllocate, CopyToWriteFull, CopyToWriteShort, Runs
  <2> QED BY <2>1, <2>2 DEF MakingName
<1>3. CASE CopyToNoSpace \/ CopyToDirFull \/ CopyToEntry \/ RmEntry \/ MkdirEntry \/ MkdirUndoSuper
           \/ RmdirEntry \/ Kill
  <2>1. run'.op = "none"
    BY <1>3, <1>i DEF CopyToNoSpace, CopyToDirFull, CopyToEntry, RmEntry, MkdirEntry, MkdirUndoSuper,
                     RmdirEntry, Kill
  <2> QED BY <2>1 DEF CopyTexts, MakingName
<1>4. CASE RmFreeBlock \/ RmSuper \/ RmdirFreeBlock \/ RmdirSuper
  <2>1. run'.op \in {"myrm", "myrmdir"}
    BY <1>0, <1>4 DEF RmFreeBlock, RmSuper, RmdirFreeBlock, RmdirSuper, Runs
  <2> QED BY <2>1 DEF CopyTexts, MakingName
<1>5. CASE MkdirInit \/ MkdirUndoBlock
  <2>1. run.op = "mymkdir" /\ run'.op = "mymkdir" /\ run'.name = run.name
    BY <1>0, <1>5 DEF MkdirInit, MkdirUndoBlock, Runs
  <2> QED BY <1>0, <2>1 DEF CopyTexts, MakingName
<1>6. CASE Refused
  <2>1. run' = Idle
    BY <1>6 DEF Refused, vars
  <2> QED BY <2>1, <1>i DEF CopyTexts, MakingName
<1> QED BY <1>1, <1>2, <1>3, <1>4, <1>5, <1>6 DEF Ordinary, Next, Step

\* The second invariant is inductive, given the first.
LEMMA TInductive == IInv /\ IInv' /\ TInv /\ [Next]_vars => TInv'
<1> SUFFICES ASSUME IInv, IInv', TInv, [Next]_vars PROVE TInv'
  OBVIOUS
<1>0. TypeOK'
  BY DEF IInv
<1>1. CASE UNCHANGED vars
  BY <1>1 DEF vars, TInv, DirTypes, Proper, CopyTexts, MakingName, Directory, Waiting, Joined
<1>2. CASE MkfsSuper \/ MkfsRoot \/ MkfsList
  <2>1. ~formatted'
    BY <1>2, StepMkfs
  <2> QED BY <2>1 DEF TInv
<1>3. CASE MkfsLast
  <2>1. /\ run.op = "mymkfs" /\ run.at = "list" /\ run' = Idle /\ tag' = tag
        /\ disk' = [disk EXCEPT ![NBlocks - 1] = ZeroBlock(0)]
    BY <1>3 DEF MkfsLast
  <2>2. /\ \A b \in Blocks : tag[b] = IF b = Root THEN "root" ELSE "free"
        /\ disk[Root] = ZeroBlock(0) /\ disk \in Images
    BY <2>1, OnFormat DEF Formatting
  <2>3. disk'[Root] = ZeroBlock(0)
    BY <2>1, <2>2 DEF Images
  <2>4. DirTypes'
    <3>1. \A d \in Blocks : Directory(d)' => d = Root
      BY <2>1, <2>2 DEF Directory
    <3>2. \A s \in Slots : disk'[Root].slots[s].type = 0
      BY <2>3 DEF ZeroBlock, EmptyDir, Unused, Entry
    <3> QED BY <3>1, <3>2 DEF DirTypes, Proper
  <2>5. CopyTexts' /\ MakingName'
    BY <2>1, IdleIs DEF CopyTexts, MakingName
  <2> QED BY <2>4, <2>5 DEF TInv
<1>4. CASE Next /\ ~MkfsSuper /\ ~MkfsRoot /\ ~MkfsList /\ ~MkfsLast
  <2>1. CASE ~formatted'
    BY <2>1 DEF TInv
  <2>2. CASE formatted'
    <3>1. formatted
      <4>1. CASE Kill
        BY <2>2, <4>1 DEF Kill
      <4>2. CASE ~Kill
        BY <1>4, <4>2, StillFormatted
      <4> QED BY <4>1, <4>2
    <3>2. Ordinary
      BY <1>0, <1>4, <2>2, <3>1 DEF Ordinary
    <3>3. DirTypes' /\ CopyTexts' /\ MakingName'
      BY <3>2, DirTypesStep, TextsStep
    <3> QED BY <3>3 DEF TInv
  <2> QED BY <2>1, <2>2
<1> QED BY <1>1, <1>2, <1>3, <1>4

-----------------------------------------------------------------------------
\* The text in the chain from x on the image d.
Makes(d, s) == {c \in Contents : \A i \in DOMAIN s : d[s[i]].chunk = [c |-> c, k |-> i - 1]}
TextIn(d, x) ==
  IF Makes(d, ChainOn(d, x)) = {} THEN NoContent ELSE CHOOSE c \in Makes(d, ChainOn(d, x)) : TRUE
Texts == [x \in Ids |-> TextIn(disk, x)]

\* A walk depends on the pointers of the blocks it passes only.
LEMMA SameWalk ==
  ASSUME NEW d \in Images, NEW e \in Images
  PROVE  \A n \in 0 .. NBlocks, x \in Ids :
           (\A y \in Passed(d, n, x) : e[y].next = d[y].next) => Walk(e)[n][x] = Walk(d)[n][x]
<1> DEFINE P(n, x) == (\A y \in Passed(d, n, x) : e[y].next = d[y].next) => Walk(e)[n][x] = Walk(d)[n][x]
           T == {n \in 0 .. NBlocks : \A x \in Ids : P(n, x)}
<1>1. 0 \in T
  <2>1. 0 \in 0 .. NBlocks
    BY Sizes
  <2>2. ASSUME NEW x \in Ids PROVE Walk(e)[0][x] = Walk(d)[0][x]
    <3>1. Walk(e)[0][x] = <<>> /\ Walk(d)[0][x] = <<>>
      BY <2>1, WalkStep
    <3> QED BY <3>1
  <2> QED BY <2>1, <2>2
<1>2. ASSUME NEW n \in 0 .. NBlocks - 1, n \in T PROVE n + 1 \in T
  <2>1. PICK m \in 0 .. NBlocks : m = n + 1 /\ m # 0 /\ m - 1 = n /\ n \in 0 .. NBlocks
    BY Sizes
  <2>2. ASSUME NEW x \in Ids, \A y \in Passed(d, m, x) : e[y].next = d[y].next
        PROVE  Walk(e)[m][x] = Walk(d)[m][x]
    <3>1. CASE x \notin Blocks
      <4> HIDE DEF T, P
      <4>1. Walk(e)[m][x] = <<>> /\ Walk(d)[m][x] = <<>>
        BY <3>1, WalkStep
      <4> QED BY <4>1
    <3>2. CASE x \in Blocks
      <4>1. PICK z \in Ids : z = d[x].next
        BY <3>2, Sizes
      <4>2. Passed(d, m, x) = {x} \cup Passed(d, n, z)
        <5> HIDE DEF T, P
        <5>1. Passed(d, m, x) = {x} \cup Passed(d, m - 1, d[x].next)
          BY <3>2, <2>1, WalkFacts
        <5> QED BY <5>1, <2>1, <4>1
      <4>3. e[x].next = z /\ \A y \in Passed(d, n, z) : e[y].next = d[y].next
        BY <2>2, <4>1, <4>2
      <4>4. Walk(e)[n][z] = Walk(d)[n][z]
        BY <1>2, <4>3
      <4> HIDE DEF T, P
      <4>5. Walk(d)[m][x] = <<x>> \o Walk(d)[m - 1][d[x].next]
        BY <3>2, <2>1, WalkStep
      <4>6. Walk(e)[m][x] = <<x>> \o Walk(e)[m - 1][e[x].next]
        BY <3>2, <2>1, WalkStep
      <4> QED BY <2>1, <4>1, <4>3, <4>4, <4>5, <4>6
    <3> QED BY <3>1, <3>2
  <2>3. \A x \in Ids : P(m, x)
    BY <2>2
  <2> QED BY <2>1, <2>3
<1> HIDE DEF T
<1>3. 0 .. NBlocks \subseteq T
  BY <1>1, <1>2, StepInduct
<1> QED BY <1>3 DEF T

\* The chain from x is a sequence of blocks, those that it reaches.
LEMMA ChainSeq ==
  ASSUME NEW d \in Images, NEW x \in Ids
  PROVE  /\ ChainOn(d, x) \in Seq(Blocks)
         /\ \A i \in DOMAIN ChainOn(d, x) : ChainOn(d, x)[i] \in Reach(d, x)
<1>1. NBlocks \in 0 .. NBlocks
  BY Sizes
<1>2. ChainOn(d, x) \in Seq(Blocks)
  BY <1>1, WalkIsSeq DEF ChainOn
<1> QED BY <1>2 DEF ChainOn, Reach, Passed, ToSet

\* A text stays as it is when its blocks do.
LEMMA SameText ==
  ASSUME NEW d \in Images, NEW e \in Images, NEW x \in Ids,
         \A y \in Reach(d, x) : e[y].next = d[y].next /\ e[y].chunk = d[y].chunk
  PROVE  TextIn(e, x) = TextIn(d, x)
<1>1. NBlocks \in 0 .. NBlocks
  BY Sizes
<1>2. ChainOn(e, x) = ChainOn(d, x)
  <2>1. \A y \in Passed(d, NBlocks, x) : e[y].next = d[y].next
    BY DEF Reach
  <2> QED BY <1>1, <2>1, SameWalk DEF ChainOn
<1>3. PICK s : s = ChainOn(d, x)
  OBVIOUS
<1>4. \A i \in DOMAIN s : e[s[i]].chunk = d[s[i]].chunk
  BY <1>3, ChainSeq
<1>5. Makes(e, s) = Makes(d, s)
  BY <1>4 DEF Makes
<1> QED BY <1>2, <1>3, <1>5 DEF TextIn

\* Block y is a piece of text c, and the block it leads to the next one.
Piece(d, y, c) ==
  /\ d[y].chunk = [c |-> c, k |-> d[y].chunk.k] /\ d[y].chunk.k \in Nat
  /\ d[y].next \in Blocks => d[d[y].next].chunk.k = d[y].chunk.k + 1

\* Pieces that lead to each other are numbered along the chain.
LEMMA Pieces ==
  ASSUME NEW d \in Images, NEW c
  PROVE  \A n \in 0 .. NBlocks, x \in Ids :
           (\A y \in Passed(d, n, x) : Piece(d, y, c)) =>
             \A i \in DOMAIN Walk(d)[n][x] :
               d[Walk(d)[n][x][i]].chunk = [c |-> c, k |-> d[x].chunk.k + (i - 1)]
<1> DEFINE P(n, x) == (\A y \in Passed(d, n, x) : Piece(d, y, c)) =>
             \A i \in DOMAIN Walk(d)[n][x] :
               d[Walk(d)[n][x][i]].chunk = [c |-> c, k |-> d[x].chunk.k + (i - 1)]
           T == {n \in 0 .. NBlocks : \A x \in Ids : P(n, x)}
<1>0. ASSUME NEW n \in 0 .. NBlocks, NEW x \in Ids, n = 0 \/ x \notin Blocks PROVE P(n, x)
  <2>1. Walk(d)[n][x] = <<>>
    BY <1>0, WalkStep
  <2> QED BY <2>1
<1>1. 0 \in T
  <2>1. 0 \in 0 .. NBlocks
    BY Sizes
  <2>2. \A x \in Ids : P(0, x)
    BY <1>0, <2>1
  <2> QED BY <2>1, <2>2
<1>2. ASSUME NEW n \in 0 .. NBlocks - 1, n \in T PROVE n + 1 \in T
  <2>1. PICK m \in 0 .. NBlocks : m = n + 1 /\ m # 0 /\ m - 1 = n /\ n \in 0 .. NBlocks
    BY Sizes
  <2>2. ASSUME NEW x \in Ids, x \in Blocks, \A y \in Passed(d, m, x) : Piece(d, y, c),
               NEW i \in DOMAIN Walk(d)[m][x]
        PROVE  d[Walk(d)[m][x][i]].chunk = [c |-> c, k |-> d[x].chunk.k + (i - 1)]
    <3>1. PICK z \in Ids : z = d[x].next
      BY <2>2, Sizes
    <3>2. Passed(d, m, x) = {x} \cup Passed(d, n, z)
      <4> HIDE DEF T, P
      <4>1. Passed(d, m, x) = {x} \cup Passed(d, m - 1, d[x].next)
        BY <2>1, <2>2, WalkFacts
      <4> QED BY <4>1, <2>1, <3>1
    <3>3. Piece(d, x, c) /\ \A y \in Passed(d, n, z) : Piece(d, y, c)
      BY <2>2, <3>2
    <3>4. PICK s : s = Walk(d)[n][z]
      OBVIOUS
    <3>5. \A j \in DOMAIN s : d[s[j]].chunk = [c |-> c, k |-> d[z].chunk.k + (j - 1)]
      BY <1>2, <3>3, <3>4
    <3> HIDE DEF T, P
    <3>6. s \in Seq(Blocks)
      BY <2>1, <3>4, WalkIsSeq
    <3>7. PICK t : t = Walk(d)[m][x]
      OBVIOUS
    <3>8. t = <<x>> \o s
      <4>1. Walk(d)[m][x] = <<x>> \o Walk(d)[m - 1][d[x].next]
        BY <2>1, <2>2, WalkStep
      <4> QED BY <2>1, <3>1, <3>4, <3>7, <4>1
    <3>9. /\ t \in Seq(Blocks) /\ Len(t) = 1 + Len(s)
          /\ \A j \in 1 .. 1 + Len(s) : t[j] = IF j <= 1 THEN x ELSE s[j - 1]
      <4>1. <<x>> \in Seq(Blocks) /\ Len(<<x>>) = 1 /\ <<x>>[1] = x
        BY <2>2
      <4> QED BY <3>6, <3>8, <4>1, ConcatProperties
    <3>10. DOMAIN t = 1 .. 1 + Len(s) /\ DOMAIN s = 1 .. Len(s) /\ Len(s) \in Nat /\ i \in DOMAIN t
      BY <2>2, <3>6, <3>7, <3>9, LenProperties
    <3>11. CASE i = 1
      <4>1. t[i] = x
        BY <3>9, <3>10, <3>11
      <4>2. d[x].chunk = [c |-> c, k |-> d[x].chunk.k] /\ d[x].chunk.k \in Nat
        BY <3>3 DEF Piece
      <4>3. d[x].chunk.k + (i - 1) = d[x].chunk.k
        BY <3>11, <4>2
      <4> QED BY <3>7, <4>1, <4>2, <4>3
    <3>12. CASE i # 1
      <4>1. PICK j \in DOMAIN s : j = i - 1 /\ t[i] = s[j]
        BY <3>9, <3>10, <3>12
      <4>2. d[s[j]].chunk = [c |-> c, k |-> d[z].chunk.k + (j - 1)]
        BY <3>5
      <4>3. z \in Blocks
        <5> SUFFICES ASSUME z \notin Blocks PROVE FALSE
          OBVIOUS
        <5>1. s = <<>>
          BY <2>1, <3>4, WalkStep
        <5>2. Len(s) = 0
          BY <5>1
        <5> QED BY <3>10, <5>2
      <4>4. d[z].chunk.k = d[x].chunk.k + 1 /\ d[x].chunk.k \in Nat
        BY <3>1, <3>3, <4>3 DEF Piece
      <4>5. d[z].chunk.k + (j - 1) = d[x].chunk.k + (i - 1)
        <5>1. PICK a \in Nat : a = d[x].chunk.k /\ d[z].chunk.k = a + 1
          BY <4>4
        <5>2. i \in Nat /\ j = i - 1
          BY <3>10, <4>1
        <5>3. (a + 1) + (j - 1) = a + (i - 1)
          BY <5>1, <5>2
        <5> QED BY <5>1, <5>3
      <4> QED BY <3>7, <4>1, <4>2, <4>5
    <3> QED BY <3>11, <3>12
  <2>3. \A x \in Ids : P(m, x)
    <3>1. ASSUME NEW x \in Ids PROVE P(m, x)
      <4>1. CASE x \in Blocks
        BY <2>2, <4>1
      <4>2. CASE x \notin Blocks
        BY <1>0, <4>2
      <4> QED BY <4>1, <4>2
    <3> QED BY <3>1
  <2> QED BY <2>1, <2>3
<1> HIDE DEF T
<1>3. 0 .. NBlocks \subseteq T
  BY <1>1, <1>2, StepInduct
<1> QED BY <1>3 DEF T

\* The pieces of a text from the first on make up a text.
LEMMA TextMade ==
  ASSUME NEW d \in Images, NEW x \in Ids, NEW c \in Contents, d[x].chunk.k = 0,
         \A y \in Reach(d, x) : Piece(d, y, c)
  PROVE  TextIn(d, x) \in Contents
<1>1. NBlocks \in 0 .. NBlocks
  BY Sizes
<1>2. PICK s : s = ChainOn(d, x)
  OBVIOUS
<1>3. \A i \in DOMAIN s : d[s[i]].chunk = [c |-> c, k |-> d[x].chunk.k + (i - 1)]
  BY <1>1, <1>2, Pieces DEF Reach, ChainOn
<1>4. DOMAIN s = 1 .. Len(s) /\ Len(s) \in Nat
  BY <1>2, ChainSeq, LenProperties
<1>5. \A i \in DOMAIN s : d[s[i]].chunk = [c |-> c, k |-> i - 1]
  <2>1. \A i \in DOMAIN s : d[x].chunk.k + (i - 1) = i - 1
    BY <1>4
  <2> QED BY <1>3, <2>1
<1>6. c \in Makes(d, s)
  BY <1>5 DEF Makes
<1>7. (CHOOSE a \in Makes(d, s) : TRUE) \in Makes(d, s)
  BY <1>6
<1> QED BY <1>2, <1>6, <1>7 DEF TextIn, Makes

-----------------------------------------------------------------------------
\* The entries that a user sees: those in use, and one that is being removed as
\* long as nothing of it is freed.
Begun(d, s) == Targeted(d, s) /\ ~Untried
Visible(d, s) ==
  Directory(d) /\ disk[d].slots[s].type # 0 /\ <<d, s>> \notin past.wrecks /\ ~Begun(d, s)
Shown(d, n) == {s \in Slots : Visible(d, s) /\ disk[d].slots[s].name = n}

\* The image as a user sees it.
View ==
  [d \in Blocks |-> [n \in Names |->
     IF Shown(d, n) = {} THEN Unused ELSE disk[d].slots[Min(Shown(d, n))]]]

\* The entries a user sees are those in use, all of files and directories; Victim
\* is the one begun.
LEMMA VisibleIs ==
  ASSUME IInv, TInv, formatted, NEW d \in Blocks, NEW s \in Slots
  PROVE  /\ Visible(d, s) => disk[d].slots[s].type \in {1, 2}
         /\ \A type \in {1, 2} : InUse(type, d, s) <=> Visible(d, s) /\ disk[d].slots[s].type = type
         /\ <<d, s>> = Victim <=> Begun(d, s)
<1>0. Pointers /\ Target /\ DirTypes
  BY DEF IInv, TInv
<1>1. <<d, s>> = Victim <=> Begun(d, s)
  <2>1. d # 0
    BY SetFacts
  <2> QED BY <2>1, VictimIs DEF Begun, Targeted
<1>2. Visible(d, s) => disk[d].slots[s].type \in {1, 2}
  BY <1>0 DEF Visible, DirTypes, Proper
<1>3. ASSUME NEW type \in {1, 2}
      PROVE  InUse(type, d, s) <=> Visible(d, s) /\ disk[d].slots[s].type = type
  <2>1. CASE ~Targeted(d, s)
    BY <2>1 DEF InUse, IsEntry, Visible, Begun, Targeted
  <2>2. CASE Targeted(d, s) /\ Untried
    <3>1. /\ Directory(d) /\ <<d, s>> \notin past.wrecks
          /\ disk[d].slots[s].type = (IF run.op = "myrm" THEN 1 ELSE 2)
      BY <1>0, <2>2 DEF Targeted, Target, Pointers
    <3> QED BY <2>2, <3>1 DEF InUse, IsEntry, Visible, Begun, Targeted
  <2>3. CASE Targeted(d, s) /\ ~Untried
    BY <2>3 DEF InUse, IsEntry, Visible, Begun, Targeted
  <2> QED BY <2>1, <2>2, <2>3
<1> QED BY <1>1, <1>2, <1>3

\* What the view holds under a name.
LEMMA ViewIs ==
  ASSUME IInv, TInv, formatted, NEW d \in Blocks, NEW n \in Names
  PROVE  \/ View[d][n] = Unused /\ \A s \in Slots : Visible(d, s) => disk[d].slots[s].name # n
         \/ \E s \in Slots : Visible(d, s) /\ disk[d].slots[s].name = n /\ View[d][n] = disk[d].slots[s]
<1>1. CASE Shown(d, n) = {}
  BY <1>1 DEF View, Shown
<1>2. CASE Shown(d, n) # {}
  <2>1. Shown(d, n) \subseteq Nat
    BY SetFacts DEF Shown
  <2>2. PICK T : T = Shown(d, n)
    OBVIOUS
  <2>3. Min(T) \in T
    BY <1>2, <2>1, <2>2, MinIn
  <2>4. View[d][n] = disk[d].slots[Min(Shown(d, n))]
    BY <1>2 DEF View
  <2> QED BY <2>2, <2>3, <2>4 DEF Shown
<1> QED BY <1>1, <1>2

\* Names are unique: a visible entry is what the view holds under its name.
LEMMA VisibleInView ==
  ASSUME IInv, TInv, formatted, WholeNames, NEW d \in Blocks, NEW s \in Slots, Visible(d, s),
         disk[d].slots[s].name \in Names
  PROVE  View[d][disk[d].slots[s].name] = disk[d].slots[s]
<1>1. PICK n \in Names : n = disk[d].slots[s].name
  OBVIOUS
<1>2. PICK t \in Slots : Visible(d, t) /\ disk[d].slots[t].name = n /\ View[d][n] = disk[d].slots[t]
  BY <1>1, ViewIs
<1>3. t = s
  <2>1. disk[d].slots[s].type \in {1, 2} /\ disk[d].slots[t].type \in {1, 2} /\ Directory(d)
    BY <1>2, VisibleIs DEF Visible
  <2> QED BY <1>1, <1>2, <2>1 DEF IInv, NewName
<1> QED BY <1>1, <1>2, <1>3

\* What a user sees hangs together as a tree.
LEMMA ViewTreelike == ASSUME IInv, TInv, formatted PROVE Treelike(View)
<1>1. ASSUME NEW b \in Blocks, NEW n \in Names, View[b][n].type # 0
      PROVE  \E s \in Slots : /\ Visible(b, s) /\ View[b][n] = disk[b].slots[s] /\ disk[b].slots[s].name = n
                              /\ disk[b].slots[s].type \in {1, 2}
  <2>1. View[b][n] # Unused
    BY <1>1 DEF Unused, Entry
  <2> QED BY <2>1, ViewIs, VisibleIs
<1>2. ASSUME NEW b \in Blocks, NEW n \in Names PROVE View[b][n].type \in {0, 1, 2}
  BY <1>1
<1>3. ASSUME NEW b \in Blocks, NEW n \in Names, View[b][n].type = 2
      PROVE  \E s \in Slots : InUse(2, b, s) /\ View[b][n].first = First(b, s) /\ disk[b].slots[s].name = n
  <2>1. PICK s \in Slots : Visible(b, s) /\ View[b][n] = disk[b].slots[s] /\ disk[b].slots[s].name = n
    BY <1>1, <1>3
  <2>2. InUse(2, b, s)
    BY <1>3, <2>1, VisibleIs
  <2> QED BY <2>1, <2>2 DEF First
<1>4. ASSUME NEW b \in Blocks, NEW n \in Names, View[b][n].type = 2
      PROVE  View[b][n].first \in Blocks \ {Root}
  <2>1. PICK s \in Slots : InUse(2, b, s) /\ View[b][n].first = First(b, s)
    BY <1>3, <1>4
  <2>2. First(b, s) \in Blocks /\ tag[First(b, s)] = "dir"
    BY <2>1, DirsInUse
  <2> QED BY <2>1, <2>2 DEF IInv, Pointers
<1>5. ASSUME NEW b \in Blocks, NEW c \in Blocks, NEW m \in Names, NEW n \in Names,
             View[b][m].type = 2, View[c][n].type = 2, View[b][m].first = View[c][n].first
      PROVE  b = c /\ m = n
  <2>1. PICK s \in Slots : InUse(2, b, s) /\ View[b][m].first = First(b, s) /\ disk[b].slots[s].name = m
    BY <1>3, <1>5
  <2>2. PICK t \in Slots : InUse(2, c, t) /\ View[c][n].first = First(c, t) /\ disk[c].slots[t].name = n
    BY <1>3, <1>5
  <2>3. First(b, s) = First(c, t)
    BY <1>5, <2>1, <2>2
  <2>4. \A d, x \in Blocks, u, w \in Slots :
          InUse(2, d, u) /\ InUse(2, x, w) /\ First(d, u) = First(x, w) => d = x /\ u = w
    BY DirsInUse
  <2>5. b = c /\ s = t
    BY <2>1, <2>2, <2>3, <2>4
  <2> QED BY <2>1, <2>2, <2>5
<1> QED BY <1>2, <1>4, <1>5 DEF Treelike
-----------------------------------------------------------------------------
\* One token of a lookup, from a directory.
LEMMA TokenLooked ==
  ASSUME IInv, TInv, formatted, WholeNames, NEW e, e.type = 2 => Directory(e.first), NEW n \in Names
  PROVE  LookupToken(e, n) = Token(View, e, n)
<1>1. CASE e.type # 2
  BY <1>1 DEF LookupToken, Token
<1>2. CASE e.type = 2
  <2>1. PICK d \in Blocks : d = e.first /\ Directory(d)
    BY <1>2 DEF Directory
  <2>2. Token(View, e, n) = View[d][n]
    BY <1>2, <2>1 DEF Token
  <2>3. disk[d].slots \in [Slots -> Entries]
    BY TypeFacts DEF IInv
  <2>4. CASE ~Found(disk[d].slots, n)
    <3>1. LookupToken(e, n) = Unused
      BY <2>1, <2>4 DEF LookupToken
    <3>2. \A s \in Slots : Visible(d, s) => disk[d].slots[s].name # n
      BY <2>4 DEF Found, Matches, Visible
    <3> QED BY <2>2, <3>1, <3>2, ViewIs
  <2>5. CASE Found(disk[d].slots, n)
    <3>1. PICK s \in Slots : s = FindSlot(disk[d].slots, n) /\ disk[d].slots[s].type # 0
                             /\ disk[d].slots[s].name = n
      BY <2>3, <2>5, FindSlotIs
    <3>2. LookupToken(e, n) = IF <<d, s>> \in past.wrecks \cup {Victim} THEN Unused ELSE disk[d].slots[s]
      BY <1>2, <2>1, <2>5, <3>1 DEF LookupToken
    <3>3. Visible(d, s) <=> <<d, s>> \notin past.wrecks \cup {Victim}
      BY <2>1, <3>1, VisibleIs DEF Visible
    <3>4. CASE Visible(d, s)
      <4>1. View[d][n] = disk[d].slots[s]
        BY <3>1, <3>4, VisibleInView
      <4> QED BY <2>2, <3>2, <3>3, <3>4, <4>1
    <3>5. CASE ~Visible(d, s)
      <4>1. ASSUME NEW t \in Slots, Visible(d, t), disk[d].slots[t].name = n PROVE FALSE
        <5>1. disk[d].slots[t].type \in {1, 2} /\ disk[d].slots[s].type \in {1, 2} /\ s # t
          BY <2>1, <3>1, <3>5, <4>1, VisibleIs DEF TInv, DirTypes, Proper
        <5> QED BY <2>1, <3>1, <4>1, <5>1 DEF IInv, NewName
      <4>2. View[d][n] = Unused
        BY <4>1, ViewIs
      <4> QED BY <2>2, <3>2, <3>3, <3>5, <4>2
    <3> QED BY <3>4, <3>5
  <2> QED BY <2>4, <2>5
<1> QED BY <1>1, <1>2

\* A directory in the view is one on the image.
LEMMA ViewDirectory ==
  ASSUME IInv, TInv, formatted, NEW d \in Blocks, NEW n \in Names, View[d][n].type = 2
  PROVE  Directory(View[d][n].first)
<1>1. View[d][n] # Unused
  BY DEF Unused, Entry
<1>2. PICK s \in Slots : Visible(d, s) /\ View[d][n] = disk[d].slots[s]
  BY <1>1, ViewIs
<1>3. InUse(2, d, s)
  BY <1>2, VisibleIs
<1>4. First(d, s) \in Blocks /\ tag[First(d, s)] = "dir"
  BY <1>3, DirsInUse
<1> QED BY <1>2, <1>4 DEF First, Directory

\* A lookup, as Lookup follows it: u is what the rule makes of w, k tokens far.
LooksUp(p, k, w, u) ==
  u = [i \in 0 .. k |-> IF i = 0 THEN Entry(2, NoName, Root, 0) ELSE LookupToken(w[i - 1], p[i])]

\* One token of the walk that Lookup is defined by.
LEMMA LooksUpSelf ==
  ASSUME NEW p, NEW k, NEW w, LooksUp(p, k, w, w), NEW i \in 0 .. k
  PROVE  w[i] = IF i = 0 THEN Entry(2, NoName, Root, 0) ELSE LookupToken(w[i - 1], p[i])
<1>1. ASSUME NEW u, LooksUp(p, k, w, u)
      PROVE  u[i] = IF i = 0 THEN Entry(2, NoName, Root, 0) ELSE LookupToken(w[i - 1], p[i])
  BY <1>1 DEF LooksUp
<1> QED BY <1>1

\* A lookup on the image is a walk in its view.
LEMMA LookupIsLook ==
  ASSUME IInv, TInv, formatted, WholeNames, NEW p \in Seq(Names)
  PROVE  Lookup(p) = Look(View, p)
<1>0. PICK k \in Nat : k = Len(p) /\ \A i \in 1 .. k : p[i] \in Names
  BY LenProperties, ElementOfSeq
<1>1. PICK x : x = CHOOSE u : Looks(View, p, Len(p), u, u)
  OBVIOUS
<1>2. Looks(View, p, k, x, x)
  BY <1>0, <1>1, LooksExists
<1>d. Directory(Root)
  BY SetFacts DEF Directory, IInv, Pointers
<1> DEFINE T == {i \in Nat : i <= k => (x[i].type = 2 => Directory(x[i].first))}
<1>3. 0 \in T
  <2>1. 0 \in 0 .. k
    OBVIOUS
  <2>2. x[0] = RootEntry
    BY <1>2, <2>1, LooksSelf
  <2> QED BY <1>d, <2>2 DEF RootEntry, Entry
<1>4. ASSUME NEW i \in Nat, i \in T PROVE i + 1 \in T
  <2> SUFFICES ASSUME i + 1 <= k, x[i + 1].type = 2 PROVE Directory(x[i + 1].first)
    OBVIOUS
  <2>1. PICK j \in 0 .. k : j = i + 1 /\ j # 0 /\ j - 1 = i /\ j \in 1 .. k
    OBVIOUS
  <2>2. x[i].type = 2 => Directory(x[i].first)
    BY <1>4
  <2>a. x[j].type = 2
    BY <2>1
  <2>b. x[j] = Token(View, x[j - 1], p[j])
    <3> HIDE DEF T
    <3> QED BY <1>2, <2>1, LooksSelf
  <2> HIDE DEF T
  <2>3. x[j] = Token(View, x[i], p[j]) /\ p[j] \in Names
    BY <1>0, <2>1, <2>b
  <2>4. x[i].type = 2
    BY <2>a, <2>3 DEF Token, Unused, Entry
  <2>5. PICK d \in Blocks : d = x[i].first
    BY <2>2, <2>4 DEF Directory
  <2>6. x[j] = View[d][p[j]]
    BY <2>3, <2>4, <2>5 DEF Token
  <2>7. PICK n \in Names : n = p[j]
    BY <2>3
  <2>8. Directory(View[d][n].first)
    BY <2>a, <2>6, <2>7, ViewDirectory
  <2> QED BY <2>1, <2>6, <2>7, <2>8
<1>5. \A i \in 0 .. k : x[i].type = 2 => Directory(x[i].first)
  <2>1. Nat \subseteq T
    <3> HIDE DEF T
    <3> QED BY <1>3, <1>4, Induct
  <2> QED BY <2>1
<1> HIDE DEF T
<1>6. ASSUME NEW i \in 1 .. k PROVE x[i] = LookupToken(x[i - 1], p[i])
  <2>1. i \in 0 .. k /\ i # 0 /\ i - 1 \in 0 .. k /\ p[i] \in Names
    BY <1>0
  <2>2. x[i] = Token(View, x[i - 1], p[i])
    BY <1>2, <2>1, LooksSelf
  <2>3. PICK e : e = x[i - 1]
    OBVIOUS
  <2>4. e.type = 2 => Directory(e.first)
    BY <1>5, <2>1, <2>3
  <2>5. LookupToken(e, p[i]) = Token(View, e, p[i])
    BY <2>1, <2>4, TokenLooked
  <2> QED BY <2>2, <2>3, <2>5
<1>7. LooksUp(p, k, x, x)
  <2> DEFINE g == [i \in 0 .. k |-> IF i = 0 THEN Entry(2, NoName, Root, 0) ELSE LookupToken(x[i - 1], p[i])]
  <2>1. x = [i \in 0 .. k |-> x[i]]
    BY <1>2 DEF Looks
  <2>2. \A i \in 0 .. k : x[i] = g[i]
    <3>1. ASSUME NEW i \in 0 .. k PROVE x[i] = g[i]
      <4>1. CASE i = 0
        <5>1. x[i] = RootEntry
          BY <1>2, <4>1, LooksSelf
        <5> QED BY <4>1, <5>1 DEF RootEntry
      <4>2. CASE i # 0
        <5>1. i \in 1 .. k
          BY <4>2
        <5> QED BY <1>6, <4>2, <5>1
      <4> QED BY <4>1, <4>2
    <3> QED BY <3>1
  <2>3. g = [i \in 0 .. k |-> g[i]]
    OBVIOUS
  <2> HIDE DEF g
  <2>4. x = g
    BY <2>1, <2>2, <2>3
  <2> QED BY <2>4 DEF g, LooksUp
<1>8. PICK w : w = CHOOSE u : LooksUp(p, Len(p), u, u)
  OBVIOUS
<1>9. LooksUp(p, k, w, w)
  BY <1>0, <1>7, <1>8
<1>10. Lookup(p) = w[k]
  BY <1>0, <1>8 DEF Lookup, LooksUp
<1> DEFINE S == {i \in Nat : i <= k => w[i] = x[i]}
<1>11. 0 \in S
  <2>1. 0 \in 0 .. k
    OBVIOUS
  <2>2. w[0] = Entry(2, NoName, Root, 0) /\ x[0] = Entry(2, NoName, Root, 0)
    BY <1>7, <1>9, <2>1, LooksUpSelf
  <2> QED BY <2>2
<1>12. ASSUME NEW i \in Nat, i \in S PROVE i + 1 \in S
  <2> SUFFICES ASSUME i + 1 <= k PROVE w[i + 1] = x[i + 1]
    OBVIOUS
  <2>1. PICK j \in 0 .. k : j = i + 1 /\ j # 0 /\ j - 1 = i
    OBVIOUS
  <2>2. w[i] = x[i]
    BY <1>12
  <2> HIDE DEF S
  <2>3. w[j] = LookupToken(w[j - 1], p[j])
    BY <1>9, <2>1, LooksUpSelf
  <2>4. x[j] = LookupToken(x[j - 1], p[j])
    BY <1>7, <2>1, LooksUpSelf
  <2> QED BY <2>1, <2>2, <2>3, <2>4
<1>13. w[k] = x[k]
  <2>1. k \in S
    <3> HIDE DEF S
    <3> QED BY <1>11, <1>12, Induct
  <2> QED BY <2>1
<1> QED BY <1>0, <1>1, <1>10, <1>13 DEF Look

-----------------------------------------------------------------------------
\* The text of a file, as mycopyFrom puts it together, is that in its chain.
LEMMA TextOfFile ==
  ASSUME NEW e, e.first \in Ids
  PROVE  TextOf(CopyFrom(e)) = Texts[e.first]
<1>1. PICK s : s = Chain(e.first)
  OBVIOUS
<1>2. PICK pieces : pieces = CopyFrom(e)
  OBVIOUS
<1>3. DOMAIN pieces = DOMAIN s /\ \A i \in DOMAIN s : pieces[i].chunk = disk[s[i]].chunk
  BY <1>1, <1>2 DEF CopyFrom
<1>4. {c \in Contents : \A i \in DOMAIN pieces : pieces[i].chunk = [c |-> c, k |-> i - 1]} = Makes(disk, s)
  BY <1>3 DEF Makes
<1>5. s = ChainOn(disk, e.first)
  BY <1>1, ChainIs
<1>6. Texts[e.first] = TextIn(disk, e.first)
  BY DEF Texts
<1> QED BY <1>2, <1>4, <1>5, <1>6 DEF TextOf, TextIn

\* The tree of the model is that of the view.
LEMMA TreeInView ==
  ASSUME IInv, TInv, WholeNames, PathsClosed, formatted
  PROVE  Tree = TreeOf(View, Texts)
<1>1. Paths \subseteq Seq(Names) /\ Treelike(View)
  BY PathsAre, ViewTreelike
<1>2. ASSUME NEW q \in Paths
      PROVE  /\ Lookup(q) = Look(View, q)
             /\ Lookup(q).type \in {1, 2} <=> q \in Led(View)
             /\ q \in Led(View) => Node(q, Lookup(q)) = NodeOf(q, Look(View, q), Texts)
  <2>1. q \in Seq(Names)
    BY <1>1
  <2>2. Lookup(q) = Look(View, q)
    BY <2>1, LookupIsLook
  <2>3. /\ Look(View, q).type \in {0, 1, 2}
        /\ Look(View, q).type = 1 => \E c \in Blocks, m \in Names : Look(View, q) = View[c][m]
    BY <1>1, <2>1, LookTypes
  <2>4. ASSUME Look(View, q).type = 1
        PROVE  TextOf(CopyFrom(Look(View, q))) = Texts[Look(View, q).first]
    <3>1. PICK c \in Blocks, m \in Names : Look(View, q) = View[c][m]
      BY <2>3, <2>4
    <3>2. View[c][m] # Unused
      BY <2>4, <3>1 DEF Unused, Entry
    <3>3. PICK s \in Slots : View[c][m] = disk[c].slots[s]
      BY <3>2, ViewIs
    <3>4. disk[c].slots[s] \in Entries
      BY TypeFacts DEF IInv
    <3>5. Look(View, q).first \in Ids
      BY <3>1, <3>3, <3>4 DEF Entries
    <3>6. PICK e : e = Look(View, q) /\ e.first \in Ids
      BY <3>5
    <3> QED BY <3>6, TextOfFile
  <2>5. q \in Led(View) <=> Look(View, q).type # 0
    BY DEF Led
  <2>6. Look(View, q).type # 0 => Node(q, Look(View, q)) = NodeOf(q, Look(View, q), Texts)
    BY <2>3, <2>4 DEF Node, NodeOf
  <2> QED BY <2>2, <2>3, <2>5, <2>6
<1>3. Tree = {Node(f[1], f[2]) : f \in {g \in {<<q, Lookup(q)>> : q \in Paths} : g[2].type \in {1, 2}}}
  BY DEF Tree
<1>4. Led(View) \subseteq Paths
  BY DEF Led
<1>5. ASSUME NEW x \in Tree PROVE x \in TreeOf(View, Texts)
  <2>1. PICK q \in Paths : Lookup(q).type \in {1, 2} /\ x = Node(q, Lookup(q))
    BY <1>3, <1>5
  <2>2. q \in Led(View) /\ x = NodeOf(q, Look(View, q), Texts)
    BY <1>2, <2>1
  <2> QED BY <2>2 DEF TreeOf
<1>6. ASSUME NEW x \in TreeOf(View, Texts) PROVE x \in Tree
  <2>1. PICK q \in Led(View) : x = NodeOf(q, Look(View, q), Texts)
    BY <1>6 DEF TreeOf
  <2>2. q \in Paths /\ Lookup(q).type \in {1, 2} /\ x = Node(q, Lookup(q))
    BY <1>2, <1>4, <2>1
  <2>3. PICK f : f = <<q, Lookup(q)>>
    OBVIOUS
  <2>4. f[1] = q /\ f[2] = Lookup(q)
    BY <2>3
  <2>5. f \in {g \in {<<r, Lookup(r)>> : r \in Paths} : g[2].type \in {1, 2}}
    BY <2>2, <2>3, <2>4
  <2> QED BY <1>3, <2>2, <2>4, <2>5
<1> QED BY <1>5, <1>6
-----------------------------------------------------------------------------
\* The same at both ends of a step, in a form that holds at each.
ViewHolds ==
  /\ Treelike(View)
  /\ \A d \in Blocks, s \in Slots : Visible(d, s) => disk[d].slots[s].type \in {1, 2}
TreeHolds == Tree = TreeOf(View, Texts)
Covered == WholeNames /\ PathsClosed

\* On a formatted image, the view is a tree and the tree is that of the view.
LEMMA ViewAlways == IInv /\ TInv /\ Covered /\ formatted => ViewHolds /\ TreeHolds
<1> SUFFICES ASSUME IInv, TInv, Covered, formatted PROVE ViewHolds /\ TreeHolds
  OBVIOUS
<1>1. Treelike(View) /\ \A d \in Blocks, s \in Slots : Visible(d, s) => disk[d].slots[s].type \in {1, 2}
  BY ViewTreelike, VisibleIs
<1>2. Tree = TreeOf(View, Texts)
  BY TreeInView DEF Covered
<1> QED BY <1>1, <1>2 DEF ViewHolds, TreeHolds

\* The same after a step.
LEMMA ViewNext == IInv' /\ TInv' /\ Covered /\ formatted' => ViewHolds' /\ TreeHolds'
<1>1. Covered => Covered'
  BY DEF Covered, WholeNames, PathsClosed
<1> QED BY <1>1, ViewAlways, PTL

-----------------------------------------------------------------------------
\* The view of the entries V of the image d.
Visibles == {ds \in Blocks \X Slots : Visible(ds[1], ds[2])}
Named(d, V, b, n) == {s \in Slots : <<b, s>> \in V /\ d[b].slots[s].name = n}
ViewOf(d, V) ==
  [b \in Blocks |-> [n \in Names |->
     IF Named(d, V, b, n) = {} THEN Unused ELSE d[b].slots[Min(Named(d, V, b, n))]]]

\* The view is what the entries that a user sees make of the image.
LEMMA ViewIsOf ==
  /\ View = ViewOf(disk, Visibles)
  /\ \A d \in Blocks, s \in Slots : <<d, s>> \in Visibles <=> Visible(d, s)
<1>1. \A d \in Blocks, s \in Slots : <<d, s>> \in Visibles <=> Visible(d, s)
  BY DEF Visibles
<1>2. \A d \in Blocks, n \in Names : Named(disk, Visibles, d, n) = Shown(d, n)
  BY <1>1 DEF Named, Shown
<1>3. View = ViewOf(disk, Visibles)
  BY <1>2 DEF View, ViewOf
<1> QED BY <1>1, <1>3

ViewSound == View = ViewOf(disk, Visibles)

\* The same, in a form that holds after a step too.
LEMMA ViewIsSound == ViewSound
BY ViewIsOf DEF ViewSound

\* The slots in use of each directory have the same entries.
SameSlots(d, e, V) == \A b \in Blocks, s \in Slots : <<b, s>> \in V => e[b].slots[s] = d[b].slots[s]

\* The entry that a view takes, among those of a name, is one of them.
LEMMA NamedIn ==
  ASSUME NEW d, NEW V, NEW b \in Blocks, NEW n, Named(d, V, b, n) # {}
  PROVE  \E s \in Slots : /\ s = Min(Named(d, V, b, n)) /\ <<b, s>> \in V /\ d[b].slots[s].name = n
                          /\ s \in Named(d, V, b, n)
<1>1. PICK T : T = Named(d, V, b, n)
  OBVIOUS
<1>2. T \subseteq Nat /\ T # {}
  BY <1>1, SetFacts DEF Named
<1>3. Min(T) \in T
  BY <1>2, MinIn
<1> QED BY <1>1, <1>3 DEF Named

\* The view depends on the entries that a user sees and on no others.
LEMMA SameView ==
  ASSUME NEW d, NEW e, NEW V, SameSlots(d, e, V)
  PROVE  ViewOf(e, V) = ViewOf(d, V)
<1>1. ASSUME NEW b \in Blocks, NEW n \in Names
      PROVE  (IF Named(e, V, b, n) = {} THEN Unused ELSE e[b].slots[Min(Named(e, V, b, n))])
               = (IF Named(d, V, b, n) = {} THEN Unused ELSE d[b].slots[Min(Named(d, V, b, n))])
  <2>1. Named(e, V, b, n) = Named(d, V, b, n)
    BY DEF Named, SameSlots
  <2>2. CASE Named(d, V, b, n) # {}
    <3>1. PICK s \in Slots : s = Min(Named(d, V, b, n)) /\ <<b, s>> \in V
      BY <2>2, NamedIn
    <3> QED BY <2>1, <3>1 DEF SameSlots
  <2> QED BY <2>1, <2>2
<1> QED BY <1>1 DEF ViewOf

\* One more entry in use, under a name that the others in its directory have not.
LEMMA ViewMore ==
  ASSUME NEW d, NEW e, NEW V, NEW W, SameSlots(d, e, V), NEW b \in Blocks, NEW k \in Slots,
         <<b, k>> \notin V, W = V \cup {<<b, k>>}, NEW n \in Names, n = e[b].slots[k].name,
         NEW x, x = e[b].slots[k], x.type \in {1, 2},
         \A s \in Slots : <<b, s>> \in V => d[b].slots[s].name # n,
         x.type = 2 => \A s \in Slots : <<x.first, s>> \notin W /\ x.first \in Blocks
  PROVE  OneMore(ViewOf(d, V), ViewOf(e, W), b, n, x)
<1>1. ASSUME NEW c \in Blocks, NEW m \in Names
      PROVE  Named(e, W, c, m) = IF c = b /\ m = n THEN Named(d, V, c, m) \cup {k} ELSE Named(d, V, c, m)
  BY DEF Named, SameSlots
<1>2. Named(d, V, b, n) = {}
  BY DEF Named
<1>3. ViewOf(d, V)[b][n] = Unused
  BY <1>2 DEF ViewOf
<1>4. ViewOf(e, W)[b][n] = x
  <2>1. Named(e, W, b, n) = {k}
    BY <1>1, <1>2
  <2>a. k \in Nat
    BY SetFacts
  <2>b. PICK T : T = {k}
    OBVIOUS
  <2>2. T \subseteq Nat /\ T # {}
    BY <2>a, <2>b
  <2>3. Min(T) \in T
    BY <2>2, MinIn
  <2>4. Min(Named(e, W, b, n)) = k
    BY <2>1, <2>b, <2>3
  <2> QED BY <2>1, <2>4 DEF ViewOf
<1>5. ASSUME NEW c \in Blocks, NEW m \in Names, c # b \/ m # n PROVE ViewOf(e, W)[c][m] = ViewOf(d, V)[c][m]
  <2>1. Named(e, W, c, m) = Named(d, V, c, m)
    BY <1>1, <1>5
  <2>2. CASE Named(d, V, c, m) = {}
    BY <2>1, <2>2 DEF ViewOf
  <2>3. CASE Named(d, V, c, m) # {}
    <3>1. PICK s \in Slots : /\ s = Min(Named(d, V, c, m)) /\ <<c, s>> \in V /\ d[c].slots[s].name = m
                            /\ s \in Named(d, V, c, m)
      BY <2>3, NamedIn, Zenon
    <3>2. e[c].slots[s] = d[c].slots[s]
      BY <3>1 DEF SameSlots
    <3> QED BY <2>1, <2>3, <3>1, <3>2 DEF ViewOf
  <2> QED BY <2>2, <2>3
<1>6. ASSUME x.type = 2, NEW m \in Names PROVE ViewOf(e, W)[x.first][m] = Unused
  <2>1. x.first \in Blocks /\ \A s \in Slots : <<x.first, s>> \notin W
    BY <1>6, SetFacts
  <2>2. Named(e, W, x.first, m) = {}
    BY <2>1 DEF Named
  <2> QED BY <2>1, <2>2 DEF ViewOf
<1> QED BY <1>3, <1>4, <1>5, <1>6 DEF OneMore
-----------------------------------------------------------------------------
\* The files in the view read back as before a step that leaves their blocks alone.
LEMMA TextKept ==
  ASSUME IInv, TypeOK', formatted, NEW d \in Blocks, NEW s \in Slots, InUse(1, d, s),
         \A b \in On(First(d, s)) : disk'[b].next = disk[b].next /\ disk'[b].chunk = disk[b].chunk
  PROVE  Texts'[First(d, s)] = Texts[First(d, s)]
<1>1. disk \in Images /\ disk' \in Images
  BY DEF IInv, TypeOK, Images
<1>2. First(d, s) \in Ids
  BY FilesInUse, Sizes
<1>3. PICK x \in Ids : x = First(d, s)
  BY <1>2
<1>4. TextIn(disk', x) = TextIn(disk, x)
  BY <1>1, <1>3, SameText DEF On
<1>5. Texts'[x] = TextIn(disk', x) /\ Texts[x] = TextIn(disk, x)
  BY DEF Texts
<1> QED BY <1>3, <1>4, <1>5

\* No file in the view reads differently when no block of one is written.
LEMMA TextsKept ==
  ASSUME IInv, TInv, TypeOK', formatted,
         \A d \in Blocks, s \in Slots : InUse(1, d, s) =>
           \A b \in On(First(d, s)) : disk'[b].next = disk[b].next /\ disk'[b].chunk = disk[b].chunk
  PROVE  SameTexts(View, Texts, Texts')
<1>1. ASSUME NEW c \in Blocks, NEW m \in Names, View[c][m].type = 1
      PROVE  Texts'[View[c][m].first] = Texts[View[c][m].first]
  <2>1. View[c][m] # Unused
    BY <1>1 DEF Unused, Entry
  <2>2. PICK s \in Slots : Visible(c, s) /\ View[c][m] = disk[c].slots[s]
    BY <2>1, ViewIs
  <2>3. InUse(1, c, s)
    BY <1>1, <2>2, VisibleIs
  <2>4. View[c][m].first = First(c, s)
    BY <2>2 DEF First
  <2> QED BY <2>3, <2>4, TextKept
<1> QED BY <1>1 DEF SameTexts

\* Texts that agree on the files of a view make the same tree.
LEMMA SameTree ==
  ASSUME NEW v, Treelike(v), NEW T, NEW U, SameTexts(v, T, U), Paths \subseteq Seq(Names)
  PROVE  TreeOf(v, U) = TreeOf(v, T)
<1>1. \A q \in Led(v) : NodeOf(q, Look(v, q), U) = NodeOf(q, Look(v, q), T)
  BY NodesKept DEF Led
<1> QED BY <1>1 DEF TreeOf

\* An entry that the user sees, and the chain from it, as they were before the
\* step.
Older(d, s) ==
  /\ Visible(d, s) /\ disk'[d].slots[s] = disk[d].slots[s]
  /\ \A y \in On(First(d, s)) : disk'[y].next = disk[y].next
OldFilesBut(e) ==
  \A d \in Blocks, s \in Slots :
    Visible(d, s)' /\ disk'[d].slots[s].type = 1 => Older(d, s) \/ disk'[d].slots[s] = e
OldFiles == \A d \in Blocks, s \in Slots : Visible(d, s)' /\ disk'[d].slots[s].type = 1 => Older(d, s)

\* The step is a command on the tree, or changes nothing there.  PathsClosed is
\* needed for the tree only.
TreeAsIs == PathsClosed => Tree' = Tree
TreeAsCommanded == PathsClosed => Tree' = Tree \/ FT!Command(Tree, Tree')

\* What the user sees stays as it is.
LEMMA TreeKept ==
  ASSUME IInv, IInv', TInv, TInv', WholeNames, formatted, formatted',
         \A d \in Blocks, s \in Slots :
           (Visible(d, s)' <=> Visible(d, s)) /\ (Visible(d, s) => disk'[d].slots[s] = disk[d].slots[s]),
         \A d \in Blocks, s \in Slots : InUse(1, d, s) =>
           \A b \in On(First(d, s)) : disk'[b].next = disk[b].next /\ disk'[b].chunk = disk[b].chunk
  PROVE  TreeAsIs /\ OldFiles
<1>1. PathsClosed => Tree = TreeOf(View, Texts) /\ Treelike(View)
  BY ViewAlways DEF ViewHolds, TreeHolds, Covered
<1>2. PathsClosed => Tree' = TreeOf(View', Texts')
  BY ViewNext DEF TreeHolds, TreeOf, Led, NodeOf, Paths, Covered
<1>3. View' = View
  <2>1. Visibles' = Visibles
    BY DEF Visibles
  <2>2. SameSlots(disk, disk', Visibles)
    BY ViewIsOf DEF SameSlots
  <2>a. ViewSound'
    BY ViewIsSound, PTL
  <2>3. View' = ViewOf(disk', Visibles')
    BY <2>a DEF ViewSound
  <2> QED BY <2>1, <2>2, <2>3, SameView, ViewIsOf
<1>4. SameTexts(View, Texts, Texts')
  BY TextsKept DEF IInv
<1>5. PathsClosed => Paths \subseteq Seq(Names)
  BY PathsAre
<1>6. TreeAsIs
  BY <1>1, <1>2, <1>3, <1>4, <1>5, SameTree DEF TreeAsIs
<1>7. ASSUME NEW d \in Blocks, NEW s \in Slots, Visible(d, s)', disk'[d].slots[s].type = 1
      PROVE  Older(d, s)
  <2>1. Visible(d, s) /\ disk'[d].slots[s] = disk[d].slots[s]
    BY <1>7
  <2>2. InUse(1, d, s)
    BY <1>7, <2>1, VisibleIs
  <2> QED BY <2>1, <2>2 DEF Older
<1> QED BY <1>6, <1>7 DEF OldFiles

-----------------------------------------------------------------------------
\* A step of a command on a formatted image, with both invariants at its ends.
Both ==
  IInv /\ IInv' /\ TInv /\ TInv' /\ WholeNames /\ formatted /\ formatted' /\ Next
    /\ ~MkfsSuper /\ ~MkfsRoot /\ ~MkfsList /\ ~MkfsLast

\* What the invariants say at the ends of such a step.
LEMMA BothFacts ==
  ASSUME Both
  PROVE  /\ TypeOK /\ TypeOK' /\ Ordinary /\ WholeNames
         /\ disk \in Images /\ disk' \in Images /\ run \in Runs /\ tag \in [Blocks -> Tags]
         /\ Pointers /\ FreeBlocks /\ HeldBlocks /\ FileBlocks /\ DirBlocksOwned /\ Target /\ NewName
BY TypeFacts DEF Both, IInv, Ordinary, TypeOK, Images

\* A step that changes no directory, no file and no removal in progress.
LEMMA Quiet ==
  ASSUME Both, \A d \in Blocks : Directory(d)' <=> Directory(d),
         \A d \in Blocks : Directory(d) => disk'[d].slots = disk[d].slots,
         past'.wrecks = past.wrecks,
         \A d \in Blocks, s \in Slots : Begun(d, s)' <=> Begun(d, s),
         \A b \in Blocks : tag[b] = "file" => disk'[b] = disk[b]
  PROVE  TreeAsIs /\ OldFiles
<1>1. ASSUME NEW d \in Blocks, NEW s \in Slots
      PROVE  /\ Visible(d, s)' <=> Visible(d, s)
             /\ Visible(d, s) => disk'[d].slots[s] = disk[d].slots[s]
  BY <1>1 DEF Visible
<1>2. ASSUME NEW d \in Blocks, NEW s \in Slots, InUse(1, d, s), NEW b \in On(First(d, s))
      PROVE  disk'[b].next = disk[b].next /\ disk'[b].chunk = disk[b].chunk
  <2>1. b \in Blocks /\ tag[b] = "file"
    BY <1>2, FilesInUse DEF Both
  <2> QED BY <2>1
<1> QED BY <1>1, <1>2, TreeKept DEF Both

\* The tags of the blocks that a making command takes or gives up.
LEMMA TagsOf ==
  ASSUME tag \in [Blocks -> Tags],
         \/ tag' = tag
         \/ \E x \in Blocks : tag[x] \in {"free", "held", "file"} /\
              (tag' = [tag EXCEPT ![x] = "held"] \/ tag' = [tag EXCEPT ![x] = "free"])
         \/ \E to \in {"lost", "free", "file"} : tag' = Retag("held", to)
  PROVE  \A d \in Blocks : Directory(d)' <=> Directory(d)
BY DEF Directory, Retag

\* No removal before, and none that has begun after.
LEMMA NoneBegun ==
  ASSUME ~Removal, run'.op \notin {"myrm", "myrmdir"} \/ Untried'
  PROVE  \A d \in Blocks, s \in Slots : Begun(d, s)' <=> Begun(d, s)
BY DEF Begun, Targeted, Removal

\* Starting a command changes nothing that a user sees.
LEMMA TreeAtBegin == ASSUME Both, Begin PROVE TreeAsIs /\ OldFiles
<1>0. PICK path \in DirPaths, name \in Names :
        \/ \E c \in Contents, len \in Lengths : CopyToBegin(path, name, c, len)
        \/ RmBegin(path, name) \/ MkdirBegin(path, name) \/ RmdirBegin(path, name)
  BY DEF Begin, Both
<1>1. /\ disk' = disk /\ past' = past /\ run = Idle
      /\ (tag' = tag \/ (ffree # 0 /\ tag' = [tag EXCEPT ![ffree] = "held"]))
  BY <1>0 DEF CopyToBegin, RmBegin, MkdirBegin, RmdirBegin
<1>2. ~Removal
  BY <1>1, IdleIs DEF Removal
<1>3. \A d \in Blocks : Directory(d)' <=> Directory(d)
  <2>1. ffree # 0 => ffree \in Blocks /\ tag[ffree] = "free"
    <3> SUFFICES ASSUME ffree # 0 PROVE ffree \in Blocks /\ tag[ffree] = "free"
      OBVIOUS
    <3>1. ffree \in Blocks /\ ffree \in Ids
      BY BothFacts, Sizes DEF Pointers, Ids0
    <3>2. ffree \in On(ffree)
      BY <3>1, BothFacts, OnBlocks
    <3> QED BY <3>1, <3>2, BothFacts DEF FreeBlocks
  <2>2. tag \in [Blocks -> Tags]
    BY BothFacts
  <2> QED BY <1>1, <2>1, <2>2, TagsOf
<1>4. run'.op \notin {"myrm", "myrmdir"} \/ Untried'
  <2>1. CASE \E c \in Contents, len \in Lengths : CopyToBegin(path, name, c, len)
    BY <2>1 DEF CopyToBegin, Idle
  <2>2. CASE MkdirBegin(path, name)
    BY <2>2 DEF MkdirBegin, Idle
  <2>3. CASE RmBegin(path, name)
    BY <2>3 DEF RmBegin, Idle, Untried
  <2>4. CASE RmdirBegin(path, name)
    BY <2>4 DEF RmdirBegin, Idle, Untried
  <2> QED BY <1>0, <2>1, <2>2, <2>3, <2>4
<1>5. \A d \in Blocks, s \in Slots : Begun(d, s)' <=> Begun(d, s)
  BY <1>2, <1>4, NoneBegun
<1> QED BY <1>1, <1>3, <1>5, Quiet

\* A mycopyTo or mymkdir goes on, or gives up.
LEMMA TreeMaking ==
  ASSUME Both, Step, Making, ~CopyToEntry, ~MkdirEntry
  PROVE  TreeAsIs /\ OldFiles
<1>0. /\ ~Removal /\ TypeOK /\ TypeOK' /\ run \in Runs /\ tag \in [Blocks -> Tags]
      /\ disk \in Images /\ disk' \in Images /\ IInv /\ IInv'
  BY BothFacts DEF Making, Removal, Both
<1>1. run'.op \notin {"myrm", "myrmdir"} /\ past' = past
  BY <1>0, IdleIs DEF Step, Making, MkfsRoot, MkfsList, MkfsLast, CopyToAllocate, CopyToNoSpace,
     CopyToWriteFull, CopyToWriteShort, CopyToEntry, CopyToDirFull, RmFreeBlock, RmSuper, RmEntry, MkdirInit, MkdirEntry, MkdirUndoBlock,
     MkdirUndoSuper, RmdirFreeBlock, RmdirSuper, RmdirEntry, Runs
<1>2. \A d \in Blocks, s \in Slots : Begun(d, s)' <=> Begun(d, s)
  BY <1>0, <1>1, NoneBegun
<1>3. \A d \in Blocks : Directory(d)' <=> Directory(d)
  <2>1. CASE CopyToAllocate
    <3>1. run.op = "mycopyTo" /\ run.ff # 0 /\ tag' = [tag EXCEPT ![run.ff] = "held"]
      BY <2>1 DEF CopyToAllocate
    <3>2. run.ff = ffree /\ Pointers /\ \A b \in Blocks : tag[b] = "free" <=> b \in On(ffree)
      BY <1>0, <3>1, Copying
    <3>3. ffree \in Blocks /\ ffree \in Ids
      BY <3>1, <3>2, Sizes DEF Pointers, Ids0
    <3>4. tag[ffree] = "free"
      BY <1>0, <3>2, <3>3, OnBlocks
    <3> QED BY <1>0, <3>1, <3>2, <3>3, <3>4, TagsOf
  <2>2. CASE CopyToNoSpace \/ CopyToDirFull \/ MkdirUndoSuper
    BY <1>0, <2>2, TagsOf DEF CopyToNoSpace, CopyToDirFull, MkdirUndoSuper
  <2>3. CASE CopyToWriteFull \/ CopyToWriteShort \/ MkdirInit \/ MkdirUndoBlock
    BY <1>0, <2>3, TagsOf DEF CopyToWriteFull, CopyToWriteShort, MkdirInit, MkdirUndoBlock
  <2>4. ~(RmFreeBlock \/ RmSuper \/ RmEntry \/ RmdirFreeBlock \/ RmdirSuper \/ RmdirEntry)
    BY DEF Making, RmFreeBlock, RmSuper, RmEntry, RmdirFreeBlock, RmdirSuper, RmdirEntry
  <2>5. ~(MkfsRoot \/ MkfsList \/ MkfsLast)
    BY DEF Both
  <2> QED BY <2>1, <2>2, <2>3, <2>4, <2>5 DEF Step
<1>4. \A b \in Blocks : tag[b] # "held" => disk'[b] = disk[b]
  <2>1. CASE disk' = disk
    BY <2>1
  <2>2. CASE disk' # disk
    <3>1. \E x \in Blocks, new \in DataBlocks : tag[x] = "held" /\ disk' = [disk EXCEPT ![x] = new]
      <4>1. CASE CopyToWriteFull \/ CopyToWriteShort
        <5>1. run.op = "mycopyTo" /\ (run.cur # 0 => run.cur \in Blocks /\ tag[run.cur] = "held")
          <6>1. run.op = "mycopyTo"
            BY <4>1 DEF CopyToWriteFull, CopyToWriteShort
          <6> QED BY <1>0, <6>1, Copying
        <5>2. run.cur # 0
          <6>1. CASE CopyToWriteFull
            <7>1. run.at = "write" /\ HeldBlocks
              BY <6>1, BothFacts DEF CopyToWriteFull
            <7> QED BY <5>1, <7>1 DEF HeldBlocks
          <6>2. CASE CopyToWriteShort
            <7>1. run.left >= 1
              BY <1>0, <6>2, SizesAssumption DEF CopyToWriteShort
            <7> QED BY <1>0, <5>1, <7>1, Copying, SetFacts
          <6> QED BY <4>1, <6>1, <6>2
        <5>3. \A n \in Ids : TextBlock(n, run.c, run.k) \in DataBlocks
          BY <1>0, RunFields, NewBlocks
        <5>4. run.nxt \in Ids /\ 0 \in Ids
          BY <1>0, RunFields, SetFacts
        <5> QED BY <4>1, <5>1, <5>2, <5>3, <5>4 DEF CopyToWriteFull, CopyToWriteShort
      <4>2. CASE MkdirInit \/ MkdirUndoBlock
        <5>1. run.op = "mymkdir"
          BY <4>2 DEF MkdirInit, MkdirUndoBlock
        <5>2. run.first \in Blocks /\ tag[run.first] = "held"
          BY <1>0, <5>1, MakingDir
        <5>3. CASE MkdirInit
          <6>1. ZeroBlock(0) \in DataBlocks
            BY NewBlocks, SetFacts
          <6> QED BY <5>2, <5>3, <6>1 DEF MkdirInit
        <5>4. CASE MkdirUndoBlock
          <6>1. disk' = [disk EXCEPT ![run.first].next = run.ff] /\ run.ff \in Ids
            BY <1>0, <5>4, RunFields DEF MkdirUndoBlock
          <6>2. disk' = [disk EXCEPT ![run.first] = disk'[run.first]] /\ disk'[run.first] \in DataBlocks
            <7>1. \A b \in Blocks : b # run.first => disk'[b] = disk[b]
              BY <1>0, <6>1 DEF Images
            <7> QED BY <1>0, <5>2, <7>1 DEF Images
          <6> QED BY <5>2, <6>2
        <5> QED BY <4>2, <5>3, <5>4
      <4>3. CASE CopyToAllocate \/ CopyToNoSpace \/ CopyToDirFull \/ MkdirUndoSuper
        BY <2>2, <4>3 DEF CopyToAllocate, CopyToNoSpace, CopyToDirFull, MkdirUndoSuper
      <4>4. ~(RmFreeBlock \/ RmSuper \/ RmEntry \/ RmdirFreeBlock \/ RmdirSuper \/ RmdirEntry)
        BY DEF Making, RmFreeBlock, RmSuper, RmEntry, RmdirFreeBlock, RmdirSuper, RmdirEntry
      <4>5. ~(MkfsRoot \/ MkfsList \/ MkfsLast)
        BY DEF Both
      <4> QED BY <4>1, <4>2, <4>3, <4>4, <4>5 DEF Step
    <3>2. PICK x \in Blocks, new \in DataBlocks : tag[x] = "held" /\ disk' = [disk EXCEPT ![x] = new]
      BY <3>1
    <3> QED BY <1>0, <3>2 DEF Images
  <2> QED BY <2>1, <2>2
<1>5. /\ \A d \in Blocks : Directory(d) => disk'[d].slots = disk[d].slots
      /\ \A b \in Blocks : tag[b] = "file" => disk'[b] = disk[b]
  BY <1>4 DEF Directory
<1> QED BY <1>1, <1>2, <1>3, <1>5, Quiet

-----------------------------------------------------------------------------
\* A removal goes on after its first block is freed: the user does not see the
\* entry any more.
LEMMA TreeSuper == ASSUME Both, RmSuper \/ RmdirSuper PROVE TreeAsIs /\ OldFiles
<1>0. /\ Removal /\ ~Untried /\ run'.at = "entry" /\ run'.op = run.op
      /\ run'.dir = run.dir /\ run'.slot = run.slot
      /\ disk' = disk /\ tag' = tag /\ past' = past
  <2>1. run \in Runs /\ Target
    BY BothFacts
  <2>2. CASE RmSuper
    <3>1. /\ run.op = "myrm" /\ run.at = "free" /\ run.cur = 0 /\ run' = [run EXCEPT !.at = "entry"]
          /\ disk' = disk /\ tag' = tag /\ past' = past
      BY <2>2 DEF RmSuper
    <3>2. run.first # 0
      BY <2>1, <3>1, SetFacts DEF Target
    <3> QED BY <2>1, <3>1, <3>2 DEF Removal, Untried, Runs
  <2>3. CASE RmdirSuper
    BY <2>1, <2>3 DEF RmdirSuper, Removal, Untried, Runs
  <2> QED BY <2>2, <2>3
<1>1. \A d \in Blocks, s \in Slots : Begun(d, s)' <=> Begun(d, s)
  BY <1>0 DEF Begun, Targeted, Removal, Untried
<1>2. \A d \in Blocks : Directory(d)' <=> Directory(d)
  BY <1>0 DEF Directory
<1> QED BY <1>0, <1>1, <1>2, Quiet

\* A block of the file that is not its first.
LEMMA TreeFreeing ==
  ASSUME Both, RmFreeBlock, run.cur # run.first
  PROVE  TreeAsIs /\ OldFiles
<1>0. /\ TypeOK /\ disk \in Images /\ disk' \in Images /\ run \in Runs /\ tag \in [Blocks -> Tags]
      /\ Pointers /\ FileBlocks /\ Target
  BY BothFacts
<1>1. /\ run.op = "myrm" /\ run.at = "free" /\ run.cur # 0
      /\ disk' = [disk EXCEPT ![run.cur].next = run.ff]
      /\ run' = [run EXCEPT !.ff = run.cur, !.cur = disk[run.cur].next]
      /\ tag' = [tag EXCEPT ![run.cur] = "free"] /\ past' = past
  BY DEF RmFreeBlock
<1>2. Removal /\ ~Untried
  BY <1>1 DEF Removal, Untried
<1>3. PICK x \in Blocks : x = run.cur
  BY <1>0, <1>1 DEF Pointers, Ids0
<1>4. Stops(x) /\ \A b \in On(x) : tag[b] = "file"
  BY <1>0, <1>1, <1>3 DEF FileBlocks
<1>5. PICK n \in Ids : n = disk[x].next
  BY <1>0, TypeFacts
<1>6. On(x) = {x} \cup On(n) /\ x \in On(x) /\ tag[x] = "file"
  BY <1>0, <1>4, <1>5, FirstOnChain
<1>7. n # run.first
  <2>1. tag[run.first] = "free" /\ run.first \in Blocks
    BY <1>0, <1>1 DEF Target
  <2>2. n \in Blocks => tag[n] = "file"
    BY <1>0, <1>4, <1>6, OnBlocks
  <2> QED BY <2>1, <2>2
<1>8. /\ run'.op = "myrm" /\ run'.at = "free" /\ run'.cur = n /\ run'.first = run.first
      /\ run'.dir = run.dir /\ run'.slot = run.slot
  BY <1>0, <1>1, <1>3, <1>5 DEF Runs
<1>9. \A d \in Blocks, s \in Slots : Begun(d, s)' <=> Begun(d, s)
  BY <1>1, <1>2, <1>7, <1>8 DEF Begun, Targeted, Removal, Untried
<1>10. \A d \in Blocks : Directory(d)' <=> Directory(d)
  BY <1>0, <1>1, <1>3, <1>6, TagsOf
<1>11. \A b \in Blocks : b # x => disk'[b] = disk[b]
  BY <1>0, <1>1, <1>3 DEF Images
<1>12. ASSUME NEW d \in Blocks, NEW s \in Slots
       PROVE  /\ Visible(d, s)' <=> Visible(d, s)
              /\ Visible(d, s) => disk'[d].slots[s] = disk[d].slots[s]
  <2>1. Directory(d) => disk'[d] = disk[d]
    BY <1>6, <1>11 DEF Directory
  <2> QED BY <1>1, <1>9, <1>10, <2>1 DEF Visible
<1>13. ASSUME NEW d \in Blocks, NEW s \in Slots, InUse(1, d, s), NEW b \in On(First(d, s))
       PROVE  disk'[b].next = disk[b].next /\ disk'[b].chunk = disk[b].chunk
  <2>1. IsEntry(1, d, s)
    BY <1>2, <1>13 DEF InUse
  <2>2. b \notin On(run.cur) /\ b \in Blocks
    <3>1. b \in Blocks
      BY <1>13, FilesInUse DEF Both
    <3> QED BY <1>0, <1>1, <1>13, <2>1, <3>1 DEF FileBlocks
  <2> QED BY <1>3, <1>6, <1>11, <2>2
<1> QED BY <1>12, <1>13, TreeKept DEF Both

\* The entry is cleared at last.
LEMMA TreeCleared == ASSUME Both, RmEntry \/ RmdirEntry PROVE TreeAsIs /\ OldFiles
<1>0. /\ TypeOK /\ disk \in Images /\ disk' \in Images /\ run \in Runs /\ tag \in [Blocks -> Tags]
      /\ Pointers /\ FileBlocks /\ Target
  BY BothFacts
<1>1. /\ Removal /\ run.at = "entry"
      /\ disk' = [disk EXCEPT ![run.dir] = [run.dirblk EXCEPT !.slots[run.slot] = Unused]]
      /\ run' = Idle /\ tag' = tag /\ past' = past
  BY DEF RmEntry, RmdirEntry, Removal
<1>2. ~Untried /\ Directory(run.dir) /\ run.dirblk = disk[run.dir] /\ run.dir \in Blocks /\ run.slot \in Slots
  BY <1>0, <1>1, RunFields DEF Untried, Pointers, Directory
<1>3. /\ \A b \in Blocks, s \in Slots :
           disk'[b].slots[s] = IF b = run.dir /\ s = run.slot THEN Unused ELSE disk[b].slots[s]
      /\ \A b \in Blocks : b # run.dir => disk'[b] = disk[b]
  <2>1. disk[run.dir] \in DataBlocks
    BY <1>0, <1>2 DEF Images
  <2>2. \A s \in Slots : [disk[run.dir] EXCEPT !.slots[run.slot] = Unused].slots[s]
                           = IF s = run.slot THEN Unused ELSE disk[run.dir].slots[s]
    BY <1>2, <2>1, SlotWritten, SetFacts
  <2>3. disk'[run.dir] = [disk[run.dir] EXCEPT !.slots[run.slot] = Unused]
    BY <1>0, <1>1, <1>2 DEF Images
  <2>4. \A b \in Blocks : b # run.dir => disk'[b] = disk[b]
    BY <1>0, <1>1 DEF Images
  <2> QED BY <2>2, <2>3, <2>4
<1>4. \A d \in Blocks, s \in Slots : Begun(d, s)' = FALSE /\ (Begun(d, s) <=> d = run.dir /\ s = run.slot)
  <2>1. Removal' = FALSE
    BY <1>1, IdleIs DEF Removal
  <2> QED BY <1>1, <1>2, <2>1 DEF Begun, Targeted
<1>5. ASSUME NEW d \in Blocks, NEW s \in Slots
      PROVE  /\ Visible(d, s)' <=> Visible(d, s)
             /\ Visible(d, s) => disk'[d].slots[s] = disk[d].slots[s]
  <2>1. Unused.type = 0
    BY DEF Unused, Entry
  <2>2. Directory(d)' <=> Directory(d)
    BY <1>1 DEF Directory
  <2>3. CASE d = run.dir /\ s = run.slot
    <3>1. disk'[d].slots[s] = Unused
      BY <1>3, <2>3
    <3>2. ~Visible(d, s) /\ Visible(d, s)' = FALSE
      BY <1>4, <2>1, <2>3, <3>1 DEF Visible
    <3> QED BY <3>2
  <2>4. CASE ~(d = run.dir /\ s = run.slot)
    <3>1. disk'[d].slots[s] = disk[d].slots[s] /\ ~Begun(d, s) /\ Begun(d, s)' = FALSE
      BY <1>3, <1>4, <2>4
    <3> QED BY <1>1, <2>2, <3>1 DEF Visible
  <2> QED BY <2>3, <2>4
<1>6. ASSUME NEW d \in Blocks, NEW s \in Slots, InUse(1, d, s), NEW b \in On(First(d, s))
      PROVE  disk'[b].next = disk[b].next /\ disk'[b].chunk = disk[b].chunk
  <2>1. b \in Blocks /\ tag[b] = "file"
    BY <1>6, FilesInUse DEF Both
  <2>2. b # run.dir
    BY <1>2, <2>1 DEF Directory
  <2> QED BY <1>3, <2>1, <2>2
<1> QED BY <1>5, <1>6, TreeKept DEF Both

\* A command is killed: what it had begun to remove is out of sight already.
LEMMA TreeKilled == ASSUME Both, Kill PROVE TreeAsIs /\ OldFiles
<1>0. /\ TypeOK /\ disk \in Images /\ run \in Runs /\ tag \in [Blocks -> Tags] /\ IInv
      /\ Pointers /\ FileBlocks /\ Target /\ FreeBlocks
  BY BothFacts DEF Both
<1>1. /\ run' = Idle /\ disk' = disk /\ Removal' = FALSE
      /\ ~Removal => /\ past'.wrecks = past.wrecks
                     /\ \A b \in Blocks : tag'[b] = IF tag[b] = "held" THEN "lost" ELSE tag[b]
      /\ Removal /\ Untried =>
           /\ past'.wrecks = past.wrecks
           /\ \A b \in Blocks : tag'[b] = IF tag[b] = "held" THEN "lost" ELSE tag[b]
      /\ Removal /\ ~Untried =>
           /\ past'.wrecks = past.wrecks \cup {<<run.dir, run.slot>>}
           /\ \A b \in Blocks :
                tag'[b] = IF tag[b] = "held" \/ b \in On(run.cur) \/ b \in On(run.ff) \ On(ffree)
                          THEN "lost" ELSE tag[b]
  BY <1>0, Killed
<1>2. \A d \in Blocks : Directory(d)' <=> Directory(d)
  <2>1. CASE ~Removal \/ Untried
    <3>1. \A b \in Blocks : tag'[b] = IF tag[b] = "held" THEN "lost" ELSE tag[b]
      BY <1>1, <2>1
    <3> QED BY <3>1 DEF Directory
  <2>2. CASE Removal /\ ~Untried
    <3>1. \A b \in On(run.cur) : tag[b] = "file"
      <4>1. CASE run.op = "myrm"
        BY <1>0, <4>1 DEF FileBlocks
      <4>2. CASE run.op = "myrmdir"
        <5>1. run.cur = 0 /\ run.cur \in Ids /\ run.cur \notin Blocks
          BY <1>0, <4>2, SetFacts DEF Target
        <5> QED BY <1>0, <5>1, OnBlocks
      <4> QED BY <2>2, <4>1, <4>2 DEF Removal
    <3>2. \A b \in On(run.ff) : tag[b] = "free"
      <4>1. On(run.ff) \subseteq Blocks
        BY <1>0, <2>2, OnRemoval
      <4> QED BY <1>0, <2>2, <4>1 DEF FreeBlocks
    <3>3. \A b \in Blocks :
                tag'[b] = IF tag[b] = "held" \/ b \in On(run.cur) \/ b \in On(run.ff) \ On(ffree)
                          THEN "lost" ELSE tag[b]
      BY <1>1, <2>2
    <3> QED BY <3>1, <3>2, <3>3 DEF Directory
  <2> QED BY <2>1, <2>2
<1>3. ASSUME NEW d \in Blocks, NEW s \in Slots
      PROVE  /\ Visible(d, s)' <=> Visible(d, s)
             /\ Visible(d, s) => disk'[d].slots[s] = disk[d].slots[s]
  <2>1. Begun(d, s)' = FALSE
    BY <1>1 DEF Begun, Targeted
  <2>2. <<d, s>> \in past'.wrecks <=> <<d, s>> \in past.wrecks \/ Begun(d, s)
    BY <1>1 DEF Begun, Targeted
  <2>3. Directory(d)' <=> Directory(d)
    BY <1>2
  <2> QED BY <1>1, <2>1, <2>2, <2>3 DEF Visible
<1> QED BY <1>1, <1>3, TreeKept DEF Both

-----------------------------------------------------------------------------
\* The entry that a mycopyTo or mymkdir makes is new in the view.
LEMMA EntryMade ==
  ASSUME Both, Making, run' = Idle, past' = past, run.name \in Names,
         NEW type \in {1, 2}, NEW to, to = (IF type = 1 THEN "file" ELSE "dir"), NEW size \in Nat,
         tag' = Retag("held", to), UnusedSlots(run.dirblk.slots) # {},
         \A b \in Blocks : tag[b] = "held" => \A s \in Slots : type = 2 => disk[b].slots[s].type = 0,
         disk' = [disk EXCEPT ![run.dir] =
                [run.dirblk EXCEPT !.slots[Min(UnusedSlots(run.dirblk.slots))] =
                    Entry(type, run.name, run.first, size)]]
  PROVE  /\ OneMore(View, View', run.dir, run.name, Entry(type, run.name, run.first, size))
         /\ SameTexts(View, Texts, Texts')
         /\ run.dir \in Blocks /\ \A b \in Blocks : b # run.dir => disk'[b] = disk[b]
         /\ \A b \in Blocks : disk'[b].next = disk[b].next
         /\ OldFilesBut(Entry(type, run.name, run.first, size))
<1>0. /\ TypeOK /\ TypeOK' /\ disk \in Images /\ disk' \in Images /\ run \in Runs /\ tag \in [Blocks -> Tags]
      /\ Pointers /\ HeldBlocks /\ NewName /\ WholeNames /\ IInv /\ TInv /\ formatted
  BY BothFacts DEF Both
<1>1. ~Removal /\ Removal' = FALSE
  BY IdleIs DEF Making, Removal
<1>2. /\ Directory(run.dir) /\ run.dirblk = disk[run.dir] /\ run.dir \in Blocks /\ tag[run.dir] # "held"
      /\ run.first \in Blocks /\ tag[run.first] = "held"
  BY <1>0 DEF Pointers, Directory, HeldBlocks
<1>3. PICK k \in Slots : k = Min(UnusedSlots(run.dirblk.slots)) /\ run.dirblk.slots[k].type = 0
  BY <1>0, RunFields, UnusedSlotIs
<1>4. PICK new \in Entries : new = Entry(type, run.name, run.first, size)
  <2>1. run.name \in Names \cup {NoName} /\ run.first \in Ids
    BY <1>0, RunFields
  <2> QED BY <2>1 DEF Entry, Entries
<1>5. new.type = type /\ new.name = run.name /\ new.first = run.first
  BY <1>4 DEF Entry
<1>6. /\ \A b \in Blocks, s \in Slots :
           disk'[b].slots[s] = IF b = run.dir /\ s = k THEN new ELSE disk[b].slots[s]
      /\ \A b \in Blocks : b # run.dir => disk'[b] = disk[b]
      /\ \A b \in Blocks : disk'[b].next = disk[b].next
  <2>1. disk[run.dir] \in DataBlocks
    BY <1>0, <1>2 DEF Images
  <2>2. PICK blk : blk = [disk[run.dir] EXCEPT !.slots[k] = new]
    OBVIOUS
  <2>3. /\ \A s \in Slots : blk.slots[s] = IF s = k THEN new ELSE disk[run.dir].slots[s]
        /\ blk.next = disk[run.dir].next
    BY <2>1, <2>2, SlotWritten
  <2>4. disk' = [disk EXCEPT ![run.dir] = blk]
    BY <1>2, <1>3, <1>4, <2>2
  <2>5. disk'[run.dir] = blk /\ \A b \in Blocks : b # run.dir => disk'[b] = disk[b]
    BY <1>0, <1>2, <2>4 DEF Images
  <2>6. \A s \in Slots : disk'[run.dir].slots[s] = IF s = k THEN new ELSE disk[run.dir].slots[s]
    BY <2>3, <2>5
  <2>7. \A b \in Blocks : b # run.dir => disk'[b].slots = disk[b].slots
    BY <2>5
  <2>8. \A b \in Blocks : disk'[b].next = disk[b].next
    BY <2>3, <2>5
  <2> QED BY <2>5, <2>6, <2>7, <2>8
<1>7. disk[run.dir].slots[k].type = 0 /\ <<run.dir, k>> \notin past.wrecks
  BY <1>0, <1>2, <1>3 DEF Pointers
<1>8. \A d \in Blocks : /\ Directory(d) => Directory(d)'
                        /\ Directory(d)' => Directory(d) \/ \A s \in Slots : disk[d].slots[s].type = 0
  <2>1. \A b \in Blocks : tag'[b] = IF tag[b] = "held" THEN to ELSE tag[b]
    BY <1>0 DEF Retag
  <2> QED BY <2>1 DEF Directory
<1>9. ASSUME NEW d \in Blocks, NEW s \in Slots
      PROVE  Visible(d, s)' <=> Visible(d, s) \/ (d = run.dir /\ s = k)
  <2>1. ~Begun(d, s) /\ Begun(d, s)' = FALSE
    BY <1>1 DEF Begun, Targeted
  <2>2. CASE d = run.dir /\ s = k
    <3>1. disk'[d].slots[s].type # 0
      BY <1>5, <1>6, <2>2
    <3>2. Directory(d)' /\ <<d, s>> \notin past'.wrecks
      BY <1>2, <1>7, <1>8, <2>2
    <3> QED BY <2>1, <2>2, <3>1, <3>2 DEF Visible
  <2>3. CASE ~(d = run.dir /\ s = k)
    <3>1. disk'[d].slots[s] = disk[d].slots[s]
      BY <1>6, <2>3
    <3> QED BY <1>8, <2>1, <2>3, <3>1 DEF Visible
  <2> QED BY <2>2, <2>3
<1>10. ~Visible(run.dir, k)
  BY <1>7 DEF Visible
<1>11. Visibles' = Visibles \cup {<<run.dir, k>>}
  <2>1. \A ds \in Blocks \X Slots : ds \in Visibles' <=> ds \in Visibles \cup {<<run.dir, k>>}
    <3>1. ASSUME NEW d \in Blocks, NEW s \in Slots
          PROVE  <<d, s>> \in Visibles' <=> <<d, s>> \in Visibles \cup {<<run.dir, k>>}
      BY <1>9 DEF Visibles
    <3> QED BY <3>1
  <2> QED BY <1>2, <2>1 DEF Visibles
<1>12. SameSlots(disk, disk', Visibles)
  <2>1. ASSUME NEW b \in Blocks, NEW s \in Slots, <<b, s>> \in Visibles
        PROVE  disk'[b].slots[s] = disk[b].slots[s]
    <3>1. Visible(b, s)
      BY <2>1, ViewIsOf
    <3> QED BY <1>6, <1>10, <3>1
  <2> QED BY <2>1 DEF SameSlots
<1>13. \A s \in Slots : <<run.dir, s>> \in Visibles => disk[run.dir].slots[s].name # run.name
  <2>1. \A s \in Slots : disk[run.dir].slots[s].type # 0 => disk[run.dir].slots[s].name # run.name
    BY <1>0 DEF NewName
  <2> QED BY <1>2, <2>1, ViewIsOf DEF Visible
<1>14. ASSUME type = 2, NEW s \in Slots PROVE <<run.first, s>> \notin Visibles'
  <2>1. run.first # run.dir /\ disk[run.first].slots[s].type = 0
    BY <1>2, <1>14
  <2>2. ~Visible(run.first, s)
    BY <2>1 DEF Visible
  <2> QED BY <1>2, <1>11, <2>1, <2>2, ViewIsOf
<1>15. View' = ViewOf(disk', Visibles')
  <2>1. ViewSound'
    BY ViewIsSound, PTL
  <2> QED BY <2>1 DEF ViewSound
<1>16. OneMore(View, View', run.dir, run.name, new)
  <2>1. PICK e : e = disk'
    OBVIOUS
  <2>2. PICK V : V = Visibles /\ SameSlots(disk, e, V)
    BY <1>12, <2>1
  <2>3. PICK W : W = Visibles' /\ W = V \cup {<<run.dir, k>>} /\ <<run.dir, k>> \notin V
    BY <1>2, <1>10, <1>11, <2>2, ViewIsOf
  <2>4. PICK b \in Blocks : b = run.dir
    BY <1>2
  <2>5. PICK n \in Names : n = run.name
    OBVIOUS
  <2>6. new = e[b].slots[k] /\ n = e[b].slots[k].name /\ new.type \in {1, 2}
    BY <1>5, <1>6, <2>1, <2>4, <2>5
  <2>7. \A s \in Slots : <<b, s>> \in V => disk[b].slots[s].name # n
    BY <1>13, <2>2, <2>4, <2>5
  <2>8. new.type = 2 => \A s \in Slots : <<new.first, s>> \notin W /\ new.first \in Blocks
    BY <1>2, <1>5, <1>14, <2>3
  <2>9. OneMore(ViewOf(disk, V), ViewOf(e, W), b, n, new)
    BY <2>2, <2>3, <2>4, <2>6, <2>7, <2>8, ViewMore
  <2> QED BY <1>15, <2>1, <2>2, <2>3, <2>4, <2>5, <2>9, ViewIsOf
<1>17. SameTexts(View, Texts, Texts')
  <2>1. ASSUME NEW d \in Blocks, NEW s \in Slots, InUse(1, d, s), NEW b \in On(First(d, s))
        PROVE  disk'[b].next = disk[b].next /\ disk'[b].chunk = disk[b].chunk
    <3>1. b \in Blocks /\ tag[b] = "file"
      BY <1>0, <2>1, FilesInUse
    <3>2. b # run.dir
      BY <1>2, <3>1 DEF Directory
    <3> QED BY <1>6, <3>1, <3>2
  <2> QED BY <1>0, <2>1, TextsKept
<1>18. OldFilesBut(new)
  <2>1. ASSUME NEW d \in Blocks, NEW s \in Slots, Visible(d, s)', disk'[d].slots[s].type = 1,
               disk'[d].slots[s] # new
        PROVE  Older(d, s)
    <3>1. Visible(d, s) /\ disk'[d].slots[s] = disk[d].slots[s]
      BY <1>6, <1>9, <2>1
    <3>2. InUse(1, d, s)
      BY <1>0, <2>1, <3>1, VisibleIs
    <3>3. On(First(d, s)) \subseteq Blocks
      BY <1>0, <3>2, FilesInUse
    <3> QED BY <1>6, <3>1, <3>3 DEF Older
  <2> QED BY <2>1 DEF OldFilesBut
<1> QED BY <1>2, <1>4, <1>6, <1>16, <1>17, <1>18

\* What a new entry makes of the tree.
LEMMA TreeGrows ==
  ASSUME Both, PathsClosed, NEW b \in Blocks, NEW n \in Names, NEW e,
         OneMore(View, View', b, n, e), SameTexts(View, Texts, Texts')
  PROVE  \/ Tree' = Tree
         \/ \E p \in Seq(Names) : Grown(Tree, Tree', NodeOf(Append(p, n), e, Texts'), p)
<1>1. Tree = TreeOf(View, Texts) /\ Treelike(View)
  BY ViewAlways DEF ViewHolds, TreeHolds, Both, Covered
<1>2. ViewHolds' /\ TreeHolds'
  BY ViewNext DEF Both, Covered
<1>3. Tree' = TreeOf(View', Texts')
  BY <1>2 DEF TreeHolds, TreeOf, Led, NodeOf, Paths
<1>4. PICK w : w = View' /\ Treelike(w)
  BY <1>2 DEF ViewHolds, Treelike
<1>5. PICK U : U = Texts'
  OBVIOUS
<1>6. PICK v : v = View
  OBVIOUS
<1>7. PICK T : T = Texts
  OBVIOUS
<1>8. OneMore(v, w, b, n, e) /\ SameTexts(v, T, U) /\ WholeNames /\ PathsClosed /\ Treelike(v)
  BY <1>1, <1>4, <1>5, <1>6, <1>7 DEF Both
<1>9. \/ TreeOf(w, U) = TreeOf(v, T)
      \/ \E p \in Seq(Names) :
           /\ Append(p, n) \in Paths /\ Look(w, Append(p, n)) = e
           /\ Grown(TreeOf(v, T), TreeOf(w, U), NodeOf(Append(p, n), e, U), p)
  BY <1>4, <1>8, TreeMore
<1> QED BY <1>1, <1>3, <1>4, <1>5, <1>6, <1>7, <1>9

\* A node of the tree that has grown is a command of the tree of files.
LEMMA GrownBy ==
  ASSUME NEW t, NEW u, NEW p, NEW n \in Names, NEW d, Grown(t, u, d, p),
         \/ d = FT!Dir(Append(p, n))
         \/ \E c \in Contents, len \in Lengths : d = FT!File(Append(p, n), c, len)
  PROVE  FT!Command(t, u)
<1>1. PICK m \in t : m.path = p /\ m.dir
  BY DEF Grown
<1>2. FT!Added(t, u, d, p)
  BY DEF Grown, FT!Added
<1>3. FT!CopyTo(t, u, m.path, n) \/ FT!Mkdir(t, u, m.path, n)
  BY <1>1, <1>2 DEF FT!CopyTo, FT!Mkdir
<1> QED BY <1>1, <1>3 DEF FT!Command

\* mycopyTo: its entry, the last write, is a new file, with the text of the host
\* file, at a path that was free; or it is where no path of the user leads.
LEMMA TreeCopied ==
  ASSUME Both, CopyToEntry
  PROVE  /\ TreeAsCommanded
         /\ OldFilesBut(Entry(1, run.name, run.first, run.size))
         /\ \A b \in Blocks : disk'[b].next = disk[b].next
<1>0. /\ TypeOK /\ disk \in Images /\ disk' \in Images /\ run \in Runs /\ tag \in [Blocks -> Tags]
      /\ HeldBlocks /\ Pointers /\ CopyTexts /\ IInv
  BY BothFacts DEF Both, TInv
<1>1. /\ run.op = "mycopyTo" /\ run.at = "read" /\ run.left = 0
      /\ UnusedSlots(run.dirblk.slots) # {} /\ run' = Idle /\ past' = past /\ tag' = Retag("held", "file")
      /\ disk' = [disk EXCEPT ![run.dir] =
                [run.dirblk EXCEPT !.slots[Min(UnusedSlots(run.dirblk.slots))] =
                    Entry(1, run.name, run.first, run.size)]]
  BY DEF CopyToEntry
<1>2. /\ run.c \in Contents /\ run.size \in Lengths /\ run.size \in Nat /\ run.name \in Names
      /\ run.first \in Blocks /\ run.first \in Ids /\ tag[run.first] = "held" /\ run.cur = 0
  <2>1. run.cur = 0 /\ run.first \in Blocks /\ tag[run.first] = "held"
    BY <1>0, <1>1, Copying
  <2> QED BY <1>0, <1>1, <2>1, RunFields DEF CopyTexts
<1>3. /\ OneMore(View, View', run.dir, run.name, Entry(1, run.name, run.first, run.size))
      /\ SameTexts(View, Texts, Texts') /\ run.dir \in Blocks
      /\ \A b \in Blocks : b # run.dir => disk'[b] = disk[b]
      /\ \A b \in Blocks : disk'[b].next = disk[b].next
      /\ OldFilesBut(Entry(1, run.name, run.first, run.size))
  <2>1. Making
    BY <1>1 DEF Making
  <2>2. PICK type \in {1, 2} : type = 1
    OBVIOUS
  <2>3. PICK to : to = "file" /\ to = (IF type = 1 THEN "file" ELSE "dir")
    BY <2>2
  <2>4. PICK size \in Nat : size = run.size
    BY <1>2
  <2>5. /\ tag' = Retag("held", to)
        /\ disk' = [disk EXCEPT ![run.dir] =
                [run.dirblk EXCEPT !.slots[Min(UnusedSlots(run.dirblk.slots))] =
                    Entry(type, run.name, run.first, size)]]
    BY <1>1, <2>2, <2>3, <2>4
  <2>6. \A b \in Blocks : tag[b] = "held" => \A s \in Slots : type = 2 => disk[b].slots[s].type = 0
    BY <2>2
  <2>7. /\ OneMore(View, View', run.dir, run.name, Entry(type, run.name, run.first, size))
        /\ SameTexts(View, Texts, Texts')
        /\ run.dir \in Blocks /\ \A b \in Blocks : b # run.dir => disk'[b] = disk[b]
        /\ \A b \in Blocks : disk'[b].next = disk[b].next
        /\ OldFilesBut(Entry(type, run.name, run.first, size))
    BY <1>1, <1>2, <2>1, <2>3, <2>5, <2>6, EntryMade
  <2> QED BY <2>2, <2>4, <2>7
<1>4. tag[run.dir] # "held"
  BY <1>0, <1>1 DEF Pointers, Making, Directory
<1>5. \A y \in On(run.first) : y \in Blocks /\ tag[y] = "held" /\ y # run.dir
  <2>1. On(run.first) \subseteq Blocks
    BY <1>0, <1>2, OnBlocks
  <2>2. \A b \in Blocks : b \in On(run.first) <=> tag[b] = "held"
    BY <1>0, <1>1, <1>2 DEF HeldBlocks
  <2> QED BY <1>4, <2>1, <2>2
<1>6. Waiting = {0}
  BY <1>1, <1>2 DEF Waiting
<1>7. ASSUME NEW y \in On(run.first) PROVE Piece(disk', y, run.c)
  <2>1. y \in Blocks /\ tag[y] = "held" /\ disk'[y] = disk[y] /\ y \notin Waiting
    BY <1>3, <1>5, <1>6, SetFacts
  <2>2. /\ disk[y].chunk.c = run.c
        /\ disk[y].next # 0 =>
             /\ tag[disk[y].next] = "held"
             /\ disk[y].next \notin Waiting => Joined(y, disk[y].next)
    BY <1>0, <1>1, <2>1 DEF CopyTexts
  <2>3. disk[y].chunk \in Chunks
    BY <1>0, <2>1 DEF Images, DataBlocks
  <2>4. disk[y].chunk = [c |-> run.c, k |-> disk[y].chunk.k] /\ disk[y].chunk.k \in Nat
    BY <2>2, <2>3 DEF Chunks
  <2>5. ASSUME disk[y].next \in Blocks PROVE disk'[disk[y].next].chunk.k = disk[y].chunk.k + 1
    <3>1. disk[y].next # 0 /\ disk[y].next \notin Waiting
      BY <1>6, <2>5, SetFacts
    <3>2. tag[disk[y].next] = "held" /\ Joined(y, disk[y].next)
      BY <2>2, <3>1
    <3>3. disk'[disk[y].next] = disk[disk[y].next]
      BY <1>3, <1>4, <2>5, <3>2
    <3> QED BY <3>2, <3>3 DEF Joined
  <2> QED BY <2>1, <2>4, <2>5 DEF Piece
<1>8. Texts'[run.first] \in Contents
  <2>1. disk'[run.first].chunk.k = 0
    <3>1. run.first \notin Waiting /\ disk'[run.first] = disk[run.first]
      BY <1>2, <1>3, <1>4, <1>6, SetFacts
    <3> QED BY <1>0, <1>1, <1>2, <3>1 DEF CopyTexts
  <2>2. Reach(disk', run.first) = On(run.first)
    <3>1. \A y \in Reach(disk, run.first) : disk'[y].next = disk[y].next
      BY <1>3, <1>5 DEF On
    <3> QED BY <1>0, <1>2, <3>1, Untouched DEF On
  <2>3. PICK d \in Images : d = disk'
    BY <1>0
  <2>4. PICK x \in Ids : x = run.first
    BY <1>2
  <2>5. PICK c \in Contents : c = run.c
    BY <1>2
  <2>6. d[x].chunk.k = 0 /\ \A y \in Reach(d, x) : Piece(d, y, c)
    BY <1>7, <2>1, <2>2, <2>3, <2>4, <2>5
  <2>7. TextIn(d, x) \in Contents
    BY <2>6, TextMade
  <2> QED BY <2>3, <2>4, <2>7 DEF Texts
<1>9. PICK e : e = Entry(1, run.name, run.first, run.size)
  OBVIOUS
<1>10. ASSUME NEW p \in Seq(Names), Grown(Tree, Tree', NodeOf(Append(p, run.name), e, Texts'), p)
       PROVE  FT!Command(Tree, Tree')
  <2>1. NodeOf(Append(p, run.name), e, Texts') = FT!File(Append(p, run.name), Texts'[run.first], run.size)
    <3>1. e.type = 1 /\ e.first = run.first /\ e.size = run.size
      BY <1>9 DEF Entry
    <3>2. (e.type = 2) = FALSE
      BY <3>1
    <3> QED BY <3>1, <3>2 DEF NodeOf, FT!File
  <2>2. PICK d : d = NodeOf(Append(p, run.name), e, Texts')
    OBVIOUS
  <2>3. \E c \in Contents, len \in Lengths : d = FT!File(Append(p, run.name), c, len)
    BY <1>2, <1>8, <2>1, <2>2
  <2>4. PICK n \in Names : n = run.name
    BY <1>2
  <2>5. Grown(Tree, Tree', d, p) /\ \E c \in Contents, len \in Lengths : d = FT!File(Append(p, n), c, len)
    BY <1>10, <2>2, <2>3, <2>4
  <2> QED BY <2>5, GrownBy
<1>11. PathsClosed =>
         \/ Tree' = Tree
         \/ \E p \in Seq(Names) : Grown(Tree, Tree', NodeOf(Append(p, run.name), e, Texts'), p)
  BY <1>2, <1>3, <1>9, TreeGrows
<1> QED BY <1>3, <1>10, <1>11 DEF TreeAsCommanded

\* mymkdir: its entry, the last write, is a new empty directory.
LEMMA TreeDirMade ==
  ASSUME Both, MkdirEntry
  PROVE  TreeAsCommanded /\ OldFiles
<1>0. /\ TypeOK /\ disk \in Images /\ disk' \in Images /\ run \in Runs /\ tag \in [Blocks -> Tags]
      /\ HeldBlocks /\ Pointers /\ MakingName /\ IInv
  BY BothFacts DEF Both, TInv
<1>1. /\ run.op = "mymkdir" /\ run.at = "entry"
      /\ UnusedSlots(run.dirblk.slots) # {} /\ run' = Idle /\ past' = past /\ tag' = Retag("held", "dir")
      /\ disk' = [disk EXCEPT ![run.dir] =
                [run.dirblk EXCEPT !.slots[Min(UnusedSlots(run.dirblk.slots))] =
                    Entry(2, run.name, run.first, 0)]]
  BY DEF MkdirEntry
<1>2. run.name \in Names /\ Making
  BY <1>0, <1>1 DEF MakingName, Making
<1>3. /\ OneMore(View, View', run.dir, run.name, Entry(2, run.name, run.first, 0))
      /\ SameTexts(View, Texts, Texts') /\ run.dir \in Blocks
      /\ OldFilesBut(Entry(2, run.name, run.first, 0))
  <2>2. PICK type \in {1, 2} : type = 2
    OBVIOUS
  <2>3. PICK to : to = "dir" /\ to = (IF type = 1 THEN "file" ELSE "dir")
    BY <2>2
  <2>4. PICK size \in Nat : size = 0
    OBVIOUS
  <2>5. /\ tag' = Retag("held", to)
        /\ disk' = [disk EXCEPT ![run.dir] =
                [run.dirblk EXCEPT !.slots[Min(UnusedSlots(run.dirblk.slots))] =
                    Entry(type, run.name, run.first, size)]]
    BY <1>1, <2>2, <2>3, <2>4
  <2>6. \A b \in Blocks : tag[b] = "held" => \A s \in Slots : type = 2 => disk[b].slots[s].type = 0
    <3>1. \A b \in Blocks : tag[b] = "held" => b = run.first
      BY <1>0, <1>1 DEF HeldBlocks
    <3>2. disk[run.first] = ZeroBlock(0)
      BY <1>0, <1>1 DEF HeldBlocks
    <3>3. \A s \in Slots : disk[run.first].slots[s].type = 0
      BY <3>2 DEF ZeroBlock, EmptyDir, Unused, Entry
    <3> QED BY <3>1, <3>3
  <2>7. /\ OneMore(View, View', run.dir, run.name, Entry(type, run.name, run.first, size))
        /\ SameTexts(View, Texts, Texts')
        /\ run.dir \in Blocks
        /\ OldFilesBut(Entry(type, run.name, run.first, size))
    BY <1>1, <1>2, <2>3, <2>5, <2>6, EntryMade
  <2> QED BY <2>2, <2>4, <2>7
<1>9. PICK e : e = Entry(2, run.name, run.first, 0)
  OBVIOUS
<1>10. ASSUME NEW p \in Seq(Names), Grown(Tree, Tree', NodeOf(Append(p, run.name), e, Texts'), p)
       PROVE  FT!Command(Tree, Tree')
  <2>1. NodeOf(Append(p, run.name), e, Texts') = FT!Dir(Append(p, run.name))
    BY <1>9 DEF NodeOf, Entry, FT!Dir
  <2>2. PICK d : d = NodeOf(Append(p, run.name), e, Texts')
    OBVIOUS
  <2>4. PICK n \in Names : n = run.name
    BY <1>2
  <2>5. Grown(Tree, Tree', d, p) /\ d = FT!Dir(Append(p, n))
    BY <1>10, <2>1, <2>2, <2>4
  <2> QED BY <2>5, GrownBy
<1>11. PathsClosed =>
         \/ Tree' = Tree
         \/ \E p \in Seq(Names) : Grown(Tree, Tree', NodeOf(Append(p, run.name), e, Texts'), p)
  BY <1>2, <1>3, <1>9, TreeGrows
<1>12. OldFiles
  <2>1. e.type # 1 /\ OldFilesBut(e)
    BY <1>3, <1>9 DEF Entry
  <2> QED BY <2>1 DEF OldFiles, OldFilesBut
<1> QED BY <1>10, <1>11, <1>12 DEF TreeAsCommanded

-----------------------------------------------------------------------------
\* What a view holds under a name, in terms of the entries in use.
LEMMA ViewOfIs ==
  ASSUME NEW d, NEW V, NEW b \in Blocks, NEW n \in Names
  PROVE  \/ ViewOf(d, V)[b][n] = Unused
         \/ \E s \in Slots : <<b, s>> \in V /\ ViewOf(d, V)[b][n] = d[b].slots[s]
<1>1. CASE Named(d, V, b, n) = {}
  BY <1>1 DEF ViewOf
<1>2. CASE Named(d, V, b, n) # {}
  <2>1. PICK s \in Slots : /\ s = Min(Named(d, V, b, n)) /\ <<b, s>> \in V /\ d[b].slots[s].name = n
                            /\ s \in Named(d, V, b, n)
    BY <1>2, NamedIn
  <2> QED BY <1>2, <2>1 DEF ViewOf
<1> QED BY <1>1, <1>2

\* An entry under no name that the user types is not in the view.
LEMMA ViewUnnamed ==
  ASSUME NEW d, NEW e, NEW V, NEW W, SameSlots(d, e, V), NEW b \in Blocks, NEW k \in Slots,
         W = V \cup {<<b, k>>}, e[b].slots[k].name \notin Names
  PROVE  ViewOf(e, W) = ViewOf(d, V)
<1>1. ASSUME NEW c \in Blocks, NEW m \in Names PROVE Named(e, W, c, m) = Named(e, V, c, m)
  BY DEF Named
<1>2. ViewOf(e, W) = ViewOf(e, V)
  BY <1>1 DEF ViewOf
<1> QED BY <1>2, SameView

\* A step that takes one entry, of which nothing else is left, out of the view.
LEMMA EntryGone ==
  ASSUME Both, NEW b \in Blocks, NEW k \in Slots, Visible(b, k),
         \A d \in Blocks, s \in Slots : Visible(d, s)' <=> Visible(d, s) /\ ~(d = b /\ s = k),
         \A d \in Blocks : disk'[d].slots = disk[d].slots,
         NEW e, e = disk[b].slots[k],
         e.type = 2 => e.first \in Blocks /\ \A s \in Slots : ~Visible(e.first, s),
         \A d \in Blocks, s \in Slots : InUse(1, d, s) /\ ~(d = b /\ s = k) =>
           \A y \in On(First(d, s)) : disk'[y].next = disk[y].next /\ disk'[y].chunk = disk[y].chunk
  PROVE  /\ OldFiles
         /\ PathsClosed =>
              \/ Tree' = Tree
              \/ \E q \in Seq(Names), p \in Seq(Names) :
                   /\ Look(View, q) = e /\ Grown(Tree', Tree, NodeOf(q, e, Texts), p)
                   /\ e.type = 2 => \A m \in Names : View[e.first][m] = Unused
<1>0. IInv /\ TInv /\ TypeOK' /\ formatted /\ WholeNames
  BY BothFacts DEF Both
<1>1. OldFiles
  <2>1. ASSUME NEW x \in Blocks, NEW s \in Slots, Visible(x, s)', disk'[x].slots[s].type = 1
        PROVE  Older(x, s)
    <3>1. Visible(x, s) /\ ~(x = b /\ s = k) /\ disk'[x].slots[s] = disk[x].slots[s]
      BY <2>1
    <3>2. InUse(1, x, s)
      BY <1>0, <2>1, <3>1, VisibleIs
    <3> QED BY <3>1, <3>2 DEF Older
  <2> QED BY <2>1 DEF OldFiles
<1> SUFFICES ASSUME PathsClosed
             PROVE  \/ Tree' = Tree
                    \/ \E q \in Seq(Names), p \in Seq(Names) :
                         /\ Look(View, q) = e /\ Grown(Tree', Tree, NodeOf(q, e, Texts), p)
                         /\ e.type = 2 => \A m \in Names : View[e.first][m] = Unused
  BY <1>1
<1>2. Tree = TreeOf(View, Texts) /\ Treelike(View) /\ e.type \in {1, 2}
  BY ViewAlways DEF ViewHolds, TreeHolds, Both, Covered
<1>3. ViewHolds' /\ TreeHolds'
  BY ViewNext DEF Both, Covered
<1>4. Tree' = TreeOf(View', Texts') /\ Treelike(View')
  BY <1>3 DEF TreeHolds, TreeOf, Led, NodeOf, Paths, ViewHolds, Treelike
<1>5. View' = ViewOf(disk', Visibles') /\ View = ViewOf(disk, Visibles)
  <2>1. ViewSound'
    BY ViewIsSound, PTL
  <2> QED BY <2>1, ViewIsOf DEF ViewSound
<1>6. ASSUME NEW d \in Blocks, NEW s \in Slots
      PROVE  <<d, s>> \in Visibles' <=> Visible(d, s) /\ ~(d = b /\ s = k)
  BY DEF Visibles
<1>7. Visibles = Visibles' \cup {<<b, k>>} /\ <<b, k>> \notin Visibles'
  <2>1. \A ds \in Blocks \X Slots : ds \in Visibles <=> ds \in Visibles' \cup {<<b, k>>}
    <3>1. ASSUME NEW d \in Blocks, NEW s \in Slots
          PROVE  <<d, s>> \in Visibles <=> <<d, s>> \in Visibles' \cup {<<b, k>>}
      BY <1>6, ViewIsOf
    <3> QED BY <3>1
  <2>2. Visibles \subseteq Blocks \X Slots /\ Visibles' \subseteq Blocks \X Slots
    BY DEF Visibles
  <2> QED BY <1>6, <2>1, <2>2
<1>8. SameSlots(disk', disk, Visibles')
  BY DEF SameSlots
<1>9. SameTexts(View', Texts', Texts)
  <2>1. ASSUME NEW c \in Blocks, NEW m \in Names, View'[c][m].type = 1
        PROVE  Texts[View'[c][m].first] = Texts'[View'[c][m].first]
    <3>1. View'[c][m] # Unused
      BY <2>1 DEF Unused, Entry
    <3>2. PICK d : d = disk'
      OBVIOUS
    <3>3. PICK V : V = Visibles'
      OBVIOUS
    <3>4. View'[c][m] = ViewOf(d, V)[c][m]
      BY <1>5, <3>2, <3>3
    <3>5. PICK s \in Slots : <<c, s>> \in V /\ ViewOf(d, V)[c][m] = d[c].slots[s]
      BY <3>1, <3>4, ViewOfIs
    <3>6. Visible(c, s) /\ ~(c = b /\ s = k) /\ View'[c][m] = disk[c].slots[s]
      BY <1>6, <3>2, <3>3, <3>4, <3>5
    <3>7. InUse(1, c, s)
      BY <1>0, <2>1, <3>6, VisibleIs
    <3>8. Texts'[First(c, s)] = Texts[First(c, s)]
      BY <1>0, <3>6, <3>7, TextKept
    <3> QED BY <3>6, <3>8 DEF First
  <2> QED BY <2>1 DEF SameTexts
<1>10. PICK d, V, W, v, w, T, U :
        /\ d = disk' /\ V = Visibles' /\ W = Visibles /\ v = View' /\ w = View /\ T = Texts' /\ U = Texts
  OBVIOUS
<1>11. /\ SameSlots(d, disk, V) /\ W = V \cup {<<b, k>>} /\ <<b, k>> \notin V
       /\ v = ViewOf(d, V) /\ w = ViewOf(disk, W) /\ SameTexts(v, T, U) /\ Treelike(v) /\ Treelike(w)
  BY <1>2, <1>4, <1>5, <1>7, <1>8, <1>9, <1>10
<1>12. CASE e.name \notin Names
  <2>1. w = v
    BY <1>11, <1>12, ViewUnnamed
  <2>2. Paths \subseteq Seq(Names)
    BY <1>0, PathsAre
  <2>3. TreeOf(v, U) = TreeOf(v, T)
    BY <1>11, <2>2, SameTree
  <2> QED BY <1>2, <1>4, <1>10, <2>1, <2>3
<1>13. CASE e.name \in Names
  <2>1. PICK n \in Names : n = e.name
    BY <1>13
  <2>2. \A s \in Slots : <<b, s>> \in V => d[b].slots[s].name # n
    <3> SUFFICES ASSUME NEW s \in Slots, <<b, s>> \in V PROVE d[b].slots[s].name # n
      OBVIOUS
    <3>1. Visible(b, s) /\ s # k
      BY <1>6, <1>10
    <3>2. disk[b].slots[s].type \in {1, 2} /\ disk[b].slots[k].type \in {1, 2} /\ Directory(b)
      BY <1>0, <3>1, VisibleIs DEF Visible
    <3>3. disk[b].slots[s].name # disk[b].slots[k].name
      BY <1>0, <3>1, <3>2 DEF IInv, NewName
    <3> QED BY <1>10, <2>1, <3>3
  <2>3. e.type = 2 => \A s \in Slots : <<e.first, s>> \notin W /\ e.first \in Blocks
    BY <1>10, ViewIsOf
  <2>4. OneMore(v, w, b, n, e)
    <3>1. n = disk[b].slots[k].name
      BY <2>1
    <3>2. OneMore(ViewOf(d, V), ViewOf(disk, W), b, n, e)
      BY <1>2, <1>11, <2>2, <2>3, <3>1, ViewMore
    <3> QED BY <1>11, <3>2
  <2>5. \/ TreeOf(w, U) = TreeOf(v, T)
        \/ \E p \in Seq(Names) :
             /\ Append(p, n) \in Paths /\ Look(w, Append(p, n)) = e
             /\ Grown(TreeOf(v, T), TreeOf(w, U), NodeOf(Append(p, n), e, U), p)
    BY <1>0, <1>11, <2>4, TreeMore
  <2>6. TreeOf(w, U) = Tree /\ TreeOf(v, T) = Tree'
    BY <1>2, <1>4, <1>10
  <2>7. e.type = 2 => \A m \in Names : View[e.first][m] = Unused
    BY <1>10, <2>4 DEF OneMore
  <2>8. ASSUME NEW p \in Seq(Names), Look(w, Append(p, n)) = e,
               Grown(TreeOf(v, T), TreeOf(w, U), NodeOf(Append(p, n), e, U), p)
        PROVE  \E q \in Seq(Names) : Look(View, q) = e /\ Grown(Tree', Tree, NodeOf(q, e, Texts), p)
    <3>1. PICK q \in Seq(Names) : q = Append(p, n)
      BY AppendProperties
    <3> QED BY <1>10, <2>6, <2>8, <3>1
  <2> QED BY <2>5, <2>6, <2>7, <2>8
<1> QED BY <1>12, <1>13

\* myrm: the file is gone with the first block that is freed.
LEMMA TreeRemoved ==
  ASSUME Both, RmFreeBlock
  PROVE  TreeAsCommanded /\ OldFiles
<1>1. CASE run.cur # run.first
  BY <1>1, TreeFreeing DEF TreeAsIs, TreeAsCommanded
<1>2. CASE run.cur = run.first
  <2>0. /\ TypeOK /\ disk \in Images /\ disk' \in Images /\ run \in Runs /\ tag \in [Blocks -> Tags]
        /\ Pointers /\ FileBlocks /\ Target /\ IInv /\ TInv /\ formatted
    BY BothFacts DEF Both
  <2>1. /\ run.op = "myrm" /\ run.at = "free" /\ run.cur # 0
        /\ disk' = [disk EXCEPT ![run.cur].next = run.ff]
        /\ run' = [run EXCEPT !.ff = run.cur, !.cur = disk[run.cur].next]
        /\ tag' = [tag EXCEPT ![run.cur] = "free"] /\ past' = past
    BY DEF RmFreeBlock
  <2>2. Removal /\ Untried
    BY <1>2, <2>1 DEF Removal, Untried
  <2>3. PICK x \in Blocks : x = run.cur
    BY <2>0, <2>1 DEF Pointers, Ids0
  <2>4. Stops(x) /\ \A b \in On(x) : tag[b] = "file"
    BY <2>0, <2>1, <2>3 DEF FileBlocks
  <2>5. PICK n \in Ids : n = disk[x].next
    BY <2>0, TypeFacts
  <2>6. On(x) = {x} \cup On(n) /\ x \in On(x) /\ tag[x] = "file" /\ x \notin On(n)
    BY <2>0, <2>4, <2>5, FirstOnChain
  <2>7. n # x
    BY <2>0, <2>3, <2>6, OnBlocks
  <2>8. /\ run'.op = "myrm" /\ run'.at = "free" /\ run'.cur = n /\ run'.first = run.first
        /\ run'.dir = run.dir /\ run'.slot = run.slot
    BY <2>0, <2>1, <2>3, <2>5 DEF Runs
  <2>9. PICK b \in Blocks, k \in Slots : b = run.dir /\ k = run.slot
    BY <2>0, <2>2, RunFields DEF Pointers, Directory
  <2>10. \A d \in Blocks, s \in Slots : ~Begun(d, s) /\ (Begun(d, s)' <=> d = b /\ s = k)
    BY <1>2, <2>2, <2>3, <2>7, <2>8, <2>9 DEF Begun, Targeted, Removal, Untried
  <2>11. \A d \in Blocks : Directory(d)' <=> Directory(d)
    BY <2>0, <2>1, <2>3, <2>6, TagsOf
  <2>12. /\ \A c \in Blocks : c # x => disk'[c] = disk[c]
         /\ \A c \in Blocks : disk'[c].slots = disk[c].slots
    <3>1. run.ff \in Ids
      BY <2>0, RunFields
    <3>2. \A c \in Blocks : disk'[c].slots = disk[c].slots
      BY <2>0, <2>1, <2>3, <3>1, NextWritten
    <3> QED BY <2>0, <2>1, <2>3, <3>2 DEF Images
  <2>13. \A d \in Blocks, s \in Slots : Visible(d, s)' <=> Visible(d, s) /\ ~(d = b /\ s = k)
    BY <2>1, <2>10, <2>11, <2>12 DEF Visible
  <2>14. Visible(b, k) /\ disk[b].slots[k].type = 1 /\ First(b, k) = x
    <3>1. Directory(b) /\ disk[b].slots[k].type = 1 /\ <<b, k>> \notin past.wrecks /\ First(b, k) = x
      BY <1>2, <2>0, <2>1, <2>2, <2>3, <2>9 DEF Target, Pointers
    <3> QED BY <2>10, <3>1 DEF Visible
  <2>15. ASSUME NEW d \in Blocks, NEW s \in Slots, InUse(1, d, s), ~(d = b /\ s = k),
                NEW y \in On(First(d, s))
         PROVE  disk'[y].next = disk[y].next /\ disk'[y].chunk = disk[y].chunk
    <3>1. IsEntry(1, d, s)
      BY <2>9, <2>15 DEF InUse
    <3>2. y \notin On(run.cur) /\ y \in Blocks
      <4>1. y \in Blocks
        BY <2>0, <2>15, FilesInUse
      <4> QED BY <2>0, <2>1, <2>15, <3>1, <4>1 DEF FileBlocks
    <3> QED BY <2>3, <2>6, <2>12, <3>2
  <2>16. PICK e : e = disk[b].slots[k] /\ e.type = 1
    BY <2>14
  <2>17. /\ OldFiles
         /\ PathsClosed =>
              \/ Tree' = Tree
              \/ \E q \in Seq(Names), p \in Seq(Names) :
                   /\ Look(View, q) = e /\ Grown(Tree', Tree, NodeOf(q, e, Texts), p)
    <3>1. e.type = 2 => e.first \in Blocks /\ \A s \in Slots : ~Visible(e.first, s)
      BY <2>16
    <3>2. \A d \in Blocks, s \in Slots : InUse(1, d, s) /\ ~(d = b /\ s = k) =>
           \A y \in On(First(d, s)) : disk'[y].next = disk[y].next /\ disk'[y].chunk = disk[y].chunk
      BY <2>15
    <3> QED BY <2>12, <2>13, <2>14, <2>16, <3>1, <3>2, EntryGone
  <2>18. ASSUME NEW q \in Seq(Names), NEW p \in Seq(Names), Grown(Tree', Tree, NodeOf(q, e, Texts), p)
         PROVE  FT!Command(Tree, Tree')
    <3>1. PICK m : m = NodeOf(q, e, Texts)
      OBVIOUS
    <3>2. m.dir = FALSE
      <4>1. (e.type = 2) = FALSE
        BY <2>16
      <4> QED BY <3>1, <4>1 DEF NodeOf
    <3>3. m \in Tree /\ Tree' = Tree \ {m}
      BY <2>18, <3>1 DEF Grown
    <3>4. FT!Rm(Tree, Tree', m)
      BY <3>2, <3>3 DEF FT!Rm
    <3> QED BY <3>3, <3>4 DEF FT!Command
  <2> QED BY <2>17, <2>18 DEF TreeAsCommanded
<1> QED BY <1>1, <1>2

\* myrmdir: the directory is gone when its block is freed, and it was empty.
LEMMA TreeDirRemoved ==
  ASSUME Both, RmdirFreeBlock
  PROVE  TreeAsCommanded /\ OldFiles
<1>0. /\ TypeOK /\ disk \in Images /\ disk' \in Images /\ run \in Runs /\ tag \in [Blocks -> Tags]
      /\ Pointers /\ DirBlocksOwned /\ Target /\ IInv /\ TInv /\ formatted
  BY BothFacts DEF Both
<1>1. /\ run.op = "myrmdir" /\ run.at = "free"
      /\ disk' = [disk EXCEPT ![run.first].next = run.ff]
      /\ run' = [run EXCEPT !.at = "super", !.ff = run.first]
      /\ tag' = [tag EXCEPT ![run.first] = "free"] /\ past' = past
  BY DEF RmdirFreeBlock
<1>2. Removal /\ Untried
  BY <1>1 DEF Removal, Untried
<1>3. PICK x \in Blocks : x = run.first
  BY <1>0, <1>1 DEF DirBlocksOwned
<1>4. tag[x] = "dir" /\ \A s \in Slots : disk[x].slots[s].type = 0
  BY <1>0, <1>1, <1>3 DEF DirBlocksOwned
<1>8. run'.op = "myrmdir" /\ run'.at = "super" /\ run'.dir = run.dir /\ run'.slot = run.slot
  BY <1>0, <1>1 DEF Runs
<1>9. PICK b \in Blocks, k \in Slots : b = run.dir /\ k = run.slot
  BY <1>0, <1>2, RunFields DEF Pointers, Directory
<1>10. \A d \in Blocks, s \in Slots : ~Begun(d, s) /\ (Begun(d, s)' <=> d = b /\ s = k)
  BY <1>2, <1>8, <1>9 DEF Begun, Targeted, Removal, Untried
<1>11. \A d \in Blocks : d # x => (Directory(d)' <=> Directory(d))
  BY <1>0, <1>1, <1>3 DEF Directory
<1>12. /\ \A c \in Blocks : c # x => disk'[c] = disk[c]
       /\ \A c \in Blocks : disk'[c].slots = disk[c].slots
  <2>1. run.ff \in Ids
    BY <1>0, RunFields
  <2>2. \A c \in Blocks : disk'[c].slots = disk[c].slots
    BY <1>0, <1>1, <1>3, <2>1, NextWritten
  <2> QED BY <1>0, <1>1, <1>3, <2>2 DEF Images
<1>13. ASSUME NEW d \in Blocks, NEW s \in Slots
       PROVE  Visible(d, s)' <=> Visible(d, s) /\ ~(d = b /\ s = k)
  <2>1. CASE d = x
    <3>1. disk[d].slots[s].type = 0 /\ disk'[d].slots[s].type = 0
      BY <1>4, <1>12, <2>1
    <3> QED BY <3>1 DEF Visible
  <2>2. CASE d # x
    BY <1>1, <1>10, <1>11, <1>12, <2>2 DEF Visible
  <2> QED BY <2>1, <2>2
<1>14. Visible(b, k) /\ disk[b].slots[k].type = 2 /\ First(b, k) = x
  <2>1. Directory(b) /\ disk[b].slots[k].type = 2 /\ <<b, k>> \notin past.wrecks /\ First(b, k) = x
    BY <1>0, <1>1, <1>2, <1>3, <1>9 DEF Target, Pointers
  <2> QED BY <1>10, <2>1 DEF Visible
<1>15. ASSUME NEW d \in Blocks, NEW s \in Slots, InUse(1, d, s), NEW y \in On(First(d, s))
       PROVE  disk'[y].next = disk[y].next /\ disk'[y].chunk = disk[y].chunk
  <2>1. y \in Blocks /\ tag[y] = "file"
    BY <1>0, <1>15, FilesInUse
  <2> QED BY <1>4, <1>12, <2>1
<1>16. PICK e : e = disk[b].slots[k] /\ e.type = 2 /\ e.first = x
  BY <1>14 DEF First
<1>17. /\ OldFiles
       /\ PathsClosed =>
            \/ Tree' = Tree
            \/ \E q \in Seq(Names), p \in Seq(Names) :
                 /\ Look(View, q) = e /\ Grown(Tree', Tree, NodeOf(q, e, Texts), p)
                 /\ e.type = 2 => \A m \in Names : View[e.first][m] = Unused
  <2>1. e.type = 2 => e.first \in Blocks /\ \A s \in Slots : ~Visible(e.first, s)
    BY <1>4, <1>16 DEF Visible
  <2>2. \A d \in Blocks, s \in Slots : InUse(1, d, s) /\ ~(d = b /\ s = k) =>
         \A y \in On(First(d, s)) : disk'[y].next = disk[y].next /\ disk'[y].chunk = disk[y].chunk
    BY <1>15
  <2>3. e = disk[b].slots[k]
    BY <1>16
  <2> QED BY <1>12, <1>13, <1>14, <2>1, <2>2, <2>3, EntryGone
<1>18. ASSUME PathsClosed, NEW q \in Seq(Names), NEW p \in Seq(Names),
              Grown(Tree', Tree, NodeOf(q, e, Texts), p),
              Look(View, q) = e, \A m \in Names : View[e.first][m] = Unused
       PROVE  FT!Command(Tree, Tree')
  <2>1. PICK m : m = NodeOf(q, e, Texts)
    OBVIOUS
  <2>2. m.dir = TRUE /\ m.path = q
    BY <1>16, <2>1 DEF NodeOf
  <2>3. m \in Tree /\ Tree' = Tree \ {m}
    BY <1>18, <2>1 DEF Grown
  <2>4. ASSUME NEW o \in Tree PROVE ~FT!Below(o, m)
    <3>1. Tree = TreeOf(View, Texts) /\ Paths \subseteq Seq(Names)
      BY <1>18, ViewAlways, PathsAre DEF TreeHolds, Both, Covered
    <3>2. PICK r \in Led(View) : o = NodeOf(r, Look(View, r), Texts)
      BY <2>4, <3>1 DEF TreeOf
    <3>3. r \in Seq(Names) /\ Look(View, r).type # 0 /\ o.path = r
      BY <3>1, <3>2 DEF Led, NodeOf
    <3>4. PICK w : w = View
      OBVIOUS
    <3>5. Look(w, q).type = 2 /\ \A a \in Names : w[Look(w, q).first][a] = Unused
      BY <1>16, <1>18, <3>4
    <3>6. \A a \in Seq(Names) : Len(a) > Len(q) /\ SubSeq(a, 1, Len(q)) = q => Look(w, a).type = 0
      BY <3>5, NothingBelow
    <3>7. ~(Len(r) > Len(q) /\ SubSeq(r, 1, Len(q)) = q)
      BY <3>3, <3>4, <3>6
    <3> QED BY <2>2, <3>3, <3>7 DEF FT!Below
  <2>5. FT!Rmdir(Tree, Tree', m)
    BY <2>2, <2>3, <2>4 DEF FT!Rmdir
  <2> QED BY <2>3, <2>5 DEF FT!Command
<1> QED BY <1>16, <1>17, <1>18 DEF TreeAsCommanded

-----------------------------------------------------------------------------
\* What the user sees depends on nothing but the variables.
LEMMA TreeUnmoved ==
  ASSUME IInv, IInv', TInv, TInv', WholeNames, UNCHANGED vars
  PROVE  TreeAsIs /\ (formatted => OldFiles)
<1>0. /\ disk' = disk /\ run' = run /\ tag' = tag /\ past' = past /\ formatted' = formatted
  BY DEF vars
<1>1. CASE formatted
  <2>1. \A d \in Blocks : Directory(d)' <=> Directory(d)
    BY <1>0 DEF Directory
  <2>2. \A d \in Blocks, s \in Slots : Begun(d, s)' <=> Begun(d, s)
    BY <1>0 DEF Begun, Targeted, Removal, Untried
  <2>3. \A d \in Blocks, s \in Slots : Visible(d, s)' <=> Visible(d, s)
    BY <1>0, <2>1, <2>2 DEF Visible
  <2>4. formatted => formatted'
    BY <1>0
  <2> QED BY <1>0, <1>1, <2>3, <2>4, TreeKept
<1>2. CASE ~formatted
  <2>1. ~formatted'
    BY <1>0, <1>2
  <2> QED BY <1>2, <2>1 DEF Tree, TreeAsIs
<1> QED BY <1>1, <1>2

\* Each step on a formatted image is a command on the tree, or changes nothing
\* there.
LEMMA TreeStep ==
  ASSUME Both
  PROVE  TreeAsCommanded /\ (~CopyToEntry => OldFiles)
<1>0. TreeAsIs => TreeAsCommanded
  BY DEF TreeAsIs, TreeAsCommanded
<1>1. CASE Begin
  BY <1>0, <1>1, TreeAtBegin
<1>2. CASE Step
  <2>1. CASE CopyToEntry \/ MkdirEntry
    BY <2>1, TreeCopied, TreeDirMade
  <2>2. CASE RmFreeBlock \/ RmdirFreeBlock
    BY <2>2, TreeRemoved, TreeDirRemoved
  <2>3. CASE RmSuper \/ RmdirSuper
    BY <1>0, <2>3, TreeSuper
  <2>4. CASE RmEntry \/ RmdirEntry
    BY <1>0, <2>4, TreeCleared
  <2>5. CASE \/ CopyToAllocate \/ CopyToNoSpace \/ CopyToWriteFull \/ CopyToWriteShort \/ CopyToDirFull
             \/ MkdirInit \/ MkdirUndoBlock \/ MkdirUndoSuper
    <3>1. CASE CopyToEntry \/ MkdirEntry
      BY <3>1, <2>1
    <3>2. CASE ~CopyToEntry /\ ~MkdirEntry
      <4>1. Making
        BY <2>5 DEF Making, CopyToAllocate, CopyToNoSpace, CopyToWriteFull, CopyToWriteShort, CopyToDirFull,
                    MkdirInit, MkdirUndoBlock, MkdirUndoSuper
      <4> QED BY <1>0, <1>2, <3>2, <4>1, TreeMaking
    <3> QED BY <3>1, <3>2
  <2>6. ~MkfsRoot /\ ~MkfsList /\ ~MkfsLast
    BY DEF Both
  <2> QED BY <1>2, <2>1, <2>2, <2>3, <2>4, <2>5, <2>6 DEF Step
<1>3. CASE Refused
  <2>1. UNCHANGED vars
    BY <1>3 DEF Refused
  <2> QED BY <1>0, <2>1, TreeUnmoved DEF Both
<1>4. CASE Kill
  BY <1>0, <1>4, TreeKilled
<1>5. Next
  BY DEF Both
<1> QED BY <1>1, <1>2, <1>3, <1>4, <1>5 DEF Next

\* A view without entries is the tree of an empty root.
LEMMA TreeBare ==
  ASSUME WholeNames, PathsClosed, NEW v, Treelike(v), NEW T,
         \A b \in Blocks, n \in Names : v[b][n] = Unused
  PROVE  TreeOf(v, T) = {FT!Dir(<<>>)}
<1>1. Paths \subseteq Seq(Names)
  BY PathsAre
<1>2. Look(v, <<>>) = RootEntry /\ RootEntry.type = 2 /\ RootEntry.size = 0
  BY LookRoot DEF RootEntry, Entry
<1>3. ASSUME NEW q \in Led(v) PROVE q = <<>>
  <2> SUFFICES ASSUME q # <<>> PROVE FALSE
    OBVIOUS
  <2>1. q \in Seq(Names) /\ Look(v, q).type # 0
    BY <1>1, <1>3 DEF Led
  <2>2. PICK p \in Seq(Names), n \in Names : q = Append(p, n)
    BY <2>1, SequenceEmptyOrAppend
  <2>3. Look(v, p).first \in Blocks /\ Look(v, q) = v[Look(v, p).first][n]
    BY <2>1, <2>2, LookLast
  <2>4. Look(v, q) = Unused
    BY <2>2, <2>3
  <2> QED BY <2>1, <2>4 DEF Unused, Entry
<1>4. <<>> \in Led(v)
  BY <1>2 DEF Led, Paths
<1>5. Led(v) = {<<>>}
  BY <1>3, <1>4
<1>6. NodeOf(<<>>, Look(v, <<>>), T) = FT!Dir(<<>>)
  <2>1. (Look(v, <<>>).type = 2) = TRUE /\ Look(v, <<>>).size = 0
    BY <1>2
  <2> QED BY <2>1 DEF NodeOf, FT!Dir
<1> QED BY <1>5, <1>6 DEF TreeOf

\* The image that mymkfs leaves shows an empty root.
LEMMA TreeMade ==
  ASSUME IInv, IInv', TInv', Covered, MkfsLast
  PROVE  Tree' = {FT!Dir(<<>>)}
<1>1. /\ run.op = "mymkfs" /\ run.at = "list" /\ run' = Idle /\ tag' = tag
      /\ disk' = [disk EXCEPT ![NBlocks - 1] = ZeroBlock(0)]
  BY DEF MkfsLast
<1>2. /\ \A b \in Blocks : tag[b] = IF b = Root THEN "root" ELSE "free"
      /\ disk[Root] = ZeroBlock(0) /\ disk \in Images
  BY <1>1, OnFormat DEF Formatting
<1>3. disk'[Root] = ZeroBlock(0)
  BY <1>1, <1>2 DEF Images
<1>4. ASSUME NEW d \in Blocks, NEW s \in Slots PROVE ~Visible(d, s)'
  <2>1. Directory(d)' => d = Root
    BY <1>1, <1>2 DEF Directory
  <2>2. disk'[Root].slots[s].type = 0
    BY <1>3 DEF ZeroBlock, EmptyDir, Unused, Entry
  <2> QED BY <2>1, <2>2 DEF Visible
<1>5. View' = ViewOf(disk', Visibles')
  <2>1. ViewSound'
    BY ViewIsSound, PTL
  <2> QED BY <2>1 DEF ViewSound
<1>6. PICK v : v = View'
  OBVIOUS
<1>7. ASSUME NEW b \in Blocks, NEW n \in Names PROVE v[b][n] = Unused
  <2>1. \A s \in Slots : <<b, s>> \notin Visibles'
    BY <1>4 DEF Visibles
  <2>2. Named(disk', Visibles', b, n) = {}
    BY <2>1 DEF Named
  <2> QED BY <1>5, <1>6, <2>2 DEF ViewOf
<1>8. formatted'
  BY DEF MkfsLast
<1>9. ViewHolds' /\ TreeHolds'
  BY <1>8, ViewNext
<1>10. Tree' = TreeOf(v, Texts') /\ Treelike(v)
  BY <1>6, <1>9 DEF TreeHolds, TreeOf, Led, NodeOf, Paths, ViewHolds, Treelike
<1>11. PICK T : T = Texts'
  OBVIOUS
<1> QED BY <1>7, <1>10, <1>11, TreeBare DEF Covered

\* Every step is a step of the tree, or leaves it as it is.
LEMMA TreeOfStep == IInv /\ IInv' /\ TInv /\ TInv' /\ Covered /\ [Next]_vars => [FT!Next]_Tree
<1> SUFFICES ASSUME IInv, IInv', TInv, TInv', Covered, [Next]_vars
             PROVE  FT!Command(Tree, Tree') \/ Tree' = Tree
  BY DEF FT!Next
<1>1. CASE UNCHANGED vars
  BY <1>1, TreeUnmoved DEF TreeAsIs, Covered
<1>2. ASSUME ~formatted' PROVE FT!Command(Tree, Tree')
  <2>1. Tree' = {}
    BY <1>2 DEF Tree
  <2> QED BY <2>1 DEF FT!Command, FT!Mkfs
<1>3. CASE MkfsSuper \/ MkfsRoot \/ MkfsList
  <2>1. ~formatted'
    BY <1>3, StepMkfs
  <2> QED BY <1>2, <2>1
<1>4. CASE MkfsLast
  <2>1. Tree' = {FT!Dir(<<>>)}
    BY <1>4, TreeMade
  <2> QED BY <2>1 DEF FT!Command, FT!Mkfs
<1>5. CASE Next /\ ~MkfsSuper /\ ~MkfsRoot /\ ~MkfsList /\ ~MkfsLast
  <2>1. CASE ~formatted'
    BY <1>2, <2>1
  <2>2. CASE formatted'
    <3>1. formatted
      <4>1. CASE Kill
        BY <2>2, <4>1 DEF Kill
      <4>2. CASE ~Kill
        BY <1>5, <4>2, StillFormatted
      <4> QED BY <4>1, <4>2
    <3>2. Both
      BY <1>5, <2>2, <3>1 DEF Both, Covered
    <3> QED BY <3>2, TreeStep DEF TreeAsCommanded, Covered
  <2> QED BY <2>1, <2>2
<1> QED BY <1>1, <1>3, <1>4, <1>5

\* Whatever the size of the image, the names, the texts and the paths: each
\* command of os_day9/sample.c that succeeds changes one path of the tree of files
\* and nothing else, one that fails or is killed before it has freed a block
\* changes nothing, and a file reads back as the text that was copied to it.
THEOREM TreeOfFiles == NoFullBlocks /\ WholeNames /\ PathsClosed /\ Spec => ImplementsFileTree
<1> SUFFICES ASSUME NoFullBlocks, Covered PROVE Spec => ImplementsFileTree
  BY DEF Covered, NoFullBlocks, WholeNames, PathsClosed
<1>1. Init => FT!Init
  BY DEF Init, FT!Init, Tree
<1>2. Init => TInv
  BY DEF Init, TInv
<1>3. Covered => Covered'
  BY DEF Covered, WholeNames, PathsClosed
<1>4. Spec => []IInv
  BY Invariance
<1>5. IInv /\ IInv' /\ TInv /\ [Next]_vars => TInv'
  BY TInductive
<1>6. IInv /\ IInv' /\ TInv /\ TInv' /\ [Next]_vars => [FT!Next]_Tree
  BY TreeOfStep
<1> QED BY <1>1, <1>2, <1>4, <1>5, <1>6, PTL DEF Spec, Safety, ImplementsFileTree, FT!Spec

-----------------------------------------------------------------------------
\* The rest is about sizes: StatIsRight.  It sums the bytes of a file with a
\* fold, which is a recursive function on sets of positions.

\* The sum over a set T of positions: w of what is left, and the last one.
Total(s, w, T) == IF T = {} THEN 0 ELSE w[T \ {Max(T)}] + s[Max(T)].bytes
Adds(s, n, w, u) == u = [T \in SUBSET (1 .. n) |-> Total(s, w, T)]
Adding(s, n) == CHOOSE w : Adds(s, n, w, w)

\* The sum of the bytes of pieces, as StatIsRight writes it.
BytesIn(s) == FoldLeft(LAMBDA sum, p : sum + p.bytes, 0, s)

\* The fold is the total over all positions.
LEMMA FoldAdds ==
  ASSUME NEW s, NEW n, DOMAIN s = 1 .. n
  PROVE  BytesIn(s) = Adding(s, n)[1 .. n]
BY DEF BytesIn, FoldLeft, MapThenFoldSet, Adding, Adds, Total

\* One entry of the totals that follow the rule.
LEMMA AddsAt ==
  ASSUME NEW s, NEW n, NEW w, NEW u, Adds(s, n, w, u), NEW T \in SUBSET (1 .. n)
  PROVE  u[T] = Total(s, w, T)
BY DEF Adds

\* The same, of totals that are defined by themselves.
LEMMA AddsSelf ==
  ASSUME NEW s, NEW n, NEW w, Adds(s, n, w, w), NEW T \in SUBSET (1 .. n)
  PROVE  w[T] = Total(s, w, T)
BY AddsAt

\* A set of positions has a last one.
LEMMA MaxIn ==
  ASSUME NEW n \in Nat, NEW T, T \subseteq 1 .. n, T # {}
  PROVE  Max(T) \in T /\ \A y \in T : y <= Max(T)
<1> DEFINE U == {u \in Nat : \A y \in T : y <= u}
<1>1. n \in U
  OBVIOUS
<1>2. U \subseteq Nat /\ U # {}
  BY <1>1
<1>3. PICK u \in U : \A y \in U : u <= y
  BY <1>2, Least
<1>4. u \in T
  <2> SUFFICES ASSUME u \notin T PROVE FALSE
    OBVIOUS
  <2>1. \A y \in T : y \in Nat /\ y >= 1 /\ y <= u /\ y # u
    BY <1>3
  <2>2. PICK z \in T : TRUE
    OBVIOUS
  <2>3. u \in Nat
    BY <1>3
  <2>4. u # 0
    BY <2>1, <2>2
  <2>5. u - 1 \in Nat /\ \A y \in T : y <= u - 1
    BY <2>1, <2>3, <2>4
  <2> QED BY <2>5, <1>3
<1>5. \E x \in T : \A y \in T : x >= y
  BY <1>3, <1>4
<1>6. Max(T) \in T /\ \A y \in T : Max(T) >= y
  BY <1>5 DEF Max
<1> QED BY <1>6

\* It is n if n is one of them.
LEMMA MaxLast ==
  ASSUME NEW n \in Nat, NEW T, T \subseteq 1 .. n, n \in T
  PROVE  Max(T) = n
<1>1. Max(T) \in T /\ n <= Max(T)
  BY MaxIn
<1>2. Max(T) \in 1 .. n
  BY <1>1
<1> QED BY <1>1, <1>2

\* The recursion in the fold has a solution.
LEMMA AddsExists == ASSUME NEW s, NEW k \in Nat PROVE \E w : Adds(s, k, w, w)
<1> DEFINE A == {n \in Nat : \E w : Adds(s, n, w, w)}
<1>1. 0 \in A
  <2> DEFINE w == [T \in SUBSET (1 .. 0) |-> 0]
  <2>1. \A T \in SUBSET (1 .. 0) : T = {}
    OBVIOUS
  <2>2. Adds(s, 0, w, w)
    BY <2>1 DEF Adds, Total
  <2> QED BY <2>2
<1>2. ASSUME NEW n \in Nat, n \in A PROVE n + 1 \in A
  <2>1. PICK w : Adds(s, n, w, w)
    BY <1>2
  <2>2. PICK m \in Nat : m = n + 1
    OBVIOUS
  <2> DEFINE v == [T \in SUBSET (1 .. m) |-> IF m \in T THEN w[T \ {m}] + s[m].bytes ELSE w[T]]
             g == [T \in SUBSET (1 .. m) |-> Total(s, v, T)]
  <2>3. \A T \in SUBSET (1 .. m) : m \notin T => T \in SUBSET (1 .. n)
    BY <2>2
  <2>4. ASSUME NEW T \in SUBSET (1 .. m) PROVE v[T] = g[T]
    <3>1. CASE m \in T
      <4>1. Max(T) = m /\ T # {}
        BY <3>1, MaxLast
      <4>2. T \ {m} \in SUBSET (1 .. m) /\ m \notin T \ {m}
        OBVIOUS
      <4>3. v[T \ {m}] = w[T \ {m}]
        BY <4>2
      <4>4. v[T] = w[T \ {m}] + s[m].bytes
        BY <3>1
      <4>5. g[T] = v[T \ {m}] + s[m].bytes
        BY <4>1 DEF Total
      <4> QED BY <4>3, <4>4, <4>5
    <3>2. CASE m \notin T
      <4>1. T \in SUBSET (1 .. n)
        BY <3>2, <2>3
      <4>2. v[T] = w[T]
        BY <3>2
      <4>3. w[T] = Total(s, w, T)
        <5> HIDE DEF v, g
        <5> QED BY <4>1, <2>1, AddsSelf
      <4>4. T # {} => T \ {Max(T)} \in SUBSET (1 .. m) /\ m \notin T \ {Max(T)}
        BY <3>2
      <4>5. T # {} => v[T \ {Max(T)}] = w[T \ {Max(T)}]
        BY <4>4
      <4>6. g[T] = Total(s, v, T)
        OBVIOUS
      <4> HIDE DEF v, g
      <4> QED BY <4>2, <4>3, <4>5, <4>6 DEF Total
    <3> QED BY <3>1, <3>2
  <2>5. Adds(s, m, v, v)
    <3>1. v = g
      <4>1. v = [T \in SUBSET (1 .. m) |-> v[T]] /\ g = [T \in SUBSET (1 .. m) |-> g[T]]
        OBVIOUS
      <4> HIDE DEF v, g
      <4> QED BY <4>1, <2>4
    <3> QED BY <3>1 DEF Adds
  <2>6. m \in A
    BY <2>5
  <2> QED BY <2>2, <2>6
<1>3. Nat \subseteq A
  <2> HIDE DEF A
  <2> QED BY <1>1, <1>2, Induct
<1> QED BY <1>3

\* n pieces of c bytes each, but the last, of r.
Pieced(s, n, c, r) ==
  DOMAIN s = 1 .. n /\ \A i \in 1 .. n : s[i].bytes = IF i = n THEN r ELSE c

\* The sum of the bytes of such pieces.
LEMMA SumOf ==
  ASSUME NEW n \in Nat \ {0}, NEW s, NEW c \in Nat, NEW r \in Nat, Pieced(s, n, c, r)
  PROVE  BytesIn(s) = (n - 1) * c + r
<1>1. \E w : Adds(s, n, w, w)
  BY AddsExists
<1>2. DOMAIN s = 1 .. n /\ \A i \in 1 .. n : s[i].bytes = IF i = n THEN r ELSE c
  BY DEF Pieced
<1>3. PICK w : w = Adding(s, n) /\ Adds(s, n, w, w)
  BY <1>1 DEF Adding
<1>4. ASSUME NEW j \in Nat, j + 1 <= n PROVE w[1 .. j + 1] = w[1 .. j] + s[j + 1].bytes
  <2>1. PICK m \in 1 .. n : m = j + 1
    BY <1>4
  <2>2. PICK T : T = 1 .. m
    OBVIOUS
  <2>3. m \in Nat /\ m >= 1 /\ m <= n
    BY <2>1
  <2>4. T \subseteq 1 .. m /\ m \in T /\ T # {} /\ T \in SUBSET (1 .. n)
    <3>1. m \in T
      BY <2>3, <2>2
    <3>2. T \subseteq 1 .. n
      BY <2>3, <2>2
    <3> QED BY <2>2, <3>1, <3>2
  <2>5. Max(T) = m
    BY <2>3, <2>4, MaxLast
  <2>6. T \ {m} = 1 .. j
    BY <2>1, <2>2
  <2>7. w[T] = Total(s, w, T)
    BY <1>3, <2>4, AddsSelf
  <2> QED BY <2>1, <2>2, <2>4, <2>5, <2>6, <2>7 DEF Total
<1> DEFINE A == {j \in Nat : j < n => w[1 .. j] = j * c}
<1>5. 0 \in A
  <2>1. PICK T : T = 1 .. 0
    OBVIOUS
  <2>2. T = {} /\ T \in SUBSET (1 .. n)
    BY <2>1
  <2>3. w[T] = Total(s, w, T)
    BY <1>3, <2>2, AddsSelf
  <2> QED BY <2>1, <2>2, <2>3 DEF Total
<1>6. ASSUME NEW j \in Nat, j \in A PROVE j + 1 \in A
  <2>1. ASSUME j + 1 < n PROVE w[1 .. j + 1] = (j + 1) * c
    <3>1. w[1 .. j] = j * c /\ s[j + 1].bytes = c
      BY <1>2, <1>6, <2>1
    <3>2. w[1 .. j + 1] = w[1 .. j] + s[j + 1].bytes
      BY <1>4, <2>1
    <3>3. j * c + c = (j + 1) * c
      OBVIOUS
    <3> QED BY <3>1, <3>2, <3>3
  <2> QED BY <2>1
<1>7. Nat \subseteq A
  <2> HIDE DEF A
  <2> QED BY <1>5, <1>6, Induct
<1>8. PICK j \in Nat : j = n - 1
  OBVIOUS
<1>9. w[1 .. j] = j * c
  BY <1>7, <1>8
<1>10. w[1 .. j + 1] = w[1 .. j] + s[j + 1].bytes
  BY <1>4, <1>8
<1>11. j + 1 = n /\ s[n].bytes = r
  BY <1>2, <1>8
<1>12. w[1 .. n] = j * c + r
  BY <1>9, <1>10, <1>11
<1>13. BytesIn(s) = Adding(s, n)[1 .. n]
  BY <1>2, FoldAdds
<1> QED BY <1>3, <1>8, <1>12, <1>13

\* So many bytes need n blocks, and do not fill the last one.
Fits(size, n) == (n - 1) * Capacity < size /\ size < n * Capacity

\* Of each file the user sees, the size in its entry fits the chain.
FileSizes ==
  \A d \in Blocks, s \in Slots :
    Visible(d, s) /\ disk[d].slots[s].type = 1 =>
      Fits(disk[d].slots[s].size, Size(disk, First(d, s)))

\* The k blocks that a mycopyTo has written come before the one it will write.
CopySize ==
  run.op = "mycopyTo" =>
    /\ Size(disk, run.first) = run.k + Size(disk, run.cur)
    /\ IF run.cur = 0 THEN Fits(run.size, run.k) ELSE run.size = run.left + run.k * Capacity

SInv == formatted => FileSizes /\ CopySize

\* A chain whose pointers are not written stays as long as it is.
LEMMA SizeKept ==
  ASSUME NEW d \in Images, NEW e \in Images, NEW x \in Ids, Ended(d, x),
         \A y \in Reach(d, x) : e[y].next = d[y].next
  PROVE  Size(e, x) = Size(d, x)
<1>1. Reach(e, x) = Reach(d, x) /\ Ended(e, x)
  BY Untouched
<1>2. Cardinality(Reach(d, x)) = Size(d, x)
  BY Distinct
<1>3. Cardinality(Reach(e, x)) = Size(e, x)
  BY <1>1, Distinct
<1> QED BY <1>1, <1>2, <1>3

\* A chain that is cut behind block c loses what came after c.
LEMMA CutSize ==
  ASSUME NEW d \in Images, NEW e \in Images, NEW x \in Ids, Ended(d, x), NEW c \in Blocks, c \in Reach(d, x),
         e[c].next \notin Blocks, \A b \in Blocks : b # c => e[b].next = d[b].next
  PROVE  Size(e, x) = Size(d, x) - Size(d, d[c].next)
<1>1. PICK y \in Ids : y = d[c].next
  BY Sizes
<1>2. Ended(d, c) /\ Reach(d, c) \subseteq Reach(d, x)
  BY Within
<1>3. Ended(d, y) /\ Reach(d, c) = {c} \cup Reach(d, y)
  BY <1>1, <1>2, Behind
<1>4. Reach(d, x) \subseteq Blocks
  BY ChainBasics
<1>5. Ended(e, x) /\ Reach(e, x) = Reach(d, x) \ Reach(d, y)
  <2>1. \A b \in Reach(d, x) \ {c} : e[b].next = d[b].next
    BY <1>4
  <2> QED BY <1>1, <2>1, Cut
<1>6. IsFiniteSet(Reach(d, x)) /\ Cardinality(Reach(d, x)) = Size(d, x)
  BY Distinct
<1>7. IsFiniteSet(Reach(d, y)) /\ Cardinality(Reach(d, y)) = Size(d, y)
  BY <1>3, Distinct
<1>8. Cardinality(Reach(e, x)) = Size(e, x)
  BY <1>5, Distinct
<1>9. Reach(d, x) \cap Reach(d, y) = Reach(d, y)
  BY <1>2, <1>3
<1>10. Cardinality(Reach(d, x) \ Reach(d, y)) = Cardinality(Reach(d, x)) - Cardinality(Reach(d, x) \cap Reach(d, y))
  BY <1>6, FS_Difference
<1> QED BY <1>1, <1>5, <1>6, <1>7, <1>8, <1>9, <1>10

\* A file that was there before the step is as long as it was.
LEMMA OlderSize ==
  ASSUME IInv, TInv, formatted, TypeOK', FileSizes, NEW d \in Blocks, NEW s \in Slots, Older(d, s),
         disk'[d].slots[s].type = 1
  PROVE  Fits(disk'[d].slots[s].size, Size(disk', First(d, s)'))
<1>0. disk \in Images /\ disk' \in Images
  BY DEF IInv, TypeOK, Images
<1>1. Visible(d, s) /\ disk'[d].slots[s] = disk[d].slots[s] /\ disk[d].slots[s].type = 1
  BY DEF Older
<1>2. InUse(1, d, s)
  BY <1>1, VisibleIs
<1>3. First(d, s) \in Ids /\ Ended(disk, First(d, s))
  BY <1>2, FilesInUse, Sizes DEF Stops
<1>4. \A y \in Reach(disk, First(d, s)) : disk'[y].next = disk[y].next
  BY DEF Older, On
<1>5. PICK x \in Ids : x = First(d, s)
  BY <1>3
<1>6. Size(disk', x) = Size(disk, x)
  BY <1>0, <1>3, <1>4, <1>5, SizeKept
<1>7. First(d, s)' = x
  BY <1>1, <1>5 DEF First
<1>8. Fits(disk[d].slots[s].size, Size(disk, x))
  BY <1>1, <1>5 DEF FileSizes
<1> QED BY <1>1, <1>6, <1>7, <1>8

\* A step that makes no file leaves each as long as its size says.
LEMMA SizesOld ==
  ASSUME Both, FileSizes, OldFiles
  PROVE  FileSizes'
<1>1. IInv /\ TInv /\ formatted /\ TypeOK'
  BY BothFacts DEF Both
<1>2. ASSUME NEW d \in Blocks, NEW s \in Slots, Visible(d, s)', disk'[d].slots[s].type = 1
      PROVE  Fits(disk'[d].slots[s].size, Size(disk', First(d, s)'))
  <2>1. Older(d, s)
    BY <1>2 DEF OldFiles
  <2> QED BY <1>1, <1>2, <2>1, OlderSize
<1> QED BY <1>2 DEF FileSizes

\* The entry that a mycopyTo makes has the size of what it has written.
LEMMA SizesCopied ==
  ASSUME Both, FileSizes, CopySize, CopyToEntry
  PROVE  FileSizes'
<1>1. IInv /\ TInv /\ formatted /\ TypeOK' /\ disk \in Images /\ disk' \in Images /\ TypeOK
  BY BothFacts DEF Both
<1>2. OldFilesBut(Entry(1, run.name, run.first, run.size)) /\ \A b \in Blocks : disk'[b].next = disk[b].next
  BY TreeCopied
<1>3. run.op = "mycopyTo" /\ run.left = 0
  BY DEF CopyToEntry
<1>4. run.cur = 0 /\ run.first \in Ids /\ Ended(disk, run.first)
  BY <1>1, <1>3, Copying, Sizes DEF Stops
<1>5. Fits(run.size, Size(disk, run.first))
  <2>1. Size(disk, 0) = 0
    BY <1>1, SetFacts, NoChain
  <2>2. run.k \in Nat
    BY <1>1, RunFields DEF TypeOK
  <2>3. Size(disk, run.first) = run.k /\ Fits(run.size, run.k)
    BY <1>3, <1>4, <2>1, <2>2 DEF CopySize
  <2> QED BY <2>3
<1>6. PICK x \in Ids : x = run.first
  BY <1>4
<1>7. Size(disk', x) = Size(disk, x)
  <2>1. \A y \in Reach(disk, x) : disk'[y].next = disk[y].next
    BY <1>1, <1>2, ChainBasics
  <2> QED BY <1>1, <1>4, <1>6, <2>1, SizeKept
<1>8. ASSUME NEW d \in Blocks, NEW s \in Slots, Visible(d, s)', disk'[d].slots[s].type = 1
      PROVE  Fits(disk'[d].slots[s].size, Size(disk', First(d, s)'))
  <2>1. CASE Older(d, s)
    BY <1>1, <1>8, <2>1, OlderSize
  <2>2. CASE disk'[d].slots[s] = Entry(1, run.name, run.first, run.size)
    <3>1. disk'[d].slots[s].size = run.size /\ First(d, s)' = x
      BY <1>6, <2>2 DEF Entry, First
    <3> QED BY <1>5, <1>6, <1>7, <3>1
  <2> QED BY <1>2, <1>8, <2>1, <2>2 DEF OldFilesBut
<1> QED BY <1>8 DEF FileSizes

\* mycopyTo has written nothing when it begins.
LEMMA CopySizeBegin ==
  ASSUME IInv, TypeOK', NEW path \in DirPaths, NEW name \in Names, NEW c \in Contents, NEW len \in Lengths,
         CopyToBegin(path, name, c, len)
  PROVE  CopySize'
<1>1. /\ ffree # 0 /\ disk' = disk
      /\ run' = [Idle EXCEPT !.op = "mycopyTo", !.at = "read",
                         !.dir = Navigate(path), !.dirblk = disk[Navigate(path)], !.name = Stored[name],
                         !.first = ffree, !.cur = ffree, !.size = len,
                         !.left = len, !.c = c, !.ff = PopFree(ffree)]
  BY DEF CopyToBegin
<1>2. run'.first = ffree /\ run'.cur = ffree /\ run'.size = len /\ run'.left = len /\ run'.k = 0
  BY <1>1 DEF Idle
<1>3. len \in Nat /\ Capacity \in Nat /\ len = len + 0 * Capacity
  BY SizesAssumption
<1>4. Size(disk, ffree) \in Nat
  BY ChainBasics, TypeFacts DEF IInv
<1> QED BY <1>1, <1>2, <1>3, <1>4 DEF CopySize

\* Nor does it when it takes a block.
LEMMA CopySizeAllocate == ASSUME IInv, TypeOK', CopySize, CopyToAllocate PROVE CopySize'
<1>1. /\ run.op = "mycopyTo" /\ disk' = disk
      /\ run' = [run EXCEPT !.at = "write", !.nxt = run.ff, !.ff = PopFree(run.ff)]
  BY DEF CopyToAllocate
<1>2. run \in Runs
  BY DEF IInv, TypeOK
<1>3. /\ run'.op = run.op /\ run'.first = run.first /\ run'.cur = run.cur /\ run'.size = run.size
      /\ run'.left = run.left /\ run'.k = run.k
  BY <1>1, <1>2 DEF Runs
<1> QED BY <1>1, <1>3 DEF CopySize

\* The block that is written is behind the k blocks that are, and before the rest.
LEMMA Writing ==
  ASSUME IInv, CopySize, run.op = "mycopyTo", run.cur \in Blocks
  PROVE  /\ disk \in Images /\ run.first \in Ids /\ Ended(disk, run.first) /\ run.cur \in Reach(disk, run.first)
         /\ disk[run.cur].next \in Ids /\ Ended(disk, run.cur)
         /\ Size(disk, run.first) = run.k + (1 + Size(disk, disk[run.cur].next))
         /\ Size(disk, disk[run.cur].next) \in Nat
         /\ run.size = run.left + run.k * Capacity /\ run.k \in Nat /\ run.left \in Nat /\ run.size \in Nat
<1>1. /\ disk \in Images /\ run \in Runs /\ HeldBlocks /\ tag[run.cur] = "held" /\ run.cur # 0
      /\ run.first \in Ids /\ Ended(disk, run.first)
  BY Copying, TypeFacts, SetFacts, Sizes DEF Stops
<1>2. run.cur \in Reach(disk, run.first)
  BY <1>1 DEF HeldBlocks, On
<1>3. Ended(disk, run.cur)
  BY <1>1, <1>2, Within
<1>4. disk[run.cur].next \in Ids
  BY <1>1, Sizes
<1>5. Size(disk, run.cur) = 1 + Size(disk, disk[run.cur].next)
  BY <1>1, <1>3, Behind
<1>6. Size(disk, disk[run.cur].next) \in Nat
  BY <1>1, <1>4, ChainBasics
<1>7. run.k \in Nat /\ run.left \in Nat /\ run.size \in Nat
  BY <1>1, RunFields
<1>8. Size(disk, run.first) = run.k + Size(disk, run.cur) /\ run.size = run.left + run.k * Capacity
  BY <1>1 DEF CopySize
<1> QED BY <1>1, <1>2, <1>3, <1>4, <1>5, <1>6, <1>7, <1>8

\* A full block: one more is written, and a whole block of the text.
LEMMA CopySizeFull == ASSUME IInv, TypeOK', CopySize, CopyToWriteFull PROVE CopySize'
<1>1. /\ run.op = "mycopyTo" /\ run.at = "write"
      /\ disk' = [disk EXCEPT ![run.cur] = TextBlock(run.nxt, run.c, run.k)]
      /\ run' = [run EXCEPT !.at = "read", !.cur = run.nxt, !.k = @ + 1, !.left = @ - Capacity]
  BY DEF CopyToWriteFull
<1>2. /\ disk \in Images /\ disk' \in Images /\ run \in Runs /\ run.left >= Capacity /\ HeldBlocks
      /\ Capacity \in Nat
  <2>1. Control
    BY DEF IInv
  <2> QED BY <1>1, <2>1, Copying, SizesAssumption DEF TypeOK, Images, Control
<1>3. run.left >= 1
  BY <1>2, SizesAssumption, RunFields
<1>4. run.cur \in Blocks /\ run.cur # 0
  BY <1>1, <1>3, Copying, SetFacts
<1>5. run.nxt = disk[run.cur].next /\ run.nxt # 0
  BY <1>1, <1>2, <1>4 DEF HeldBlocks
<1>6. /\ run.first \in Ids /\ Ended(disk, run.first)
      /\ Size(disk, run.first) = run.k + (1 + Size(disk, run.nxt)) /\ Ended(disk, run.nxt)
      /\ Size(disk, run.nxt) \in Nat /\ run.nxt \in Ids
      /\ run.size = run.left + run.k * Capacity /\ run.k \in Nat /\ run.left \in Nat /\ run.size \in Nat
  BY <1>1, <1>2, <1>4, <1>5, Writing, Behind
<1>7. \A b \in Blocks : disk'[b].next = disk[b].next
  <2>1. TextBlock(run.nxt, run.c, run.k).next = run.nxt
    BY DEF TextBlock
  <2> QED BY <1>1, <1>2, <1>5, <2>1 DEF Images
<1>8. ASSUME NEW x \in Ids, Ended(disk, x) PROVE Size(disk', x) = Size(disk, x)
  <2>1. \A y \in Reach(disk, x) : disk'[y].next = disk[y].next
    BY <1>2, <1>7, ChainBasics
  <2> QED BY <1>2, <1>8, <2>1, SizeKept
<1>9. /\ run'.first = run.first /\ run'.cur = run.nxt /\ run'.size = run.size
      /\ run'.left = run.left - Capacity /\ run'.k = run.k + 1
  BY <1>1, <1>2 DEF Runs
<1>10. Size(disk', run.first) = run.k + 1 + Size(disk', run.nxt)
  <2>1. Size(disk', run.first) = Size(disk, run.first)
    BY <1>6, <1>8
  <2>2. Size(disk', run.nxt) = Size(disk, run.nxt)
    BY <1>6, <1>8
  <2> QED BY <1>6, <2>1, <2>2
<1>11. run.size = (run.left - Capacity) + (run.k + 1) * Capacity
  <2>1. (run.k + 1) * Capacity = run.k * Capacity + Capacity /\ run.k * Capacity \in Nat
    BY <1>2, <1>6
  <2> QED BY <1>2, <1>6, <2>1
<1> QED BY <1>5, <1>9, <1>10, <1>11 DEF CopySize

\* The short block ends the chain, which is then as long as the text needs.
LEMMA CopySizeShort == ASSUME IInv, TypeOK', CopySize, CopyToWriteShort PROVE CopySize'
<1>1. /\ run.op = "mycopyTo" /\ run.left \in 1 .. Capacity - 1
      /\ disk' = [disk EXCEPT ![run.cur] = TextBlock(0, run.c, run.k)]
      /\ run' = [run EXCEPT !.cur = 0, !.k = @ + 1, !.left = 0]
  BY DEF CopyToWriteShort
<1>2. disk \in Images /\ disk' \in Images /\ run \in Runs /\ Capacity \in Nat
  BY <1>1, SizesAssumption DEF IInv, TypeOK, Images
<1>3. run.left >= 1
  BY <1>1, <1>2
<1>4. run.cur \in Blocks
  BY <1>1, <1>3, Copying
<1>5. /\ run.first \in Ids /\ Ended(disk, run.first) /\ run.cur \in Reach(disk, run.first)
      /\ Size(disk, run.first) = run.k + (1 + Size(disk, disk[run.cur].next))
      /\ Size(disk, disk[run.cur].next) \in Nat
      /\ run.size = run.left + run.k * Capacity /\ run.k \in Nat /\ run.left \in Nat /\ run.size \in Nat
  BY <1>1, <1>4, Writing
<1>6. disk'[run.cur].next = 0 /\ \A b \in Blocks : b # run.cur => disk'[b].next = disk[b].next
  <2>1. TextBlock(0, run.c, run.k).next = 0
    BY DEF TextBlock
  <2> QED BY <1>1, <1>2, <1>4, <2>1 DEF Images
<1>7. Size(disk', run.first) = run.k + 1
  <2>1. disk'[run.cur].next \notin Blocks
    BY <1>6, SetFacts
  <2>2. PICK x \in Ids : x = run.first
    BY <1>5
  <2>3. PICK b \in Blocks : b = run.cur
    BY <1>4
  <2>4. Size(disk', x) = Size(disk, x) - Size(disk, disk[b].next)
    BY <1>2, <1>5, <1>6, <2>1, <2>2, <2>3, CutSize
  <2> QED BY <1>5, <2>2, <2>3, <2>4
<1>8. run'.first = run.first /\ run'.cur = 0 /\ run'.size = run.size /\ run'.k = run.k + 1
  BY <1>1, <1>2 DEF Runs
<1>9. Size(disk', 0) = 0
  BY <1>2, SetFacts, NoChain
<1>10. Fits(run.size, run.k + 1)
  <2>1. (run.k + 1) * Capacity = run.k * Capacity + Capacity /\ run.k * Capacity \in Nat /\ run.k + 1 - 1 = run.k
    BY <1>2, <1>5
  <2> QED BY <1>1, <1>2, <1>5, <2>1 DEF Fits
<1> QED BY <1>5, <1>7, <1>8, <1>9, <1>10 DEF CopySize

\* One step of any command.
LEMMA CopySizeStep == ASSUME Both, CopySize PROVE CopySize'
<1> SUFFICES ASSUME run'.op = "mycopyTo" PROVE CopySize'
  BY DEF CopySize
<1>0. IInv /\ TypeOK' /\ Next /\ ~MkfsSuper /\ ~MkfsRoot /\ ~MkfsList /\ ~MkfsLast /\ Control' /\ TypeOK
  BY BothFacts DEF Both, IInv
<1>1. CASE Begin
  <2>1. PICK path \in DirPaths, name \in Names :
          \/ \E c \in Contents, len \in Lengths : CopyToBegin(path, name, c, len)
          \/ RmBegin(path, name) \/ MkdirBegin(path, name) \/ RmdirBegin(path, name)
    BY <1>0, <1>1 DEF Begin
  <2>2. ~RmBegin(path, name) /\ ~MkdirBegin(path, name) /\ ~RmdirBegin(path, name)
    BY DEF RmBegin, MkdirBegin, RmdirBegin, Idle
  <2> QED BY <1>0, <2>1, <2>2, CopySizeBegin
<1>2. CASE Step
  <2>1. run' # Idle /\ run \in Runs
    BY <1>0, IdleIs DEF TypeOK
  <2>2. ~CopyToNoSpace /\ ~CopyToEntry /\ ~CopyToDirFull /\ ~RmEntry /\ ~MkdirEntry /\ ~MkdirUndoSuper /\ ~RmdirEntry
    BY <2>1 DEF CopyToNoSpace, CopyToEntry, CopyToDirFull, RmEntry, MkdirEntry, MkdirUndoSuper, RmdirEntry
  <2>3. ~RmFreeBlock /\ ~RmSuper /\ ~MkdirInit /\ ~MkdirUndoBlock /\ ~RmdirFreeBlock /\ ~RmdirSuper
    BY <2>1 DEF RmFreeBlock, RmSuper, MkdirInit, MkdirUndoBlock, RmdirFreeBlock, RmdirSuper, Runs
  <2> QED BY <1>0, <1>2, <2>2, <2>3, CopySizeAllocate, CopySizeFull, CopySizeShort DEF Step
<1>3. CASE Refused
  BY <1>3 DEF Refused, vars, CopySize
<1>4. CASE Kill
  BY <1>4, IdleIs DEF Kill
<1> QED BY <1>0, <1>1, <1>2, <1>3, <1>4 DEF Next

\* A new image has no files.
LEMMA SizesFormatted == ASSUME IInv, MkfsLast PROVE FileSizes' /\ CopySize'
<1>1. /\ run.op = "mymkfs" /\ run.at = "list" /\ run' = Idle /\ tag' = tag
      /\ disk' = [disk EXCEPT ![NBlocks - 1] = ZeroBlock(0)]
  BY DEF MkfsLast
<1>2. /\ \A b \in Blocks : tag[b] = IF b = Root THEN "root" ELSE "free"
      /\ disk[Root] = ZeroBlock(0) /\ disk \in Images
  BY <1>1, OnFormat DEF Formatting
<1>3. disk'[Root] = ZeroBlock(0)
  BY <1>1, <1>2 DEF Images
<1>4. ASSUME NEW d \in Blocks, NEW s \in Slots PROVE ~Visible(d, s)'
  <2>1. Directory(d)' => d = Root
    BY <1>1, <1>2 DEF Directory
  <2>2. disk'[Root].slots[s].type = 0
    BY <1>3 DEF ZeroBlock, EmptyDir, Unused, Entry
  <2> QED BY <2>1, <2>2 DEF Visible
<1>5. FileSizes'
  BY <1>4 DEF FileSizes
<1>6. CopySize'
  BY <1>1, IdleIs DEF CopySize
<1> QED BY <1>5, <1>6

\* The sizes are right after every step if they were before it.
LEMMA SInductive == IInv /\ IInv' /\ TInv /\ TInv' /\ WholeNames /\ SInv /\ [Next]_vars => SInv'
<1> SUFFICES ASSUME IInv, IInv', TInv, TInv', WholeNames, SInv, [Next]_vars, formatted'
             PROVE  FileSizes' /\ CopySize'
  BY DEF SInv
<1>1. CASE UNCHANGED vars
  <2>1. formatted /\ FileSizes /\ CopySize
    BY <1>1 DEF SInv, vars
  <2>2. UNCHANGED <<ffree, disk, run, tag, past>>
    BY <1>1 DEF vars
  <2>3. FileSizes'
    BY <2>1, <2>2 DEF FileSizes, Visible, Directory, Begun, Targeted, Removal, Untried, First
  <2> QED BY <2>1, <2>2, <2>3 DEF CopySize
<1>2. CASE MkfsSuper \/ MkfsRoot \/ MkfsList
  BY <1>2, StepMkfs
<1>3. CASE MkfsLast
  BY <1>3, SizesFormatted
<1>4. CASE Next /\ ~MkfsSuper /\ ~MkfsRoot /\ ~MkfsList /\ ~MkfsLast
  <2>1. formatted
    <3>1. CASE Kill
      BY <3>1 DEF Kill
    <3>2. CASE ~Kill
      BY <1>4, <3>2, StillFormatted
    <3> QED BY <3>1, <3>2
  <2>2. Both /\ FileSizes /\ CopySize
    BY <1>4, <2>1 DEF Both, SInv
  <2>3. FileSizes'
    <3>1. CASE CopyToEntry
      BY <2>2, <3>1, SizesCopied
    <3>2. CASE ~CopyToEntry
      BY <2>2, <3>2, TreeStep, SizesOld
    <3> QED BY <3>1, <3>2
  <2> QED BY <2>2, <2>3, CopySizeStep
<1> QED BY <1>1, <1>2, <1>3, <1>4

\* Only the last block of a chain that ends leads to no block.
LEMMA LastLink ==
  ASSUME NEW d \in Images
  PROVE  \A n \in 0 .. NBlocks, x \in Ids :
           Length(d, n, x) < n =>
             \A i \in DOMAIN Walk(d)[n][x] :
               d[Walk(d)[n][x][i]].next \notin Blocks <=> i = Length(d, n, x)
<1> DEFINE P(n, x) == Length(d, n, x) < n =>
             \A i \in DOMAIN Walk(d)[n][x] :
               d[Walk(d)[n][x][i]].next \notin Blocks <=> i = Length(d, n, x)
           T == {n \in 0 .. NBlocks : \A x \in Ids : P(n, x)}
<1>0. ASSUME NEW n \in 0 .. NBlocks, NEW x \in Ids, n = 0 \/ x \notin Blocks PROVE P(n, x)
  <2>1. Walk(d)[n][x] = <<>>
    BY <1>0, WalkStep
  <2> QED BY <2>1
<1>1. 0 \in T
  <2>1. 0 \in 0 .. NBlocks
    BY Sizes
  <2>2. \A x \in Ids : P(0, x)
    BY <1>0, <2>1
  <2> QED BY <2>1, <2>2
<1>2. ASSUME NEW n \in 0 .. NBlocks - 1, n \in T PROVE n + 1 \in T
  <2>1. PICK m \in 0 .. NBlocks : m = n + 1 /\ m # 0 /\ m - 1 = n /\ n \in 0 .. NBlocks
    BY Sizes
  <2>2. ASSUME NEW x \in Ids, x \in Blocks, Length(d, m, x) < m, NEW i \in DOMAIN Walk(d)[m][x]
        PROVE  d[Walk(d)[m][x][i]].next \notin Blocks <=> i = Length(d, m, x)
    <3>1. PICK z \in Ids : z = d[x].next
      BY <2>2, Sizes
    <3>2. Length(d, m, x) = 1 + Length(d, n, z)
      <4> HIDE DEF T, P
      <4>1. Length(d, m, x) = 1 + Length(d, m - 1, d[x].next)
        BY <2>1, <2>2, WalkFacts
      <4> QED BY <4>1, <2>1, <3>1
    <3>3. Length(d, n, z) \in Nat /\ (n = 0 \/ z \notin Blocks => Length(d, n, z) = 0)
            /\ (n # 0 /\ z \in Blocks => Length(d, n, z) = 1 + Length(d, n - 1, d[z].next))
      <4> HIDE DEF T, P
      <4> QED BY <2>1, WalkFacts
    <3>4. Length(d, n, z) < n
      BY <2>1, <2>2, <3>2, <3>3
    <3>5. PICK s : s = Walk(d)[n][z]
      OBVIOUS
    <3>6. \A j \in DOMAIN s : d[s[j]].next \notin Blocks <=> j = Length(d, n, z)
      BY <1>2, <3>4, <3>5
    <3> HIDE DEF T, P
    <3>7. s \in Seq(Blocks) /\ Len(s) = Length(d, n, z)
      BY <2>1, <3>5, WalkIsSeq DEF Length
    <3>8. PICK t : t = Walk(d)[m][x]
      OBVIOUS
    <3>9. t = <<x>> \o s
      <4>1. Walk(d)[m][x] = <<x>> \o Walk(d)[m - 1][d[x].next]
        BY <2>1, <2>2, WalkStep
      <4> QED BY <2>1, <3>1, <3>5, <3>8, <4>1
    <3>10. /\ t \in Seq(Blocks) /\ Len(t) = 1 + Len(s)
           /\ \A j \in 1 .. 1 + Len(s) : t[j] = IF j <= 1 THEN x ELSE s[j - 1]
      <4>1. <<x>> \in Seq(Blocks) /\ Len(<<x>>) = 1 /\ <<x>>[1] = x
        BY <2>2
      <4> QED BY <3>7, <3>9, <4>1, ConcatProperties
    <3>11. DOMAIN t = 1 .. 1 + Len(s) /\ DOMAIN s = 1 .. Len(s) /\ Len(s) \in Nat /\ i \in DOMAIN t
      BY <2>2, <3>7, <3>8, <3>10, LenProperties
    <3>12. CASE i = 1
      <4>1. t[i] = x
        BY <3>10, <3>11, <3>12
      <4>2. n # 0
        BY <3>3, <3>4
      <4>3. z \in Blocks => Length(d, n, z) # 0
        <5> SUFFICES ASSUME z \in Blocks PROVE Length(d, n, z) # 0
          OBVIOUS
        <5>1. PICK p \in 0 .. NBlocks : p = n - 1
          BY <2>1, <4>2, Sizes
        <5>2. d[z].next \in Ids
          BY Sizes
        <5>3. Length(d, p, d[z].next) \in Nat
          BY <5>2, WalkFacts
        <5> QED BY <3>3, <4>2, <5>1, <5>3
      <4>4. z \notin Blocks <=> Length(d, n, z) = 0
        BY <3>3, <4>3
      <4> QED BY <3>1, <3>2, <3>3, <3>8, <3>12, <4>1, <4>4
    <3>13. CASE i # 1
      <4>1. PICK j \in DOMAIN s : j = i - 1 /\ t[i] = s[j]
        BY <3>10, <3>11, <3>13
      <4>2. d[s[j]].next \notin Blocks <=> j = Length(d, n, z)
        BY <3>6
      <4>3. j = Length(d, n, z) <=> i = Length(d, m, x)
        BY <3>2, <3>3, <3>11, <4>1
      <4> QED BY <3>8, <4>1, <4>2, <4>3
    <3> QED BY <3>12, <3>13
  <2>3. \A x \in Ids : P(m, x)
    <3>1. ASSUME NEW x \in Ids PROVE P(m, x)
      <4>1. CASE x \in Blocks
        BY <2>2, <4>1
      <4>2. CASE x \notin Blocks
        BY <1>0, <4>2
      <4> QED BY <4>1, <4>2
    <3> QED BY <3>1
  <2> QED BY <2>1, <2>3
<1> HIDE DEF T
<1>3. 0 .. NBlocks \subseteq T
  BY <1>1, <1>2, StepInduct
<1> QED BY <1>3 DEF T

\* What is left of a size that fits n blocks when all but the last are full.
LEMMA Remainder ==
  ASSUME NEW size \in Nat, NEW n \in Nat \ {0}, Fits(size, n)
  PROVE  /\ size = (n - 1) * Capacity + (size % Capacity)
         /\ size % Capacity \in 1 .. Capacity - 1
         /\ n * Capacity < size + Capacity
<1> DEFINE q == size \div Capacity
           r == size % Capacity
<1>1. Capacity \in Nat \ {0}
  BY SizesAssumption
<1>2. size = Capacity * q + r /\ r \in 0 .. Capacity - 1 /\ q \in Int
  BY <1>1
<1> HIDE DEF q, r
<1>3. PICK p \in Nat : p = n - 1
  OBVIOUS
<1>4. PICK a \in Nat : a = Capacity * p /\ a = p * Capacity
  BY <1>1
<1>5. n * Capacity = a + Capacity
  <2>1. n = p + 1
    BY <1>3
  <2> QED BY <1>1, <1>4, <2>1
<1>6. a < size /\ size < a + Capacity
  BY <1>3, <1>4, <1>5 DEF Fits
<1>7. PICK s \in 1 .. Capacity - 1 : size = a + s
  <2>1. size - a \in 1 .. Capacity - 1
    BY <1>1, <1>6
  <2> QED BY <2>1, <1>6
<1>8. r = s
  <2>1. PICK c \in Nat \ {0} : c = Capacity
    BY <1>1
  <2>2. PICK t \in 0 .. c - 1 : t = s
    BY <1>7, <2>1
  <2>3. c * q + r = c * p + t /\ r \in 0 .. c - 1 /\ p \in Int
    BY <1>2, <1>4, <1>7, <2>1, <2>2
  <2>4. r = t
    BY <1>2, <2>3, OneRemainder
  <2> QED BY <2>2, <2>4
<1> QED BY <1>1, <1>3, <1>4, <1>5, <1>7, <1>8 DEF r

-----------------------------------------------------------------------------
\* The blocks that myreadBlock goes through.  v is what its loop makes of w, n
\* links far.
Reading(e, n, w, v) ==
  v = [i \in 0 .. n |-> IF i = 0 THEN e.first
                        ELSE IF w[i - 1] = 0 THEN 0 ELSE disk[w[i - 1]].next]

\* One block of a walk that follows the rule.
LEMMA ReadingAt ==
  ASSUME NEW e, NEW n, NEW w, Reading(e, n, w, w), NEW i \in 0 .. n
  PROVE  w[i] = IF i = 0 THEN e.first ELSE IF w[i - 1] = 0 THEN 0 ELSE disk[w[i - 1]].next
<1>1. \A v : Reading(e, n, w, v) =>
        v[i] = IF i = 0 THEN e.first ELSE IF w[i - 1] = 0 THEN 0 ELSE disk[w[i - 1]].next
  BY DEF Reading
<1> QED BY <1>1

\* The recursion in BlockReached has a solution.
LEMMA ReadingExists ==
  ASSUME NEW e, NEW m \in Nat
  PROVE  \E w : Reading(e, m, w, w)
<1> DEFINE T == {n \in Nat : \E w : Reading(e, n, w, w)}
<1>1. 0 \in T
  <2> DEFINE w == [i \in 0 .. 0 |-> e.first]
  <2>1. Reading(e, 0, w, w)
    BY DEF Reading
  <2> QED BY <2>1
<1>2. ASSUME NEW n \in Nat, n \in T PROVE n + 1 \in T
  <2>1. PICK w : Reading(e, n, w, w)
    BY <1>2
  <2> DEFINE next(x) == IF x = 0 THEN 0 ELSE disk[x].next
             v == [i \in 0 .. n + 1 |-> IF i <= n THEN w[i] ELSE next(w[n])]
             g == [i \in 0 .. n + 1 |-> IF i = 0 THEN e.first
                                       ELSE IF v[i - 1] = 0 THEN 0 ELSE disk[v[i - 1]].next]
  <2>2. ASSUME NEW i \in 0 .. n + 1 PROVE v[i] = g[i]
    <3>0. g[i] = IF i = 0 THEN e.first ELSE next(v[i - 1])
      OBVIOUS
    <3>1. CASE i <= n
      <4>1. v[i] = w[i] /\ (i # 0 => v[i - 1] = w[i - 1]) /\ i \in 0 .. n
        BY <3>1
      <4> HIDE DEF T, v, g
      <4>2. w[i] = IF i = 0 THEN e.first ELSE next(w[i - 1])
        BY <2>1, <4>1, ReadingAt
      <4> QED BY <3>0, <4>1, <4>2
    <3>2. CASE i = n + 1
      <4>1. v[i - 1] = w[n] /\ v[i] = next(w[n]) /\ i # 0
        BY <3>2
      <4> HIDE DEF T, v, g, next
      <4> QED BY <3>0, <4>1
    <3> QED BY <3>1, <3>2
  <2>3. v = [i \in 0 .. n + 1 |-> v[i]] /\ g = [i \in 0 .. n + 1 |-> g[i]]
    OBVIOUS
  <2>4. v = g
    <3> HIDE DEF v, g, T
    <3> QED BY <2>2, <2>3
  <2>5. Reading(e, n + 1, v, v)
    BY <2>4 DEF Reading
  <2> QED BY <2>5
<1> HIDE DEF T
<1>3. m \in T
  BY <1>1, <1>2, Induct
<1> QED BY <1>3 DEF T

\* myreadBlock accepts a block number when the chain has more blocks than that.
LEMMA InRangeIs ==
  ASSUME TypeOK, \A b \in Blocks : disk[b].next \in Ids0,
         NEW e, e.first \in Blocks, Stops(e.first), NEW m \in Nat
  PROVE  InRange(e, m) <=> m < Size(disk, e.first)
<1> DEFINE w == CHOOSE v : Reading(e, m, v, v)
<1>1. BlockReached(e, m) = w[m]
  BY DEF BlockReached, Reading
<1>2. Reading(e, m, w, w)
  BY ReadingExists
<1> HIDE DEF w
<1>3. disk \in Images /\ e.first \in Ids
  BY Sizes DEF TypeOK, Images
<1>4. PICK size : size = Size(disk, e.first)
  OBVIOUS
<1>5. size \in Nat
  BY <1>3, <1>4, ChainBasics
<1> DEFINE Left(n) == /\ w[n] \in Ids0 /\ Stops(w[n])
                     /\ Size(disk, w[n]) = IF n < size THEN size - n ELSE 0
           T == {n \in Nat : n <= m => Left(n)}
<1>6. 0 \in T
  <2>1. w[0] = e.first
    BY <1>2, ReadingAt
  <2> QED BY <1>4, <1>5, <2>1 DEF Ids0
<1>7. ASSUME NEW n \in Nat, n \in T PROVE n + 1 \in T
  <2> SUFFICES ASSUME n + 1 <= m PROVE Left(n + 1)
    OBVIOUS
  <2>1. Left(n)
    BY <1>7
  <2>2. w[n + 1] = IF w[n] = 0 THEN 0 ELSE disk[w[n]].next
    <3>1. PICK i \in 0 .. m : i = n + 1 /\ i # 0 /\ i - 1 = n
      OBVIOUS
    <3>2. w[i] = IF i = 0 THEN e.first ELSE IF w[i - 1] = 0 THEN 0 ELSE disk[w[i - 1]].next
      BY <1>2, <3>1, ReadingAt
    <3> QED BY <3>1, <3>2
  <2>3. CASE w[n] = 0
    <3>1. Size(disk, w[n]) = 0
      BY <1>3, <2>3, NoChain, SetFacts
    <3>2. ~(n + 1 < size)
      BY <1>5, <2>1, <3>1
    <3>3. Left(n) /\ w[n + 1] = w[n]
      BY <2>1, <2>2, <2>3
    <3> QED BY <3>1, <3>2, <3>3
  <2>4. CASE w[n] # 0
    <3>1. PICK x \in Blocks : x = w[n]
      BY <2>1, <2>4 DEF Ids0
    <3>2. w[n + 1] = disk[x].next /\ w[n + 1] \in Ids0
      BY <2>2, <2>4, <3>1
    <3>3. Stops(disk[x].next) /\ Size(disk, x) = 1 + Size(disk, disk[x].next)
      BY <1>3, <2>1, <3>1, Behind DEF Stops
    <3>4. Size(disk, disk[x].next) \in Nat
      <4>1. disk[x].next \in Ids
        BY <1>3, Sizes
      <4> QED BY <1>3, <4>1, ChainBasics
    <3>5. Size(disk, disk[x].next) = IF n + 1 < size THEN size - (n + 1) ELSE 0
      BY <1>5, <2>1, <3>1, <3>3, <3>4
    <3> QED BY <3>2, <3>3, <3>5
  <2> QED BY <2>3, <2>4
<1>8. Left(m)
  <2> HIDE DEF Left
  <2>1. m \in T
    <3> HIDE DEF T
    <3> QED BY <1>6, <1>7, Induct
  <2> QED BY <2>1
<1>9. w[m] # 0 <=> Size(disk, w[m]) # 0
  <2>1. CASE w[m] = 0
    BY <1>3, <2>1, NoChain, SetFacts
  <2>2. CASE w[m] # 0
    <3>1. PICK x \in Blocks : x = w[m]
      BY <1>8, <2>2 DEF Ids0
    <3>2. Size(disk, x) = 1 + Size(disk, disk[x].next) /\ disk[x].next \in Ids
      BY <1>3, <1>8, <3>1, Behind, Sizes DEF Stops
    <3>3. Size(disk, disk[x].next) \in Nat
      BY <1>3, <3>2, ChainBasics
    <3> QED BY <2>2, <3>1, <3>2, <3>3
  <2> QED BY <2>1, <2>2
<1> QED BY <1>1, <1>4, <1>5, <1>8, <1>9 DEF InRange

-----------------------------------------------------------------------------
\* What mystat, mycopyFrom and myreadBlock say of a file.
FileStat(e) ==
  LET pieces == CopyFrom(e)
      bytes == BytesIn(pieces)
  IN  /\ bytes = Stat(e).size
      /\ bytes <= BlocksUsed(e) * Capacity
      /\ BlocksUsed(e) * Capacity < bytes + Capacity
      /\ \A m \in 0 .. NBlocks : InRange(e, m) <=> m * Capacity < e.size

\* What mystat says of a directory.
DirStat(e) == Stat(e).count = Cardinality({name \in Names : Found(disk[e.first].slots, name)})

\* m whole blocks fit before the end of n - 1 whole blocks and a rest just when
\* m < n.
LEMMA WholeBefore ==
  ASSUME NEW c \in Nat \ {0}, NEW m \in Nat, NEW n \in Nat \ {0}, NEW r \in 1 .. c - 1
  PROVE  m < n <=> m * c < (n - 1) * c + r
<1>1. PICK p \in Nat : p + 1 = n /\ p = n - 1
  OBVIOUS
<1>2. m <= p => m * c <= p * c
  <2> SUFFICES ASSUME m <= p PROVE m * c <= p * c
    OBVIOUS
  <2>1. PICK k \in Nat : p = m + k
    <3>1. p - m \in Nat /\ p = m + (p - m)
      OBVIOUS
    <3> QED BY <3>1
  <2>2. p * c = m * c + k * c /\ k * c \in Nat /\ m * c \in Nat
    BY <2>1
  <2> QED BY <2>2
<1>3. m >= n => m * c >= p * c + c
  <2> SUFFICES ASSUME m >= n PROVE m * c >= p * c + c
    OBVIOUS
  <2>1. PICK k \in Nat : m = p + 1 + k
    <3>1. m - (p + 1) \in Nat /\ m = p + 1 + (m - (p + 1))
      BY <1>1
    <3> QED BY <3>1
  <2>2. m * c = p * c + c + k * c /\ k * c \in Nat /\ p * c \in Nat
    BY <2>1
  <2> QED BY <2>2
<1>4. m * c \in Nat /\ p * c \in Nat
  OBVIOUS
<1> QED BY <1>1, <1>2, <1>3, <1>4

\* mycopyFrom takes a whole block off every link and what is left of the size off
\* the last: together, the size.
LEMMA FileIsRight ==
  ASSUME TypeOK, \A b \in Blocks : disk[b].next \in Ids0,
         NEW e, e.type = 1, e.size \in Nat, e.first \in Blocks, Stops(e.first),
         Fits(e.size, Size(disk, e.first))
  PROVE  FileStat(e)
<1>1. disk \in Images /\ NBlocks \in 0 .. NBlocks /\ e.first \in Ids
  <2>1. disk \in Images
    BY DEF TypeOK, Images
  <2>2. NBlocks \in 0 .. NBlocks
    BY Sizes
  <2>3. e.first \in Ids
    BY Sizes
  <2> QED BY <2>1, <2>2, <2>3
<1>2. PICK x \in Ids : x = e.first
  BY <1>1
<1>3. PICK chain : chain = Chain(x)
  OBVIOUS
<1>4. chain = Walk(disk)[NBlocks][x]
  BY <1>3, ChainIs DEF ChainOn
<1>5. chain \in Seq(Blocks)
  BY <1>1, <1>4, WalkIsSeq
<1>6. PICK n : n = Size(disk, x)
  OBVIOUS
<1>7. n = Length(disk, NBlocks, x) /\ n < NBlocks /\ n = Len(chain)
  BY <1>2, <1>4, <1>6 DEF Size, Stops, Ended, Length
<1>8. DOMAIN chain = 1 .. n /\ n \in Nat
  BY <1>5, <1>7, LenProperties
<1>9. n # 0
  <2>1. Size(disk, x) = 1 + Size(disk, disk[x].next)
    BY <1>1, <1>2, Behind DEF Stops
  <2>2. Size(disk, disk[x].next) \in Nat
    <3>1. disk[x].next \in Ids
      BY <1>1, <1>2, Sizes
    <3> QED BY <1>1, <3>1, ChainBasics
  <2> QED BY <1>6, <2>1, <2>2
<1>10. ASSUME NEW i \in 1 .. n PROVE chain[i] \in Blocks /\ (disk[chain[i]].next = 0 <=> i = n)
  <2>1. chain[i] \in Blocks
    BY <1>5, <1>8
  <2>2. disk[chain[i]].next \notin Blocks <=> i = n
    <3>1. \A j \in DOMAIN Walk(disk)[NBlocks][x] :
            disk[Walk(disk)[NBlocks][x][j]].next \notin Blocks <=> j = Length(disk, NBlocks, x)
      <4>1. PICK m \in 0 .. NBlocks : m = NBlocks
        BY <1>1
      <4>2. Length(disk, m, x) < m
        BY <1>7, <4>1
      <4>3. \A j \in DOMAIN Walk(disk)[m][x] :
              disk[Walk(disk)[m][x][j]].next \notin Blocks <=> j = Length(disk, m, x)
        BY <1>1, <4>2, LastLink
      <4> QED BY <4>1, <4>3
    <3> QED BY <1>4, <1>7, <1>8, <3>1
  <2>3. disk[chain[i]].next \in Blocks \cup {0} /\ 0 \notin Blocks
    BY <2>1, SetFacts DEF Ids0
  <2> QED BY <2>1, <2>2, <2>3
<1>11. Capacity \in Nat \ {0}
  BY SizesAssumption
<1>12. PICK r : r = e.size % Capacity
  OBVIOUS
<1>13. /\ e.size = (n - 1) * Capacity + r /\ r \in 1 .. Capacity - 1
       /\ n * Capacity < e.size + Capacity /\ e.size < n * Capacity
  <2>1. Fits(e.size, n) /\ n \in Nat \ {0}
    BY <1>2, <1>6, <1>8, <1>9
  <2>2. /\ e.size = (n - 1) * Capacity + (e.size % Capacity)
        /\ e.size % Capacity \in 1 .. Capacity - 1 /\ n * Capacity < e.size + Capacity
    BY <2>1, Remainder
  <2> QED BY <1>12, <2>1, <2>2 DEF Fits
<1>14. r # 0 /\ r \in Nat
  BY <1>11, <1>13
<1>15. PICK pieces : pieces = CopyFrom(e)
  OBVIOUS
<1>16. pieces = [i \in 1 .. n |-> [chunk |-> disk[chain[i]].chunk, bytes |-> BytesCopied(chain[i], e.size)]]
  BY <1>2, <1>3, <1>8, <1>15 DEF CopyFrom
<1>17. \A i \in 1 .. n : pieces[i].bytes = IF i = n THEN r ELSE Capacity
  BY <1>10, <1>12, <1>14, <1>16 DEF BytesCopied
<1>18. BytesIn(pieces) = e.size
  <2>1. n \in Nat \ {0} /\ DOMAIN pieces = 1 .. n /\ Capacity \in Nat
    BY <1>8, <1>9, <1>11, <1>16
  <2>2. PICK c \in Nat : c = Capacity
    BY <2>1
  <2>3. Pieced(pieces, n, c, r)
    BY <1>17, <2>1, <2>2 DEF Pieced
  <2>4. BytesIn(pieces) = (n - 1) * c + r
    BY <1>14, <2>1, <2>3, SumOf
  <2> QED BY <1>13, <2>2, <2>4
<1>19. Stat(e) = [size |-> e.size, count |-> n]
  BY <1>2, <1>3, <1>7 DEF Stat
<1>20. BlocksUsed(e) = n /\ Stat(e).size = e.size
  BY <1>19 DEF BlocksUsed
<1>21. ASSUME NEW m \in 0 .. NBlocks PROVE InRange(e, m) <=> m * Capacity < e.size
  <2>1. m \in Nat /\ (InRange(e, m) <=> m < n)
    BY <1>2, <1>6, Sizes, InRangeIs
  <2>2. PICK c \in Nat \ {0} : c = Capacity
    BY <1>11
  <2>3. e.size = (n - 1) * c + r /\ r \in 1 .. c - 1
    BY <1>13, <2>2
  <2>4. m < n <=> m * c < (n - 1) * c + r
    BY <1>8, <1>9, <2>1, <2>2, <2>3, WholeBefore
  <2> QED BY <2>1, <2>2, <2>3, <2>4
<1>22. e.size <= n * Capacity
  <2>1. n * Capacity \in Nat
    BY <1>8, <1>11
  <2> QED BY <1>13, <2>1
<1> QED BY <1>13, <1>15, <1>18, <1>20, <1>21, <1>22 DEF FileStat

\* The slots in use of a directory have as many names.
LEMMA DirIsRight ==
  ASSUME TypeOK, DirTypes, NewName, WholeNames, NEW e, e.type = 2, Directory(e.first)
  PROVE  DirStat(e)
<1>1. PICK b \in Blocks : b = e.first /\ Directory(b)
  BY DEF Directory
<1>2. PICK slots : slots = disk[b].slots
  OBVIOUS
<1> DEFINE S == Slots \ UnusedSlots(slots)
           N == {name \in Names : Found(slots, name)}
           f == [s \in S |-> slots[s].name]
<1>3. \A s \in Slots : Proper(slots[s])
  BY <1>1, <1>2 DEF DirTypes
<1>4. \A s \in S : s \in Slots /\ slots[s].type \in {1, 2} /\ slots[s].name \in Names
  BY <1>3 DEF UnusedSlots, Proper
<1>5. \A s, t \in S : slots[s].name = slots[t].name => s = t
  <2>1. \A s, t \in Slots :
          s # t /\ {slots[s].type, slots[t].type} \subseteq {1, 2} => slots[s].name # slots[t].name
    BY <1>1, <1>2 DEF NewName
  <2> QED BY <1>4, <2>1
<1>6. \A name \in N : \E s \in S : slots[s].name = name
  BY DEF Found, Matches, UnusedSlots
<1>7. \A s \in S : slots[s].name \in N
  <2>1. ASSUME NEW s \in S PROVE slots[s].name \in N
    <3>1. s \in Matches(slots, slots[s].name)
      BY <1>4 DEF Matches
    <3> QED BY <1>4, <3>1 DEF Found
  <2> QED BY <2>1
<1> HIDE DEF S, N
<1>8. f \in Bijection(S, N)
  <2>1. f \in [S -> N]
    BY <1>7
  <2>2. IsInjective(f)
    BY <1>5 DEF IsInjective
  <2>3. \A n \in N : \E s \in S : f[s] = n
    BY <1>6
  <2> QED BY <2>1, <2>2, <2>3 DEF Bijection, Injection, Surjection
<1>9. ExistsBijection(S, N)
  BY <1>8 DEF ExistsBijection
<1>10. IsFiniteSet(S)
  <2>1. IsFiniteSet(Slots)
    BY SizesAssumption, FS_Interval DEF Slots
  <2>2. S \subseteq Slots
    BY DEF S
  <2> QED BY <2>1, <2>2, FS_Subset
<1>11. Cardinality(N) = Cardinality(S)
  BY <1>9, <1>10, FS_Bijection
<1>12. Stat(e).count = Cardinality(S)
  BY <1>1, <1>2 DEF Stat, S
<1> QED BY <1>1, <1>2, <1>11, <1>12 DEF DirStat, N

\* What mystat, mycopyFrom and myreadBlock say follows from the invariants.
LEMMA SizesRight == IInv /\ TInv /\ SInv /\ WholeNames => StatIsRight
<1> SUFFICES ASSUME IInv, TInv, SInv, WholeNames, formatted PROVE StatIsRight
  BY DEF StatIsRight
<1>1. TypeOK /\ Pointers /\ NewName /\ DirTypes /\ FileSizes
  BY DEF IInv, TInv, SInv
<1>2. ASSUME NEW ds \in EntriesOfType(1) PROVE FileStat(At(ds))
  <2>1. PICK d \in Blocks, s \in Slots : ds = <<d, s>>
    BY EntriesAre
  <2>2. InUse(1, d, s) /\ At(ds) = disk[d].slots[s]
    BY <1>2, <2>1, EntriesAre
  <2>3. PICK e \in Entries : e = disk[d].slots[s]
    BY <1>1, TypeFacts
  <2>4. Visible(d, s) /\ e.type = 1
    BY <2>2, <2>3, VisibleIs
  <2>5. e.first \in Blocks /\ Stops(e.first)
    BY <2>2, <2>3, FilesInUse DEF First
  <2>6. Fits(e.size, Size(disk, e.first))
    BY <1>1, <2>3, <2>4 DEF FileSizes, First
  <2>7. e.size \in Nat
    BY DEF Entries
  <2> QED BY <1>1, <2>2, <2>3, <2>4, <2>5, <2>6, <2>7, FileIsRight DEF Pointers
<1>3. ASSUME NEW ds \in EntriesOfType(2) PROVE DirStat(At(ds))
  <2>1. PICK d \in Blocks, s \in Slots : ds = <<d, s>>
    BY EntriesAre
  <2>2. InUse(2, d, s) /\ At(ds) = disk[d].slots[s]
    BY <1>3, <2>1, EntriesAre
  <2>3. PICK e : e = disk[d].slots[s]
    OBVIOUS
  <2>4. e.type = 2
    BY <2>2, <2>3, VisibleIs
  <2>5. Directory(e.first)
    BY <2>2, <2>3, DirsInUse DEF First, Directory
  <2> QED BY <1>1, <2>2, <2>3, <2>4, <2>5, DirIsRight
<1> QED BY <1>2, <1>3 DEF StatIsRight, FileStat, DirStat, BytesIn

\* mystat, mycopyFrom and myreadBlock agree on every file, whatever its length and
\* that of the image: the size is the number of bytes copied out, and fills the
\* blocks that are said to be used; myreadBlock, which only follows the links,
\* accepts a block number just when the size has bytes there; a directory has as
\* many entries as names that a lookup finds.
THEOREM SizesAgree == NoFullBlocks /\ WholeNames /\ Spec => []StatIsRight
<1> SUFFICES ASSUME NoFullBlocks, WholeNames PROVE Spec => []StatIsRight
  BY DEF NoFullBlocks, WholeNames
<1>1. Init => TInv /\ SInv
  BY DEF Init, TInv, SInv
<1>2. Spec => []IInv
  BY Invariance
<1>3. WholeNames => WholeNames'
  BY DEF WholeNames
<1>4. IInv /\ IInv' /\ TInv /\ [Next]_vars => TInv'
  BY TInductive
<1>5. IInv /\ IInv' /\ TInv /\ TInv' /\ SInv /\ [Next]_vars => SInv'
  BY SInductive
<1>6. IInv /\ TInv /\ SInv => StatIsRight
  BY SizesRight
<1> QED BY <1>1, <1>2, <1>4, <1>5, <1>6, PTL DEF Spec, Safety
================================================================================
