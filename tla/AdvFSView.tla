----------------------------- MODULE AdvFSView -----------------------------
(***************************************************************************)
(* What the commands of os_day9/myfs_adv.c that write nothing read from    *)
(* the image (mycopyfrom, mystat), and what must be true of it.            *)
(***************************************************************************)
EXTENDS AdvFS

\* The bytes of fsize above the low one are not stored; a reader finds there
\* what its stack holds.
CONSTANT HighBytes

ASSUME HighBytesAssumption == HighBytes \subseteq Nat

SizeRead(e, high) == e.size + ByteRange * high

\* count_blocks
CountBlocks(e) == Len(Chain(e.first))

\* count_entries
CountEntries(d) ==
  FoldLeft(LAMBDA sum, b : sum + Cardinality(Listed(disk[b].slots)), 0, Chain(d))

\* mystat: "Size" and "Blocks Used" of a file, "Entries" of a directory.
Stat(e, high) ==
  IF e.type = 1 THEN [size |-> SizeRead(e, high), count |-> CountBlocks(e)]
  ELSE [size |-> 0, count |-> CountEntries(e.first)]

\* read_file_data: from each block as much as is left of the size, until
\* nothing is left or the chain ends.
ReadFileData(first, size) ==
  LET chain == Chain(first)
      left(i) == size - (i - 1) * Capacity
  IN  [i \in {j \in DOMAIN chain : left(j) > 0} |->
         [chunk |-> disk[chain[i]].chunk, bytes |-> Min({left(i), Capacity})]]

\* mycopyfrom
CopyFrom(e, high) == ReadFileData(e.first, SizeRead(e, high))
-----------------------------------------------------------------------------
FreeSet == ToSet(Chain(ffree))

InUse == Reach({Root})

\* The directories, by their first blocks.
Dirs ==
  {Root} \cup {At(bs).first : bs \in {x \in InUse \X Slots :
                                        At(x).type = 2 /\ x[2] \in LiveSlots(x[1])}}

DirBlocks == UNION {ToSet(Chain(d)) : d \in Dirs}

\* The entries in use, but for the one being removed and those of killed removals.
LiveEntries == {bs \in DirBlocks \X Slots : bs[2] \in LiveSlots(bs[1])}

FileEntries == {bs \in LiveEntries : At(bs).type = 1}

\* The pointers of the image, each with the block it leads to: the next of a
\* block (slot -1) and the first of an entry.
Pointers ==
  {<<b, End, disk[b].next>> : b \in {x \in InUse : disk[x].next # End}}
    \cup UNION {{<<b, s, At(<<b, s>>).first>> : s \in LiveSlots(b)} : b \in DirBlocks}
-----------------------------------------------------------------------------
\* Exactly one pointer leads to every block in use but the root: files and
\* directories share nothing and no chain runs in a circle, the entries that
\* a lookup does not reach included, so that what one removal frees is
\* nobody else's.
OneOwner ==
  formatted =>
    LET pointers == Pointers
        targets == {p[3] : p \in pointers}
    IN  targets \subseteq Blocks \ {Root} /\ Cardinality(targets) = Cardinality(pointers)

\* The free list ends, and no block on it is in use, being removed or taken by
\* the command in progress: allocate_zero_block never zeroes a live block.
FreeListSound ==
  formatted =>
    LET chain == Chain(ffree)
        used == InUse
    IN  /\ chain # <<>> => disk[Last(chain)].next = End /\ IsInjective(chain)
        /\ ToSet(chain) \cap (used \cup Removing \cup Held) = {}
        /\ used \cap Held = {}

\* Between commands every block is in use, free, or among those the code gives
\* up: the block of a directory that did not fit (line 1312), what was in a
\* directory that was removed (line 1534), and what a killed command had in
\* its hands.  None of these comes back.
NothingLost ==
  (formatted /\ run = Idle) =>
    /\ Blocks = InUse \cup FreeSet \cup past.lost
    /\ past.lost \cap (InUse \cup FreeSet) = {}

\* Whatever the high bytes of the size read as, mycopyfrom writes pieces of one
\* text in their order, and zeros after them at most.  A copy that came to its
\* end fills the blocks mystat counts, all but the last to the brim; if its
\* length fits in a byte it comes out whole, and otherwise a part of it does.
FilesReadBack ==
  (formatted /\ run = Idle) =>
    \A f \in FileEntries :
      LET e == At(f)
          chain == Chain(e.first)
          chunk(i) == disk[chain[i]].chunk
          length == FoldLeft(LAMBDA sum, b : sum + disk[b].chunk.n, 0, chain)
      IN  /\ \E c \in Contents : \A high \in HighBytes :
               \A i \in DOMAIN CopyFrom(e, high) :
                 CopyFrom(e, high)[i].chunk \in
                   {[c |-> c, k |-> i - 1, n |-> chunk(i).n], NoChunk}
          /\ \A i \in 1 .. Len(chain) - 1 : chunk(i).n = Capacity
          /\ e.first \notin past.cut =>
               /\ Len(chain) > 1 => chunk(Len(chain)).n > 0
               /\ length % ByteRange = Stat(e, 0).size
               /\ \A i \in DOMAIN CopyFrom(e, 0) : CopyFrom(e, 0)[i].bytes <= chunk(i).n
               /\ length < ByteRange => DOMAIN CopyFrom(e, 0) = {i \in DOMAIN chain : chunk(i).n > 0}

\* Between commands, in a directory in which no entry before another has ever been cleared,
\* find_entry finds every entry by its name and mystat counts them all, so that
\* no name is there twice.  Once there was a hole, both stop at it, the check
\* for an existing entry (line 1291) included.
AllFoundUnlessHoled ==
  (formatted /\ run = Idle) =>
    \A d \in Dirs :
      LET blocks == ToSet(Chain(d))
          used == {bs \in blocks \X Slots : At(bs).type # 0}
      IN  blocks \cap past.holed = {} =>
            /\ \A bs \in used : FindEntry(d, At(bs).name) = bs
            /\ Stat(Entry(2, NoName, d, 0), 0).count = Cardinality(used)

\* The step is about the entry f: the command names it, or begins the removal of
\* it or of a directory above it.
Concerned(f) ==
  \/ At(f).first \in {run.first, run'.first}
  \/ /\ run = Idle /\ run'.use = "chain"
     /\ f = Victim' \/ f[1] \in Reach({At(Victim').first})

\* A command leaves every file and directory but the one it names, and what it
\* removes with it, as it is: the entry, the blocks of a file and what is in them,
\* whether a lookup finds it or not; and a directory keeps its blocks, so that
\* nothing in it drops out of the tree.
OthersUntouched ==
  [][formatted /\ formatted' =>
       \A f \in DirBlocks \X Slots :
         /\ disk[f[1]].next \in {End, disk'[f[1]].next}
         /\ \/ f[2] \notin LiveSlots(f[1])
            \/ Concerned(f)
            \/ /\ At(f)' = At(f) /\ f[2] \in LiveSlots(f[1])'
               /\ At(f).type = 1 =>
                    \A b \in ToSet(Chain(At(f).first)) : disk'[b] = disk[b]]_<<disk, Victim, past.wrecks>>
=============================================================================
