------------------------------ MODULE MyFSView ------------------------------
(***************************************************************************)
(* What the commands of os_day9/sample.c that write nothing see of the     *)
(* image (mycopyFrom, myreadBlock, mystat), and what must be true of it.   *)
(***************************************************************************)
EXTENDS MyFS

Ends(chain) == Len(chain) < NBlocks

\* The bytes mycopyFrom takes from block b of a file of this size: all of it,
\* except in the last block of the chain.
BytesCopied(b, size) ==
  IF disk[b].next # 0 \/ (size % Capacity = 0 /\ size > 0)
  THEN Capacity
  ELSE size % Capacity

\* mycopyFrom: what it writes to the host file, piece by piece.
CopyFrom(e) ==
  LET chain == Chain(e.first) IN
  [i \in DOMAIN chain |-> [chunk |-> disk[chain[i]].chunk,
                           bytes |-> BytesCopied(chain[i], e.size)]]

\* mystat: the size and "Blocks Used" of a file, the "Entries" of a directory.
Stat(e) ==
  IF e.type = 1
  THEN [size |-> e.size, count |-> Len(Chain(e.first))]
  ELSE [size |-> 0,
        count |-> Cardinality(Slots \ UnusedSlots(disk[e.first].slots))]

BlocksUsed(e) == Stat(e).count

\* myreadBlock: the block reached after n links from the first, 0 past the end.
BlockReached(e, n) ==
  LET walk[i \in 0 .. n] ==
        IF i = 0 THEN e.first
        ELSE IF walk[i - 1] = 0 THEN 0
        ELSE disk[walk[i - 1]].next
  IN  walk[n]

\* It returns 0 for this block number, and not -1 ("Block number out of range").
\* What it has read is not seen by anybody: main writes as many bytes of it to
\* the terminal as the result says, which is none (line 1174).
InRange(e, n) == BlockReached(e, n) # 0
-----------------------------------------------------------------------------
\* The entries of the directories that a file has.
DirBlocks == {b \in Blocks : tag[b] \in {"root", "dir"}}
At(ds) == disk[ds[1]].slots[ds[2]]
EntriesOfType(type) ==
  {ds \in DirBlocks \X Slots : At(ds).type = type} \ (past.wrecks \cup {Victim})

FileChains == {Chain(At(ds).first) : ds \in EntriesOfType(1)}

\* The free list, as the command in progress will leave it.
FreeList ==
  Chain(IF run.op \in {"myrm", "myrmdir"} \/ run.at = "undo"
        THEN run.ff ELSE ffree)

\* The part of a removed file not yet pushed on the free list.
Removing == IF run.op = "myrm" THEN ToSet(Chain(run.cur)) ELSE {}
-----------------------------------------------------------------------------
\* The free list, on the disk and as the command will leave it, ends, and no
\* block on it is the root, a directory, in a file or taken by the command.
FreeListSound ==
  \A list \in {Chain(ffree), FreeList} :
    /\ Ends(list)
    /\ ToSet(list) \cap
         (DirBlocks \cup {b \in Blocks : tag[b] = "held"} \cup Removing
            \cup UNION {ToSet(ch) : ch \in FileChains})
         \subseteq (IF run.at = "undo" THEN {run.first} ELSE {})

\* Two files never share a block, and every chain ends (or mycopyFrom, mystat
\* and myrm would not).
ChainsDisjoint ==
  /\ \A ch \in FileChains : Ends(ch)
  /\ \A f, g \in EntriesOfType(1) :
       f # g => ToSet(Chain(At(f).first)) \cap ToSet(Chain(At(g).first)) = {}

\* Each directory block has one entry, and only directories have such blocks.
DirectoriesOwned ==
  /\ \A f, g \in EntriesOfType(2) : f # g => At(f).first # At(g).first
  /\ {At(f).first : f \in EntriesOfType(2)} = DirBlocks \ {Root}

\* No block has two owners, also after kills between any two writes: what
\* get_free_block hands out nobody else uses, and what myrm and myrmdir free no
\* other path leads to.  Only the entry of a removal that was killed half way
\* is left on blocks that are not its own.
OneOwner == formatted => FreeListSound /\ ChainsDisjoint /\ DirectoriesOwned

\* No block disappears: between commands every block is the root, on the free
\* list, in the chain of a file, a directory, or was lost by a mycopyTo that
\* ran out of space or slots, or by a command that was killed; and a lost block
\* is none of these.
NothingLost ==
  (formatted /\ run = Idle) =>
    {b \in Blocks : tag[b] # "lost"} =
      {Root} \cup ToSet(FreeList)
        \cup (UNION {ToSet(ch) : ch \in FileChains})
        \cup {At(f).first : f \in EntriesOfType(2)}

\* What mystat, mycopyFrom and myreadBlock say of a file agrees: its size is the
\* number of bytes copied out, and fills the blocks it is said to use; and
\* myreadBlock, which follows the chain and does not look at the size, accepts
\* just the block numbers at which there are bytes of the file.  A directory has
\* as many entries as names that a lookup finds in it.
StatIsRight ==
  (formatted /\ run = Idle) =>
    /\ \A ds \in EntriesOfType(1) :
         LET e == At(ds)
             pieces == CopyFrom(e)
             bytes == FoldLeft(LAMBDA sum, p : sum + p.bytes, 0, pieces)
         IN  /\ bytes = Stat(e).size
             /\ bytes <= BlocksUsed(e) * Capacity
             /\ BlocksUsed(e) * Capacity < bytes + Capacity
             /\ \A n \in 0 .. NBlocks : InRange(e, n) <=> n * Capacity < e.size
    /\ \A ds \in EntriesOfType(2) :
         LET e == At(ds) IN
         Stat(e).count =
           Cardinality({name \in Names : Found(disk[e.first].slots, name)})

\* A name is used once in a directory (the checks at lines 249 and 596), so
\* that every file can be reached by its name.
NamesUnique ==
  formatted =>
    \A f, g \in EntriesOfType(1) \cup EntriesOfType(2) :
      (f # g /\ f[1] = g[1]) => At(f).name # At(g).name

\* myrm frees the blocks of the file and no others (line 508, "Free the file
\* blocks"): a block that it pushes on the free list is not there already.
RmFreesFileBlocks ==
  [][RmFreeBlock => tag[run.cur] = "file"]_vars

\* Every command comes to an end: no chain it follows is a cycle.
CommandsFinish == (run # Idle) ~> (run = Idle)
-----------------------------------------------------------------------------
\* The entry at the end of a path, looked up by name in every slot, and not
\* being removed; Unused when there is none.
LookupToken(e, name) ==
  IF e.type # 2 \/ ~Found(disk[e.first].slots, name) THEN Unused
  ELSE LET s == FindSlot(disk[e.first].slots, name)
       IN  IF <<e.first, s>> \in past.wrecks \cup {Victim} THEN Unused ELSE disk[e.first].slots[s]

Lookup(path) ==
  LET walk[i \in 0 .. Len(path)] ==
        IF i = 0 THEN Entry(2, NoName, Root, 0) ELSE LookupToken(walk[i - 1], path[i])
  IN  walk[Len(path)]

\* The text that the pieces of a file make up, NoContent if they make none.
TextOf(pieces) ==
  LET texts == {c \in Contents : \A i \in DOMAIN pieces : pieces[i].chunk = [c |-> c, k |-> i - 1]}
  IN  IF texts = {} THEN NoContent ELSE CHOOSE c \in texts : TRUE

Paths ==
  {<<>>} \cup {Append(path, Stored[name]) : path \in DirPaths, name \in Names}

Node(q, e) ==
  [path |-> q,
   dir |-> e.type = 2,
   text |-> IF e.type = 2 THEN NoContent ELSE TextOf(CopyFrom(e)),
   len |-> e.size]

Tree ==
  IF ~formatted THEN {}
  ELSE {Node(f[1], f[2]) : f \in {g \in {<<q, Lookup(q)>> : q \in Paths} :
                                   g[2].type \in {1, 2}}}

FT == INSTANCE FileTree WITH tree <- Tree

\* The image implements a tree of files: each command that succeeds changes
\* one path and nothing else, a failing one changes nothing, and neither does a
\* killed one, unless it is a removal that has freed a block; and a file reads
\* back as the text that was copied to it for as long as it lives.
ImplementsFileTree == FT!Spec
=============================================================================
