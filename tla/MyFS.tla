-------------------------------- MODULE MyFS --------------------------------
(***************************************************************************)
(* os_day9/sample.c: a file system in one host file ("image").  Block 0 is *)
(* the super block, block 1 the root directory; every other block is on    *)
(* the free list, in the chain of a file, or a directory.  A block holds   *)
(* 4088 bytes and the number of the next block, 0 meaning none.            *)
(*                                                                         *)
(* Each command (mymkfs, mycopyTo, myrm, ...) is a process of its own that *)
(* reads the super block once, keeps it in memory (run.ff), and writes     *)
(* block by block.  One action stands for the code up to and including the *)
(* next write to the image, so a process killed between two writes leaves  *)
(* just what the model leaves.  A command that fails before its first      *)
(* write changes nothing and is not an action.                             *)
(*                                                                         *)
(* Abstracted: bytes.  A block is read as a directory (slots) or as a      *)
(* piece of a file (chunk).  Files are text, so the bytes of a file read   *)
(* as a directory are used slots of no type and of no file's name          *)
(* (TextSlots); a block of zeros is an empty directory.  Not modelled: the *)
(* 171st entry of a directory (see Slots), paths of more than 255 bytes,   *)
(* and failing system calls.                                               *)
(***************************************************************************)
EXTENDS Naturals, Sequences, FiniteSets, SequencesExt

CONSTANTS
  NBlocks,    \* no_of_blocks given to mymkfs
  Capacity,   \* bytes of data in a block (4088)
  NSlots,     \* directory entries in a block (170)
  NavStride,  \* navigate_to_directory sees every NavStride-th slot (7)
  Names,      \* the names the user types
  NoName,     \* the name in an unused slot
  Stored,     \* what strncpy(..., 11) keeps of a name
  Contents,   \* the texts of host files
  NoContent,
  Lengths,    \* the lengths of host files
  DirPaths,   \* the directory paths the user types, as sequences of names
  Killable,   \* the commands that may be killed between two writes
  MaxKills,   \* how often one of them is, at most, after a mymkfs
  Reformat    \* whether the user runs mymkfs on an image in use

ASSUME SizesAssumption ==
  /\ NBlocks \in Nat /\ NBlocks >= 3
  /\ Capacity \in Nat \ {0}
  /\ NSlots \in Nat \ {0}
  /\ NavStride \in Nat \ {0}
  /\ Lengths \subseteq Nat

ASSUME NamesAssumption ==
  /\ NoName \notin Names
  /\ NoContent \notin Contents
  /\ Stored \in [Names -> Names]
  /\ DirPaths \subseteq Seq(Names)

Blocks == 1 .. NBlocks - 1
Root == 1               \* sb.first_root_block
Ids == 0 .. NBlocks     \* a next_block; mymkfs writes NBlocks for a moment

\* The whole slots of a directory.  The loops over it go on to a 171st entry, in
\* bytes 4080 to 4103: the last 8 bytes of data, next_block, and what lies behind
\* the local.  Its type is unused, so that the 171st file is written there, over
\* next_block and beyond the local, which is undefined.  Only after that does the
\* code find the directory full; here it is full with the last whole slot.
Slots == 0 .. NSlots - 1

Commands == {"mymkfs", "mycopyTo", "myrm", "mymkdir", "myrmdir"}

ASSUME UseAssumption ==
  Killable \subseteq Commands /\ MaxKills \in Nat /\ Reformat \in BOOLEAN
-----------------------------------------------------------------------------
\* file_desc: type 0 unused, 1 file, 2 directory; 3 stands for the other
\* bytes one finds by reading text as a directory.
Entries == [type : 0 .. 3, name : Names \cup {NoName}, first : Ids, size : Nat]

Entry(type, name, first, size) ==
  [type |-> type, name |-> name, first |-> first, size |-> size]

Unused == Entry(0, NoName, 0, 0)
EmptyDir == [s \in Slots |-> Unused]
TextSlots == [s \in Slots |-> Entry(3, NoName, 0, 0)]

\* Which piece of which text is in a block of a file.
Chunks == [c : Contents \cup {NoContent}, k : Nat]
NoChunk == [c |-> NoContent, k |-> 0]

\* data_block
DataBlocks == [next : Ids, slots : [Slots -> Entries], chunk : Chunks]

ZeroBlock(next) == [next |-> next, slots |-> EmptyDir, chunk |-> NoChunk]

\* Mutant: line 298 dropped, no block links to the next.
TextBlock_NoLink(next, c, k) ==
  [next |-> 0, slots |-> TextSlots, chunk |-> [c |-> c, k |-> k]]

TextBlock(next, c, k) ==
  [next |-> next, slots |-> TextSlots, chunk |-> [c |-> c, k |-> k]]
-----------------------------------------------------------------------------
VARIABLES
  ffree,      \* first_free_block in the super block of the image
  disk,       \* the data blocks of the image
  run,        \* the command in progress: its local variables
  formatted,  \* history: the last mymkfs of the image ran to its end
  tag,        \* history: what each block is used for
  past        \* history: what commands that were killed have left, see NoPast

vars == <<ffree, disk, run, formatted, tag, past>>

\* wrecks: entries, by block and slot, whose removal was killed half way; kills:
\* how many commands were killed.
NoPast == [wrecks |-> {}, kills |-> 0]

Points == {"none", "root", "list", "read", "write", "free", "super", "init",
           "entry", "undo"}

Runs == [op : Commands \cup {"none"}, at : Points,
         dir : Ids, dirblk : DataBlocks, slot : Slots,
         name : Names \cup {NoName}, first : Ids, size : Nat,
         cur : Ids, nxt : Ids, left : Nat,
         c : Contents \cup {NoContent}, k : Nat,
         ff : Ids]

\* No command in progress: the locals of the last one are gone.
Idle ==
  [op |-> "none", at |-> "none", dir |-> 0, dirblk |-> ZeroBlock(0), slot |-> 0,
   name |-> NoName, first |-> 0, size |-> 0, cur |-> 0, nxt |-> 0, left |-> 0,
   c |-> NoContent, k |-> 0, ff |-> 0]

Tags == {"root", "free", "held", "file", "dir", "lost"}

TypeOK ==
  /\ ffree \in Ids
  /\ disk \in [Blocks -> DataBlocks]
  /\ run \in Runs
  /\ formatted \in BOOLEAN
  /\ tag \in [Blocks -> Tags]
  /\ past \in [wrecks : SUBSET (Blocks \X Slots), kills : 0 .. MaxKills]

\* The image does not exist yet: whatever is read from it is zero.
Init ==
  /\ ffree = 0
  /\ disk = [b \in Blocks |-> ZeroBlock(0)]
  /\ run = Idle
  /\ formatted = FALSE
  /\ tag = [b \in Blocks |-> "lost"]
  /\ past = NoPast

\* The blocks from b to the end of its chain.  On a cycle the readers of the
\* code would not stop; here the sequence is cut at NBlocks, longer than any
\* chain that ends.
Chain(b) ==
  LET walk[n \in 0 .. NBlocks] ==
        [x \in Ids |-> IF n = 0 \/ x \notin Blocks THEN <<>>
                       ELSE <<x>> \o walk[n - 1][disk[x].next]]
  IN  walk[NBlocks][b]

\* Blocks taken by the command in progress become something else.
Retag(from, to) == [b \in Blocks |-> IF tag[b] = from THEN to ELSE tag[b]]
-----------------------------------------------------------------------------
\* Mutant: the head of the list does not move.
PopFree_Stays(ff) == ff

\* get_free_block pops this block: it is handed out with its next_block as it
\* was on the list; the super block is written at once.
PopFree(ff) == disk[ff].next

\* Mutant: only files are compared by name (type == 1 at line 177).
Matches_Files(slots, name) ==
  {s \in Slots : slots[s].type = 1 /\ slots[s].name = name}

Matches(slots, name) == {s \in Slots : slots[s].type # 0 /\ slots[s].name = name}

\* find_file_in_directory finds something.
Found(slots, name) == Matches(slots, name) # {}

FindSlot(slots, name) == Min(Matches(slots, name))

UnusedSlots(slots) == {s \in Slots : slots[s].type = 0}

\* One token of navigate_to_directory, from the directory in block b; 0 plays
\* the part of "not found".  The loop steps by 21 bytes where entries are 24
\* apart, so only every seventh slot (8 * 21 = 7 * 24) is read as an entry.
NavigateToken(b, name) ==
  LET seen == IF b = 0 THEN {}
              ELSE {s \in Matches(disk[b].slots, name) :
                      s % NavStride = 0 /\ disk[b].slots[s].type = 2}
  IN  IF seen = {} THEN 0 ELSE disk[b].slots[Min(seen)].first

\* The blocks of the directories on the way, the root first.
Passage(path) ==
  LET walk[i \in 0 .. Len(path)] ==
        IF i = 0 THEN Root ELSE NavigateToken(walk[i - 1], path[i])
  IN  walk

Navigate(path) == Passage(path)[Len(path)]
-----------------------------------------------------------------------------
(***************************************************************************)
(* mymkfs: super block, root directory, the free list block by block, and  *)
(* the end of the list.                                                    *)
(***************************************************************************)
MkfsSuper ==
  /\ run = Idle
  /\ formatted => Reformat
  /\ ffree' = 2
  /\ run' = [Idle EXCEPT !.op = "mymkfs", !.at = "root"]
  /\ formatted' = FALSE
  /\ past' = NoPast
  /\ UNCHANGED <<disk, tag>>

MkfsRoot ==
  /\ run.op = "mymkfs" /\ run.at = "root"
  /\ disk' = [disk EXCEPT ![Root] = ZeroBlock(0)]
  /\ tag' = [b \in Blocks |-> IF b = Root THEN "root" ELSE "free"]
  /\ run' = [run EXCEPT !.at = "list", !.cur = 2]
  /\ UNCHANGED <<ffree, formatted, past>>

MkfsList ==
  /\ run.op = "mymkfs" /\ run.at = "list" /\ run.cur < NBlocks
  /\ disk' = [disk EXCEPT ![run.cur] = ZeroBlock(run.cur + 1)]
  /\ run' = [run EXCEPT !.cur = @ + 1]
  /\ UNCHANGED <<ffree, formatted, tag, past>>

MkfsLast ==
  /\ run.op = "mymkfs" /\ run.at = "list" /\ run.cur = NBlocks
  /\ disk' = [disk EXCEPT ![NBlocks - 1] = ZeroBlock(0)]
  /\ run' = Idle
  /\ formatted' = TRUE
  /\ UNCHANGED <<ffree, tag, past>>
-----------------------------------------------------------------------------
(***************************************************************************)
(* mycopyTo: a block is allocated for the head of the chain, then one more *)
(* after every full block read from the host file; the directory entry     *)
(* comes last.                                                             *)
(***************************************************************************)
CopyToBegin(path, name, c, len) ==
  LET d == Navigate(path) IN
  /\ run = Idle /\ formatted
  /\ d \in Blocks
  /\ ~Found(disk[d].slots, name)
  /\ ffree # 0
  /\ ffree' = PopFree(ffree)
  /\ run' = [Idle EXCEPT !.op = "mycopyTo", !.at = "read",
                         !.dir = d, !.dirblk = disk[d], !.name = Stored[name],
                         !.first = ffree, !.cur = ffree, !.size = len,
                         !.left = len, !.c = c, !.ff = PopFree(ffree)]
  /\ tag' = [tag EXCEPT ![ffree] = "held"]
  /\ UNCHANGED <<disk, formatted, past>>

\* A full block was read: the next block is allocated before this one is
\* written.
CopyToAllocate ==
  /\ run.op = "mycopyTo" /\ run.at = "read" /\ run.left >= Capacity
  /\ run.ff # 0
  /\ ffree' = PopFree(run.ff)
  /\ run' = [run EXCEPT !.at = "write", !.nxt = run.ff, !.ff = PopFree(run.ff)]
  /\ tag' = [tag EXCEPT ![run.ff] = "held"]
  /\ UNCHANGED <<disk, formatted, past>>

\* "Should clean up allocated blocks here": they stay allocated for ever.
CopyToNoSpace ==
  /\ run.op = "mycopyTo" /\ run.at = "read" /\ run.left >= Capacity
  /\ run.ff = 0
  /\ run' = Idle
  /\ tag' = Retag("held", "lost")
  /\ UNCHANGED <<ffree, disk, formatted, past>>

CopyToWriteFull ==
  /\ run.op = "mycopyTo" /\ run.at = "write"
  /\ disk' = [disk EXCEPT ![run.cur] = TextBlock(run.nxt, run.c, run.k)]
  /\ run' = [run EXCEPT !.at = "read", !.cur = run.nxt, !.k = @ + 1,
                        !.left = @ - Capacity]
  /\ UNCHANGED <<ffree, formatted, tag, past>>

\* Mutant: a short read counted as a whole block.
CopyToWriteShort_AsFull ==
  /\ run.op = "mycopyTo" /\ run.at = "read"
  /\ run.left \in 1 .. Capacity - 1
  /\ disk' = [disk EXCEPT ![run.cur] = TextBlock(0, run.c, run.k)]
  /\ run' = [run EXCEPT !.cur = 0, !.k = @ + 1, !.left = @ - Capacity]
  /\ UNCHANGED <<ffree, formatted, tag, past>>

\* A short read, the last one: the block ends the chain.
CopyToWriteShort ==
  /\ run.op = "mycopyTo" /\ run.at = "read"
  /\ run.left \in 1 .. Capacity - 1
  /\ disk' = [disk EXCEPT ![run.cur] = TextBlock(0, run.c, run.k)]
  /\ run' = [run EXCEPT !.cur = 0, !.k = @ + 1, !.left = 0]
  /\ UNCHANGED <<ffree, formatted, tag, past>>

\* End of the host file: the entry goes to the first unused slot of the
\* directory block read at the start.
CopyToEntry ==
  /\ run.op = "mycopyTo" /\ run.at = "read" /\ run.left = 0
  /\ UnusedSlots(run.dirblk.slots) # {}
  /\ disk' = [disk EXCEPT ![run.dir] =
                [run.dirblk EXCEPT !.slots[Min(UnusedSlots(run.dirblk.slots))] =
                    Entry(1, run.name, run.first, run.size)]]
  /\ run' = Idle
  /\ tag' = Retag("held", "file")
  /\ UNCHANGED <<ffree, formatted, past>>

CopyToDirFull ==
  /\ run.op = "mycopyTo" /\ run.at = "read" /\ run.left = 0
  /\ UnusedSlots(run.dirblk.slots) = {}
  /\ run' = Idle
  /\ tag' = Retag("held", "lost")
  /\ UNCHANGED <<ffree, disk, formatted, past>>
-----------------------------------------------------------------------------
(***************************************************************************)
(* myrm: the chain is pushed on the free list block by block, in the copy  *)
(* of the super block in memory; then the super block is written, and the  *)
(* entry is cleared last.                                                  *)
(***************************************************************************)
RmBegin(path, name) ==
  LET d == Navigate(path) IN
  /\ run = Idle /\ formatted
  /\ d \in Blocks
  /\ Found(disk[d].slots, name)
  /\ LET s == FindSlot(disk[d].slots, name)
         e == disk[d].slots[s]
     IN  /\ e.type = 1
         /\ run' = [Idle EXCEPT !.op = "myrm", !.at = "free", !.dir = d,
                                !.dirblk = disk[d], !.slot = s,
                                !.first = e.first, !.cur = e.first, !.ff = ffree]
  /\ UNCHANGED <<ffree, disk, formatted, tag, past>>

\* Mutant: the next block read after line 515 has overwritten it.
RmFreeBlock_ReadLate ==
  /\ run.op = "myrm" /\ run.at = "free" /\ run.cur # 0
  /\ disk' = [disk EXCEPT ![run.cur].next = run.ff]
  /\ run' = [run EXCEPT !.ff = run.cur, !.cur = run.ff]
  /\ tag' = [tag EXCEPT ![run.cur] = "free"]
  /\ UNCHANGED <<ffree, formatted, past>>

RmFreeBlock ==
  /\ run.op = "myrm" /\ run.at = "free" /\ run.cur # 0
  /\ disk' = [disk EXCEPT ![run.cur].next = run.ff]
  /\ run' = [run EXCEPT !.ff = run.cur, !.cur = disk[run.cur].next]
  /\ tag' = [tag EXCEPT ![run.cur] = "free"]
  /\ UNCHANGED <<ffree, formatted, past>>

RmSuper ==
  /\ run.op = "myrm" /\ run.at = "free" /\ run.cur = 0
  /\ ffree' = run.ff
  /\ run' = [run EXCEPT !.at = "entry"]
  /\ UNCHANGED <<disk, formatted, tag, past>>

\* Mutant: line 527 without its index.
RmEntry_FirstSlot ==
  /\ run.op = "myrm" /\ run.at = "entry"
  /\ disk' = [disk EXCEPT ![run.dir] =
                [run.dirblk EXCEPT !.slots[0] = Unused]]
  /\ run' = Idle
  /\ UNCHANGED <<ffree, formatted, tag, past>>

RmEntry ==
  /\ run.op = "myrm" /\ run.at = "entry"
  /\ disk' = [disk EXCEPT ![run.dir] =
                [run.dirblk EXCEPT !.slots[run.slot] = Unused]]
  /\ run' = Idle
  /\ UNCHANGED <<ffree, formatted, tag, past>>
-----------------------------------------------------------------------------
(***************************************************************************)
(* mymkdir: one block is allocated and cleared, then the parent gets the   *)
(* entry; when the parent is full the block goes back to the free list.    *)
(***************************************************************************)
MkdirBegin(path, name) ==
  LET d == Navigate(path) IN
  /\ run = Idle /\ formatted
  /\ d \in Blocks
  /\ ~Found(disk[d].slots, name)
  /\ ffree # 0
  /\ ffree' = PopFree(ffree)
  /\ run' = [Idle EXCEPT !.op = "mymkdir", !.at = "init",
                         !.dir = d, !.dirblk = disk[d], !.name = Stored[name],
                         !.first = ffree, !.ff = PopFree(ffree)]
  /\ tag' = [tag EXCEPT ![ffree] = "held"]
  /\ UNCHANGED <<disk, formatted, past>>

MkdirInit ==
  /\ run.op = "mymkdir" /\ run.at = "init"
  /\ disk' = [disk EXCEPT ![run.first] = ZeroBlock(0)]
  /\ run' = [run EXCEPT !.at = "entry"]
  /\ UNCHANGED <<ffree, formatted, tag, past>>

MkdirEntry ==
  /\ run.op = "mymkdir" /\ run.at = "entry"
  /\ UnusedSlots(run.dirblk.slots) # {}
  /\ disk' = [disk EXCEPT ![run.dir] =
                [run.dirblk EXCEPT !.slots[Min(UnusedSlots(run.dirblk.slots))] =
                    Entry(2, run.name, run.first, 0)]]
  /\ run' = Idle
  /\ tag' = Retag("held", "dir")
  /\ UNCHANGED <<ffree, formatted, past>>

MkdirUndoBlock ==
  /\ run.op = "mymkdir" /\ run.at = "entry"
  /\ UnusedSlots(run.dirblk.slots) = {}
  /\ disk' = [disk EXCEPT ![run.first].next = run.ff]
  /\ run' = [run EXCEPT !.at = "undo", !.ff = run.first]
  /\ UNCHANGED <<ffree, formatted, tag, past>>

MkdirUndoSuper ==
  /\ run.op = "mymkdir" /\ run.at = "undo"
  /\ ffree' = run.ff
  /\ run' = Idle
  /\ tag' = Retag("held", "free")
  /\ UNCHANGED <<disk, formatted, past>>
-----------------------------------------------------------------------------
(***************************************************************************)
(* myrmdir: the block of an empty directory is pushed on the free list,    *)
(* then the super block is written, then the parent's entry is cleared.    *)
(***************************************************************************)
RmdirBegin(path, name) ==
  LET d == Navigate(path) IN
  /\ run = Idle /\ formatted
  /\ d \in Blocks
  /\ Found(disk[d].slots, name)
  /\ LET s == FindSlot(disk[d].slots, name)
         e == disk[d].slots[s]
     IN  /\ e.type = 2
         /\ UnusedSlots(disk[e.first].slots) = Slots
         /\ run' = [Idle EXCEPT !.op = "myrmdir", !.at = "free", !.dir = d,
                                !.dirblk = disk[d], !.slot = s,
                                !.first = e.first, !.ff = ffree]
  /\ UNCHANGED <<ffree, disk, formatted, tag, past>>

RmdirFreeBlock ==
  /\ run.op = "myrmdir" /\ run.at = "free"
  /\ disk' = [disk EXCEPT ![run.first].next = run.ff]
  /\ run' = [run EXCEPT !.at = "super", !.ff = run.first]
  /\ tag' = [tag EXCEPT ![run.first] = "free"]
  /\ UNCHANGED <<ffree, formatted, past>>

\* Mutant: lines 757-758 dropped.
RmdirSuper_NotSaved ==
  /\ run.op = "myrmdir" /\ run.at = "super"
  /\ run' = [run EXCEPT !.at = "entry"]
  /\ UNCHANGED <<ffree, disk, formatted, tag, past>>

RmdirSuper ==
  /\ run.op = "myrmdir" /\ run.at = "super"
  /\ ffree' = run.ff
  /\ run' = [run EXCEPT !.at = "entry"]
  /\ UNCHANGED <<disk, formatted, tag, past>>

RmdirEntry ==
  /\ run.op = "myrmdir" /\ run.at = "entry"
  /\ disk' = [disk EXCEPT ![run.dir] =
                [run.dirblk EXCEPT !.slots[run.slot] = Unused]]
  /\ run' = Idle
  /\ UNCHANGED <<ffree, formatted, tag, past>>
-----------------------------------------------------------------------------
\* A command that is refused returns -1 before its first write: no such
\* directory, no free block, a directory that is not empty, or the name.  One
\* always is: mycopyTo and mymkdir refuse a name that is there, myrm and
\* myrmdir one that is not.
Refused ==
  /\ run = Idle /\ formatted
  /\ UNCHANGED vars

\* The entry that a myrm or myrmdir in progress has begun to take apart: of no
\* use any more, although it is cleared last.
Victim ==
  LET begun == \/ run.op = "myrmdir" /\ run.at # "free"
               \/ run.op = "myrm" /\ (run.at = "free" => run.cur # run.first)
  IN  IF begun THEN <<run.dir, run.slot>> ELSE <<0, 0>>

\* Blocks that nothing will lead to when the command is killed: those it has
\* taken, and those of its victim until the super block is saved.
Abandoned ==
  {b \in Blocks : tag[b] = "held"}
    \cup IF Victim = <<0, 0>> THEN {}
         ELSE ToSet(Chain(run.cur)) \cup (ToSet(Chain(run.ff)) \ ToSet(Chain(ffree)))

\* The command is killed between two writes; nothing of it remains but the
\* image.  A killed mymkfs leaves an image the user has to format again.  A
\* removal that was killed on its way leaves its entry behind, on blocks that
\* are free or lost; the user leaves such an entry alone.
Kill ==
  /\ run.op \in Killable /\ past.kills < MaxKills
  /\ run' = Idle
  /\ tag' = [b \in Blocks |-> IF b \in Abandoned THEN "lost" ELSE tag[b]]
  /\ past' = [wrecks |-> past.wrecks \cup ({Victim} \ {<<0, 0>>}), kills |-> past.kills + 1]
  /\ UNCHANGED <<ffree, disk, formatted>>

\* An assumption about the user, which the code does not check: a command is
\* not given a path through, or to, the entry of a removal that was killed.
AvoidsWrecks(path, name) ==
  \A w \in past.wrecks, i \in 0 .. Len(path) :
    w[1] = Passage(path)[i] => disk[w[1]].slots[w[2]].name # Append(path, name)[i + 1]

\* The user starts a command.
Begin ==
  \/ MkfsSuper
  \/ \E path \in DirPaths, name \in Names :
       /\ AvoidsWrecks(path, name)
       /\ \/ \E c \in Contents, len \in Lengths : CopyToBegin(path, name, c, len)
          \/ RmBegin(path, name)
          \/ MkdirBegin(path, name)
          \/ RmdirBegin(path, name)

\* The command in progress goes on.
Step ==
  \/ MkfsRoot \/ MkfsList \/ MkfsLast
  \/ CopyToAllocate \/ CopyToNoSpace \/ CopyToWriteFull \/ CopyToWriteShort
  \/ CopyToEntry \/ CopyToDirFull
  \/ RmFreeBlock \/ RmSuper \/ RmEntry
  \/ MkdirInit \/ MkdirEntry \/ MkdirUndoBlock \/ MkdirUndoSuper
  \/ RmdirFreeBlock \/ RmdirSuper \/ RmdirEntry

Next == Begin \/ Step \/ Refused \/ Kill

Safety == Init /\ [][Next]_vars

\* A process that is not killed runs on: nothing in a command waits.
Spec == Safety /\ WF_vars(Step)
=============================================================================
