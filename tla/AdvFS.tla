-------------------------------- MODULE AdvFS --------------------------------
(***************************************************************************)
(* os_day9/myfs_adv.c: the later version of the block file system.  Here a *)
(* chain ends in -1, the super block is read again and saved with every    *)
(* block taken or given back, a directory grows by a block when it is      *)
(* full, a lookup stops at the first unused slot of a block, mycopyto over *)
(* an existing entry removes it first, and myrm removes directories too.   *)
(*                                                                         *)
(* Each command is a process of its own; a step of it lies between two     *)
(* writes to the image, where it may be killed.  allocate_zero_block,      *)
(* free_block and add_dir_entry are called from several places: run.use    *)
(* says which, that is, where to go on.                                    *)
(*                                                                         *)
(* get_superblock reads 4096 bytes into a local of 16 (line 1002).  A      *)
(* build that lays other locals there dies in it, before it has changed    *)
(* anything; the steps are those of a build that goes on.  Entries of 24   *)
(* bytes are stored as 21 (line 1344), which leaves out all of fsize but   *)
(* its low byte.  Names have at most 11 characters.  Data is abstracted as *)
(* in MyFS.                                                                *)
(***************************************************************************)
EXTENDS Integers, Sequences, FiniteSets, SequencesExt

CONSTANTS
  NBlocks,    \* nblocks given to mymkfs: the image has blocks 1..nblocks
  Capacity,   \* bytes of data in a block (4088)
  NSlots,     \* directory entries in a block (4088 / METADATA_SIZE = 194)
  ByteRange,  \* values of a byte (256)
  Names, NoName,
  Contents, NoContent,
  Lengths,    \* the length of each of these texts
  Paths,      \* the paths the user types, as sequences of names
  DirPaths,   \* those at which the user makes directories
  Killable,   \* the commands that may be killed
  MaxKills,   \* how often one of them is, at most, after a mymkfs
  Reformat    \* whether the user runs mymkfs on an image in use

Commands == {"mymkfs", "mycopyto", "myrm", "mymkdir"}

AdvAssumption ==
  /\ {NBlocks, Capacity, NSlots, ByteRange} \subseteq Nat \ {0}
  /\ Lengths \in [Contents -> Nat]
  /\ NoName \notin Names /\ NoContent \notin Contents
  /\ Paths \subseteq Seq(Names) \ {<<>>} /\ DirPaths \subseteq Paths
  /\ MaxKills \in Nat
  /\ Killable \subseteq Commands /\ Reformat \in BOOLEAN
ASSUME AdvAssumption

End    == -1
Root   == 1                       \* sb.rootblock
Blocks == 1 .. NBlocks
Ids    == End .. NBlocks + 1      \* 0, the super block, is nobody's next block
Slots  == 0 .. NSlots - 1
-----------------------------------------------------------------------------
\* fd: type 0 unused, 1 file, 2 directory, 3 text read as an entry.
Entries ==
  [type : 0 .. 3, name : Names \cup {NoName}, first : Ids, size : 0 .. ByteRange - 1]

Entry(type, name, first, size) ==
  [type |-> type, name |-> name, first |-> first, size |-> size]

Unused    == Entry(0, NoName, 0, 0)
EmptyDir  == [s \in Slots |-> Unused]
TextSlots == [s \in Slots |-> Entry(3, NoName, 0, 0)]

\* The k-th piece of a text, of n bytes; no bytes in a block of zeros.
Chunks  == [c : Contents \cup {NoContent}, k : Nat, n : 0 .. Capacity]
NoChunk == [c |-> NoContent, k |-> 0, n |-> 0]

\* block
DataBlocks == [next : Ids, slots : [Slots -> Entries], chunk : Chunks]

ZeroBlock(next) == [next |-> next, slots |-> EmptyDir, chunk |-> NoChunk]
-----------------------------------------------------------------------------
VARIABLES
  ffree,      \* sb.freeblock
  disk,       \* the blocks of the image
  run,        \* the command in progress: its local variables
  formatted,  \* history: the last mymkfs of the image ran to its end
  past        \* history: what commands have given up, see NoPast

vars == <<ffree, disk, run, formatted, past>>

\* lost: blocks that no pointer leads to any more; cut: first blocks of files
\* whose copy did not reach its end; holed: directory blocks in which an entry
\* before another one was cleared; wrecks: entries, by block and slot, whose
\* removal was killed half way; kills: how many commands were killed.
NoPast == [lost |-> {}, cut |-> {}, holed |-> {}, wrecks |-> {}, kills |-> 0]

Points == {"none", "root", "list", "free", "super", "alloc", "zero", "entry",
           "link", "data", "write"}
Uses == {"none", "chain", "new", "link", "data", "undo"}

Runs == [op : Commands \cup {"none"}, at : Points, use : Uses,
         parent : Ids, dir : Ids, dirblk : DataBlocks, slot : Slots,
         name : Names \cup {NoName}, first : Ids, cur : Ids, nxt : Ids,
         c : Contents \cup {NoContent}, k : Nat, left : Nat]

Idle ==
  [op |-> "none", at |-> "none", use |-> "none", parent |-> 0, dir |-> 0,
   dirblk |-> ZeroBlock(End), slot |-> 0, name |-> NoName, first |-> 0,
   cur |-> 0, nxt |-> 0, c |-> NoContent, k |-> 0, left |-> 0]

TypeOK ==
  /\ ffree \in Ids
  /\ disk \in [Blocks -> DataBlocks]
  /\ run \in Runs
  /\ formatted \in BOOLEAN
  /\ past \in [lost : SUBSET Blocks, cut : SUBSET Blocks, holed : SUBSET Blocks,
               wrecks : SUBSET (Blocks \X Slots), kills : 0 .. MaxKills]

Init ==
  /\ ffree = 0
  /\ disk = [b \in Blocks |-> ZeroBlock(End)]
  /\ run = Idle
  /\ formatted = FALSE
  /\ past = NoPast
-----------------------------------------------------------------------------
\* The blocks from b to the end of its chain, at most NBlocks of them.
Chain(b) ==
  LET walk[n \in 0 .. NBlocks, x \in Ids] ==
        IF n = 0 \/ x \notin Blocks THEN <<>>
        ELSE <<x>> \o walk[n - 1, disk[x].next]
  IN  walk[NBlocks, b]

UnusedSlots(slots) == {s \in Slots : slots[s].type = 0}

\* The slots a lookup or a count reads: those before the first unused one.
Listed(slots) == {s \in Slots : \A t \in 0 .. s : slots[t].type # 0}

Hits(b, name) == {s \in Listed(disk[b].slots) : disk[b].slots[s].name = name}

NotFound == <<0, 0>>

\* Mutant: lines 1079-1086 dropped, only the first block is searched.
FindEntry_OneBlock(d, name) ==
  IF Hits(d, name) = {} THEN NotFound ELSE <<d, Min(Hits(d, name))>>

\* find_entry, as the block and the slot it finds in directory d: the first
\* hit in the first block of the chain that has one.
FindEntry(d, name) ==
  LET chain == Chain(d)
      with == {i \in DOMAIN chain : Hits(chain[i], name) # {}}
  IN  IF with = {} THEN NotFound
      ELSE LET blk == chain[Min(with)] IN <<blk, Min(Hits(blk, name))>>

At(loc) == disk[loc[1]].slots[loc[2]]

\* find_parent_dir, 0 if there is none.
StepDown(d, name) ==
  LET loc == IF d = 0 THEN NotFound ELSE FindEntry(d, name) IN
  IF loc = NotFound THEN 0
  ELSE IF At(loc).type = 2 THEN At(loc).first ELSE 0

ParentDir(path) == FoldLeft(StepDown, Root, Front(path))

\* add_dir_entry: the block of the directory it ends up in, the first with
\* room or the last of the chain.
RoomIn(d) ==
  LET chain == Chain(d)
      with == {i \in DOMAIN chain : UnusedSlots(disk[chain[i]].slots) # {}}
  IN  IF with = {} THEN Last(chain) ELSE chain[Min(with)]
-----------------------------------------------------------------------------
(***************************************************************************)
(* What leads where in the image, for the history variable and for the     *)
(* properties.                                                             *)
(***************************************************************************)
\* The entry that a removal in progress will clear.
Victim == IF run.use = "chain" THEN <<run.dir, run.slot>> ELSE NotFound

LiveSlots(b) ==
  {s \in Slots \ UnusedSlots(disk[b].slots) :
     <<b, s>> # Victim /\ <<b, s>> \notin past.wrecks}

Children(b) == {disk[b].slots[s].first : s \in LiveSlots(b)} \cap Blocks

Reach(bs) ==
  LET grow[n \in 0 .. NBlocks] ==
        IF n = 0 THEN bs \cap Blocks
        ELSE UNION {({b, disk[b].next} \cup Children(b)) \cap Blocks : b \in grow[n - 1]}
  IN  grow[NBlocks]

\* What a removal in progress has still to give back, children included.
Removing ==
  IF run.use # "chain" THEN {}
  ELSE IF run.at = "super" THEN {run.cur} \cup Reach({run.nxt})
  ELSE Reach({run.cur})

\* Blocks taken by the command in progress that no entry or block leads to.
Held ==
  (IF run.use \in {"new", "link", "undo"} THEN {run.first} \cap Blocks ELSE {})
    \cup (IF run.at \in {"zero", "link", "write"} THEN {run.nxt} ELSE {})
-----------------------------------------------------------------------------
(***************************************************************************)
(* mymkfs: super block, root directory, then the free list in order.       *)
(***************************************************************************)
MkfsSuper ==
  /\ run = Idle
  /\ formatted => Reformat
  /\ ffree' = 2
  /\ run' = [Idle EXCEPT !.op = "mymkfs", !.at = "root"]
  /\ formatted' = FALSE
  /\ past' = NoPast
  /\ UNCHANGED disk

MkfsRoot ==
  /\ run.op = "mymkfs" /\ run.at = "root"
  /\ disk' = [disk EXCEPT ![Root] = ZeroBlock(End)]
  /\ run' = [run EXCEPT !.at = "list", !.cur = 2]
  /\ UNCHANGED <<ffree, formatted, past>>

\* The last block ends the list; with nblocks = 1 there is none.
MkfsList ==
  /\ run.op = "mymkfs" /\ run.at = "list" /\ run.cur < NBlocks
  /\ disk' = [disk EXCEPT ![run.cur] = ZeroBlock(run.cur + 1)]
  /\ run' = [run EXCEPT !.cur = @ + 1]
  /\ UNCHANGED <<ffree, formatted, past>>

MkfsLast ==
  /\ run.op = "mymkfs" /\ run.at = "list" /\ run.cur >= NBlocks
  /\ disk' = IF run.cur > NBlocks THEN disk ELSE [disk EXCEPT ![NBlocks] = ZeroBlock(End)]
  /\ run' = Idle
  /\ formatted' = TRUE
  /\ UNCHANGED <<ffree, past>>
-----------------------------------------------------------------------------
(***************************************************************************)
(* The commands, up to their first write.                                  *)
(***************************************************************************)
\* The locals of myrm once it has found its entry.
Removal(r, loc) ==
  [r EXCEPT !.at = "free", !.use = "chain", !.dir = loc[1], !.dirblk = disk[loc[1]],
            !.slot = loc[2], !.cur = At(loc).first]

CopyToBegin(path, c) ==
  LET d == ParentDir(path)
      name == Last(path)
      loc == FindEntry(d, name)
      r == [Idle EXCEPT !.op = "mycopyto", !.at = "alloc", !.use = "new",
                        !.parent = d, !.dir = d, !.name = name, !.c = c, !.left = Lengths[c]]
  IN  /\ run = Idle /\ formatted
      /\ d # 0
      /\ run' = IF loc = NotFound THEN r ELSE Removal(r, loc)
      /\ UNCHANGED <<ffree, disk, formatted, past>>

RmBegin(path) ==
  LET d == ParentDir(path)
      loc == FindEntry(d, Last(path))
  IN  /\ run = Idle /\ formatted
      /\ d # 0 /\ loc # NotFound
      /\ run' = Removal([Idle EXCEPT !.op = "myrm"], loc)
      /\ UNCHANGED <<ffree, disk, formatted, past>>

MkdirBegin(path) ==
  LET d == ParentDir(path) IN
  /\ run = Idle /\ formatted
  /\ d # 0 /\ FindEntry(d, Last(path)) = NotFound
  /\ run' = [Idle EXCEPT !.op = "mymkdir", !.at = "alloc", !.use = "new",
                         !.parent = d, !.dir = d, !.name = Last(path)]
  /\ UNCHANGED <<ffree, disk, formatted, past>>
-----------------------------------------------------------------------------
(***************************************************************************)
(* free_block_chain and free_block: the block is zeroed and linked to the  *)
(* free list, then the super block is saved.                               *)
(***************************************************************************)
\* Mutant: lines 1488 and 1490 swapped, the next block is read too late.
FreeBlock_ReadLate ==
  /\ run.at = "free" /\ run.cur # End
  /\ disk' = [disk EXCEPT ![run.cur] = ZeroBlock(ffree)]
  /\ run' = [run EXCEPT !.at = "super", !.nxt = ffree]
  /\ past' = [past EXCEPT !.lost = @ \cup Reach(Children(run.cur))]
  /\ UNCHANGED <<ffree, formatted>>

\* What was in a freed directory is lost, but for the block itself.
FreeBlock ==
  /\ run.at = "free" /\ run.cur # End
  /\ disk' = [disk EXCEPT ![run.cur] = ZeroBlock(ffree)]
  /\ run' = [run EXCEPT !.at = "super", !.nxt = disk[run.cur].next]
  /\ past' = [past EXCEPT !.lost = @ \cup Reach(Children(run.cur)),
                          !.cut = @ \ {run.cur},
                          !.holed = @ \ {run.cur},
                          !.wrecks = {w \in @ : w[1] # run.cur}]
  /\ UNCHANGED <<ffree, formatted>>

FreeSuper ==
  /\ run.at = "super"
  /\ ffree' = run.cur
  /\ run' = IF run.use = "undo" THEN Idle
            ELSE [run EXCEPT !.at = "free", !.cur = run.nxt, !.nxt = 0]
  /\ UNCHANGED <<disk, formatted, past>>

\* The end of myrm: the entry is cleared in the copy of its block that was
\* read before the chain was freed.
ClearEntry ==
  /\ run.at = "free" /\ run.cur = End
  /\ disk' = [disk EXCEPT ![run.dir] = [run.dirblk EXCEPT !.slots[run.slot] = Unused]]
  /\ run' = IF run.op = "myrm" THEN Idle
            ELSE [run EXCEPT !.at = "alloc", !.use = "new", !.dir = run.parent,
                             !.dirblk = Idle.dirblk, !.slot = 0, !.cur = 0]
  /\ past' = IF \E s \in Slots : s > run.slot /\ run.dirblk.slots[s].type # 0
             THEN [past EXCEPT !.holed = @ \cup {run.dir}] ELSE past
  /\ UNCHANGED <<ffree, formatted>>
-----------------------------------------------------------------------------
(***************************************************************************)
(* allocate_zero_block: the super block is saved before the block is       *)
(* zeroed.                                                                 *)
(***************************************************************************)
\* add_dir_entry finds every block of the directory full: it gets another one.
DirFull == run.at = "entry" /\ UnusedSlots(disk[RoomIn(run.dir)].slots) = {}

\* write_file_data allocates the next block before it writes this one.
NeedsNext == run.left > Capacity /\ disk[run.cur].next = End

\* What the command wants a block for now.
Wants(use) ==
  CASE use = "new"  -> run.at = "alloc"
    [] use = "link" -> DirFull
    [] use = "data" -> run.at = "data" /\ NeedsNext

\* Mutant: line 1034 dropped, the free list does not move.
AllocSuper_Stays ==
  \E use \in {"new", "link", "data"} :
    LET r == [run EXCEPT !.at = "zero", !.use = use, !.nxt = ffree] IN
    /\ Wants(use) /\ ffree \in Blocks
    /\ run' = IF use # "link" THEN r
              ELSE [r EXCEPT !.dir = RoomIn(run.dir), !.dirblk = disk[RoomIn(run.dir)]]
    /\ UNCHANGED <<ffree, disk, formatted, past>>

AllocSuper ==
  \E use \in {"new", "link", "data"} :
    LET r == [run EXCEPT !.at = "zero", !.use = use, !.nxt = ffree] IN
    /\ Wants(use) /\ ffree \in Blocks
    /\ ffree' = disk[ffree].next
    /\ run' = IF use # "link" THEN r
              ELSE [r EXCEPT !.dir = RoomIn(run.dir), !.dirblk = disk[RoomIn(run.dir)]]
    /\ UNCHANGED <<disk, formatted, past>>

\* Mutant: line 1039 dropped, a block keeps its place in the free list.
AllocZero_KeepsNext ==
  /\ run.at = "zero"
  /\ disk' = [disk EXCEPT ![run.nxt] = ZeroBlock(@.next)]
  /\ run' = CASE run.use = "new"  -> [run EXCEPT !.at = "entry", !.first = run.nxt, !.nxt = 0]
              [] run.use = "link" -> [run EXCEPT !.at = "link"]
              [] run.use = "data" -> [run EXCEPT !.at = "write"]
  /\ UNCHANGED <<ffree, formatted, past>>

AllocZero ==
  /\ run.at = "zero"
  /\ disk' = [disk EXCEPT ![run.nxt] = ZeroBlock(End)]
  /\ run' = CASE run.use = "new"  -> [run EXCEPT !.at = "entry", !.first = run.nxt, !.nxt = 0]
              [] run.use = "link" -> [run EXCEPT !.at = "link"]
              [] run.use = "data" -> [run EXCEPT !.at = "write"]
  /\ UNCHANGED <<ffree, formatted, past>>

\* No free block for the file or the directory itself.
NewNoSpace ==
  /\ Wants("new") /\ ffree \notin Blocks
  /\ run' = Idle
  /\ UNCHANGED <<ffree, disk, formatted, past>>

\* Mutant: line 1261 dropped, the block taken for the file is not given back.
CopyToUndo_KeepsBlock ==
  /\ Wants("link") /\ ffree \notin Blocks
  /\ run.op = "mycopyto"
  /\ run' = Idle
  /\ UNCHANGED <<ffree, disk, formatted, past>>

\* None for a full directory: mycopyto frees its first block again.
CopyToUndo ==
  /\ Wants("link") /\ ffree \notin Blocks
  /\ run.op = "mycopyto"
  /\ run' = [run EXCEPT !.at = "free", !.use = "undo", !.cur = run.first]
  /\ UNCHANGED <<ffree, disk, formatted, past>>

\* mymkdir does not.
MkdirNoSpace ==
  /\ Wants("link") /\ ffree \notin Blocks
  /\ run.op = "mymkdir"
  /\ run' = Idle
  /\ past' = [past EXCEPT !.lost = @ \cup {run.first}]
  /\ UNCHANGED <<ffree, disk, formatted>>

\* None for the rest of a file: "Out of disk space", and the block filled in
\* memory is not written.
DataNoSpace ==
  /\ Wants("data") /\ ffree \notin Blocks
  /\ run' = Idle
  /\ past' = [past EXCEPT !.cut = @ \cup {run.first}]
  /\ UNCHANGED <<ffree, disk, formatted>>
-----------------------------------------------------------------------------
(***************************************************************************)
(* add_dir_entry and write_file_data.                                      *)
(***************************************************************************)
EntryType == IF run.op = "mymkdir" THEN 2 ELSE 1

\* memcpy of METADATA_SIZE bytes keeps the low byte of fsize only.
AddEntry ==
  LET d == RoomIn(run.dir)
      free == UnusedSlots(disk[d].slots)
  IN  /\ run.at = "entry" /\ free # {}
      /\ disk' = [disk EXCEPT ![d].slots[Min(free)] =
                    Entry(EntryType, run.name, run.first, run.left % ByteRange)]
      /\ run' = IF run.left = 0 THEN Idle
                ELSE [run EXCEPT !.at = "data", !.use = "data", !.parent = 0, !.dir = 0,
                                 !.name = NoName, !.cur = run.first, !.nxt = 0]
      /\ UNCHANGED <<ffree, formatted, past>>

\* The full block is written back with the link, and add_dir_entry goes on in
\* the new one.
LinkDir ==
  /\ run.at = "link"
  /\ disk' = [disk EXCEPT ![run.dir] = [run.dirblk EXCEPT !.next = run.nxt]]
  /\ run' = [run EXCEPT !.at = "entry", !.dir = run.nxt, !.dirblk = Idle.dirblk]
  /\ UNCHANGED <<ffree, formatted, past>>

\* Mutant: line 1361 without its limit, all that remains is copied.
WriteBlock_NoLimit(next) ==
  LET n == Min({run.left, Capacity}) IN
  /\ disk' = [disk EXCEPT ![run.cur] =
                [next |-> next, slots |-> TextSlots,
                 chunk |-> [c |-> run.c, k |-> run.k, n |-> run.left]]]
  /\ run' = IF n = run.left THEN Idle
            ELSE [run EXCEPT !.at = "data", !.cur = next, !.nxt = 0,
                             !.k = @ + 1, !.left = @ - n]
  /\ UNCHANGED <<ffree, formatted, past>>

\* Mutant: line 1375 dropped, every block gets the first bytes.
WriteBlock_OffsetStays(next) ==
  LET n == Min({run.left, Capacity}) IN
  /\ disk' = [disk EXCEPT ![run.cur] =
                [next |-> next, slots |-> TextSlots,
                 chunk |-> [c |-> run.c, k |-> run.k, n |-> n]]]
  /\ run' = IF n = run.left THEN Idle
            ELSE [run EXCEPT !.at = "data", !.cur = next, !.nxt = 0, !.left = @ - n]
  /\ UNCHANGED <<ffree, formatted, past>>

WriteBlock(next) ==
  LET n == Min({run.left, Capacity}) IN
  /\ disk' = [disk EXCEPT ![run.cur] =
                [next |-> next, slots |-> TextSlots,
                 chunk |-> [c |-> run.c, k |-> run.k, n |-> n]]]
  /\ run' = IF n = run.left THEN Idle
            ELSE [run EXCEPT !.at = "data", !.cur = next, !.nxt = 0,
                             !.k = @ + 1, !.left = @ - n]
  /\ UNCHANGED <<ffree, formatted, past>>

DataWrite ==
  \/ run.at = "data" /\ ~NeedsNext /\ WriteBlock(disk[run.cur].next)
  \/ run.at = "write" /\ WriteBlock(run.nxt)
-----------------------------------------------------------------------------
\* A command that is refused writes nothing: no such directory or entry, or,
\* for mymkdir, an entry of that name.
Refused ==
  /\ run = Idle /\ formatted
  /\ UNCHANGED vars

\* The process is killed.  A removal that has freed a block leaves its entry
\* behind, on blocks that are free or lost; the user leaves such an entry alone.
Kill ==
  LET begun == run.use = "chain" /\ ~(run.at = "free" /\ run.cur = At(Victim).first) IN
  /\ run.op \in Killable /\ past.kills < MaxKills
  /\ run' = Idle
  /\ past' = [past EXCEPT
                !.kills = @ + 1,
                !.lost = @ \cup Held \cup (IF begun THEN Removing ELSE {}),
                !.cut = @ \cup (IF run.use = "data" THEN {run.first} ELSE {}),
                !.wrecks = @ \cup (IF begun THEN {Victim} ELSE {})]
  /\ UNCHANGED <<ffree, disk, formatted>>

\* Assumed of the user, and not checked by the program: an entry whose removal
\* was killed half way is not used, nor gone through.
AvoidsWrecks(path) ==
  \A i \in DOMAIN path :
    LET d == ParentDir(SubSeq(path, 1, i)) IN
    d # 0 => FindEntry(d, path[i]) \notin past.wrecks

Begin ==
  \/ MkfsSuper
  \/ \E path \in {p \in Paths : AvoidsWrecks(p)} :
       \/ \E c \in Contents : CopyToBegin(path, c)
       \/ RmBegin(path)
       \/ path \in DirPaths /\ MkdirBegin(path)

Step ==
  \/ MkfsRoot \/ MkfsList \/ MkfsLast
  \/ FreeBlock \/ FreeSuper \/ ClearEntry
  \/ AllocSuper \/ AllocZero \/ NewNoSpace \/ CopyToUndo \/ MkdirNoSpace \/ DataNoSpace
  \/ AddEntry \/ LinkDir \/ DataWrite

Next == Begin \/ Step \/ Refused \/ Kill

Spec == Init /\ [][Next]_vars
=============================================================================
