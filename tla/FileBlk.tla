------------------------------- MODULE FileBlk -------------------------------
(****************************************************************************)
(* os_day7/fileblk.c: a file "test.bin" of equal blocks behind a header     *)
(* that holds a bitmap of the used blocks and the counts of used and free   *)
(* ones.  Every operation opens the file, reads the header, changes its own *)
(* copy, writes the copy back whole and then fills the block it took or     *)
(* gave back.  Each element of Procs is a running menu program; nothing     *)
(* locks the file.  A read or write call is one step.                       *)
(*                                                                          *)
(* The room behind the header is a row of cells, so that a file formatted   *)
(* again with another block size lays other blocks over the same bytes.  A  *)
(* cell is also the unit of lengths; Skew is the distance in cells between  *)
(* the end of the header structure (528 bytes) and the first block (4096).  *)
(* A cell beyond the end of the file counts as zero.                        *)
(****************************************************************************)
EXTENDS Integers, FiniteSets

CONSTANTS
  Procs,        \* the running programs
  Geometries,   \* what a user may answer to "block size" and "number of blocks"
  Default,      \* the geometry main() formats a missing file with
  Texts,        \* the lengths of the texts a user enters, in cells
  CellCount,    \* cells behind the header
  Skew,
  Failing       \* TRUE when a program may die, or a call fail, between two calls

\* The bitmap has 4096 bits and init_File_dd does not check the number of
\* blocks against it; nor does it check the signs.
GeometryAssumption ==
  /\ Default \in Geometries
  /\ \A g \in Geometries : /\ g \in [n : Nat \ {0}, s : Nat \ {0}]
                           /\ g.n <= 4096 /\ g.n * g.s <= CellCount
  /\ CellCount \in Nat /\ Skew \in Nat
  /\ Texts \subseteq Nat
  /\ Failing \in BOOLEAN
ASSUME GeometryAssumption

VARIABLES
  file,      \* "absent", "empty" (created, no header yet) or "formatted"
  header,    \* the FileHeader at offset 0, once formatted
  cells,     \* what is in each cell behind offset 4096
  pc,        \* where each program is
  job,       \* the locals of the operation it runs
  promised,  \* history: <<b, content>> for each block an operation last reported on
  overlapped \* history: two operations have run at the same time

vars == <<file, header, cells, pc, job, promised, overlapped>>
history == <<promised, overlapped>>

Cells    == 0 .. CellCount - 1
Contents == {"zero", "ones", "text"}
Header   == [n : Nat, s : Nat, ubn : Nat, fbn : Nat, ub : SUBSET Nat]

\* header.n, s, ubn, fbn and the cleared bitmap of a fresh file.
Fresh(g) == [n |-> g.n, s |-> g.s, ubn |-> 0, fbn |-> g.n, ub |-> {}]

FreeBlocks(h) == {b \in 0 .. h.n - 1 : b \notin h.ub}

\* What the search loop finds: the first free block, or nothing.
FirstFree(h) == {b \in FreeBlocks(h) : \A c \in FreeBlocks(h) : b <= c}

\* The cells of block b, which starts at byte 4096 + b * s.
BlockCells(h, b) == b * h.s .. b * h.s + h.s - 1

\* A block's worth of bytes, as the three operations prepare it.
Ones(h)       == [i \in 0 .. h.s - 1 |-> "ones"]
Zeros(h)      == [i \in 0 .. h.s - 1 |-> "zero"]
Padded(h, k)  == [i \in 0 .. h.s - 1 |-> IF i < k THEN "text" ELSE "zero"]

\* init_File_dd has its header in memory; the file is to be made anew.
FormatJob(g) == [hdr |-> Fresh(g), block |-> 0, fill |-> Zeros(g)]

\* main() starts with the default geometry in its variables.
NoJob == FormatJob(Default)

Init ==
  /\ file = "absent"
  /\ header = Fresh(Default)
  /\ cells = [c \in Cells |-> "zero"]
  /\ pc = [p \in Procs |-> "off"]
  /\ job = [p \in Procs |-> NoJob]
  /\ promised = {}
  /\ overlapped = FALSE

------------------------------------------------------------------------------
Goto(p, l) == pc' = [pc EXCEPT ![p] = l]

\* The locals of an operation end with it.
Return(p, l) == Goto(p, l) /\ job' = [job EXCEPT ![p] = NoJob]

Running(p) == pc[p] \in {"create", "format", "zero", "save", "fill"}

\* An operation starts.  Programs that do not take turns are promised nothing.
BeginOperation(p) ==
  /\ overlapped' = (overlapped \/ \E q \in Procs \ {p} : Running(q))
  /\ promised' = IF overlapped' THEN {} ELSE promised

\* main(): a file that can be opened is used as it is, whatever is in it; one
\* that is missing is made.
Start(p) ==
  /\ pc[p] = "off"
  /\ \/ file = "absent" /\ Return(p, "create") /\ BeginOperation(p)
     \/ file # "absent" /\ Return(p, "menu") /\ UNCHANGED history
  /\ UNCHANGED <<file, header, cells>>

\* Choice 1: init_File_dd with the user's geometry.
ChooseInit(p) ==
  /\ pc[p] = "menu"
  /\ \E g \in Geometries : job' = [job EXCEPT ![p] = FormatJob(g)]
  /\ Goto(p, "create")
  /\ BeginOperation(p)
  /\ UNCHANGED <<file, header, cells>>

\* open(O_CREAT | O_RDWR): without O_TRUNC, old contents stay.
CreateFile(p) ==
  /\ pc[p] = "create"
  /\ file' = IF file = "absent" THEN "empty" ELSE file
  /\ Goto(p, "format")
  /\ UNCHANGED <<header, cells, job, history>>

\* The header structure is written, not the 4096 bytes kept for it.
WriteFreshHeader(p) ==
  /\ pc[p] = "format"
  /\ file' = "formatted"
  /\ header' = job[p].hdr
  /\ promised' = {}
  /\ Goto(p, "zero")
  /\ UNCHANGED <<cells, job, overlapped>>

\* n * s zeros follow the header at once, so the last Skew cells of the blocks
\* are not reached.
ZeroBlocks(p) ==
  /\ pc[p] = "zero"
  /\ LET h == job[p].hdr IN
       cells' = [c \in Cells |-> IF c + Skew < h.n * h.s THEN "zero" ELSE cells[c]]
  /\ Return(p, "menu")
  /\ UNCHANGED <<file, header, history>>

------------------------------------------------------------------------------
Take_NotCounted(h, b) == [h EXCEPT !.ub = @ \cup {b}, !.ubn = @ + 1]

\* Set the bit of a block and count it; clear it and count it.
Take(h, b)    == [h EXCEPT !.ub = @ \cup {b}, !.ubn = @ + 1, !.fbn = @ - 1]
Release(h, b) == [h EXCEPT !.ub = @ \ {b}, !.ubn = @ - 1, !.fbn = @ + 1]

\* An operation has read the header and changed its copy.
Prepared(p, h, b, fill) ==
  /\ job' = [job EXCEPT ![p] = [hdr |-> h, block |-> b, fill |-> fill]]
  /\ Goto(p, "save")
  /\ BeginOperation(p)
  /\ UNCHANGED <<file, header, cells>>

Readable(p) == pc[p] = "menu" /\ file = "formatted"

GetFreeBlock(p) ==
  /\ Readable(p)
  /\ \E b \in FirstFree(header) : Prepared(p, Take(header, b), b, Ones(header))

WriteToFreeBlock(p) ==
  /\ Readable(p)
  /\ \E k \in Texts, b \in FirstFree(header) :
       k <= header.s /\ Prepared(p, Take(header, b), b, Padded(header, k))

FreeBlock_Unchecked(p) ==
  /\ Readable(p)
  /\ \E b \in 0 .. header.n - 1 : Prepared(p, Release(header, b), b, Zeros(header))

FreeBlock(p) ==
  /\ Readable(p)
  /\ \E b \in 0 .. header.n - 1 :
       b \in header.ub /\ Prepared(p, Release(header, b), b, Zeros(header))

\* lseek to 0 and write of the whole header, in all three operations.
SaveHeader(p) ==
  /\ pc[p] = "save"
  /\ header' = job[p].hdr
  /\ promised' = {t \in promised : t[1] # job[p].block}
  /\ Goto(p, "fill")
  /\ UNCHANGED <<file, cells, job, overlapped>>

FillBlock_AtHeaderEnd(p) ==
  /\ pc[p] = "fill"
  /\ LET h == job[p].hdr
         b == job[p].block
     IN  /\ cells' = [c \in Cells |-> IF c + Skew \in BlockCells(h, b)
                                        THEN job[p].fill[c + Skew - b * h.s] ELSE cells[c]]
         /\ promised' = IF overlapped THEN {} ELSE promised \cup {<<b, job[p].fill>>}
  /\ Return(p, "menu")
  /\ UNCHANGED <<file, header, overlapped>>

\* The block itself; then the operation returns and reports success.
FillBlock(p) ==
  /\ pc[p] = "fill"
  /\ LET h == job[p].hdr
         b == job[p].block
     IN  /\ cells' = [c \in Cells |-> IF c \in BlockCells(h, b)
                                        THEN job[p].fill[c - b * h.s] ELSE cells[c]]
         /\ promised' = IF overlapped THEN {} ELSE promised \cup {<<b, job[p].fill>>}
  /\ Return(p, "menu")
  /\ UNCHANGED <<file, header, overlapped>>

\* check_fs, and an operation that refuses (no header, no free block, text too
\* long, index out of range or free already), read and change nothing.

\* The user leaves, the program dies, or a call of an operation fails: what the
\* operation has written stays.  A failing operation comes back to the menu,
\* which is where a restarted program comes to as well.
Stop(p) ==
  /\ pc[p] = "menu" \/ (Failing /\ Running(p))
  /\ Return(p, "off")
  /\ UNCHANGED <<file, header, cells, history>>

Step(p) ==
  \/ Start(p) \/ Stop(p)
  \/ ChooseInit(p) \/ CreateFile(p) \/ WriteFreshHeader(p) \/ ZeroBlocks(p)
  \/ GetFreeBlock(p) \/ WriteToFreeBlock(p) \/ FreeBlock(p)
  \/ SaveHeader(p) \/ FillBlock(p)

Next == \E p \in Procs : Step(p)

Spec == Init /\ [][Next]_vars

------------------------------------------------------------------------------
TypeOK ==
  /\ file \in {"absent", "empty", "formatted"}
  /\ header \in Header
  /\ cells \in [Cells -> Contents]
  /\ pc \in [Procs -> {"off", "menu", "create", "format", "zero", "save", "fill"}]
  /\ DOMAIN job = Procs
  /\ \A p \in Procs : /\ job[p].hdr \in Header /\ job[p].block \in Nat
                      /\ job[p].fill \in [0 .. job[p].hdr.s - 1 -> Contents]

\* What check_fs verifies of a header it has read.
CheckFs(h) ==
  /\ h.ubn = Cardinality(h.ub \cap 0 .. h.n - 1)
  /\ h.ubn + h.fbn = h.n

\* check_fs finds the file consistent whenever it is run, however many programs
\* use the file at once, whichever of them format it again with another
\* geometry, and wherever they die (os_day7/fileblk.c, lines 311 to 326).
CheckFsOK == file = "formatted" => CheckFs(header)

\* As long as programs take turns, the file holds what their operations
\* reported: a block returned by get_freeblock is all ones, one returned by
\* write_to_freeblock holds the text and its padding, one freed is all zero,
\* until an operation on the same block or a new format, through programs that
\* die and calls that fail at any point.
PromisesKept ==
  \A t \in promised : \A c \in BlockCells(header, t[1]) :
    cells[c] = t[2][c - t[1] * header.s]
=============================================================================
