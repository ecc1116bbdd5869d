---------------------------- MODULE FileBlk_proofs ----------------------------
(* Proofs about FileBlk, for any number of programs, any geometries and any   *)
(* texts: check_fs never finds an inconsistent file; and programs that take   *)
(* turns find in the file what their operations reported.                     *)
EXTENDS FileBlk, FiniteSetTheorems, TLAPS

\* A header whose counts are those of its bitmap.
Sound(h) ==
  /\ h \in Header
  /\ h.s > 0
  /\ h.n * h.s <= CellCount
  /\ h.ub \subseteq 0 .. h.n - 1
  /\ h.ubn = Cardinality(h.ub)
  /\ h.ubn + h.fbn = h.n

\* An operation's locals: a sound header, one of its blocks, a block's contents.
SoundJob(j) ==
  /\ Sound(j.hdr)
  /\ j.block \in 0 .. j.hdr.n - 1
  /\ j.fill \in [0 .. j.hdr.s - 1 -> Contents]

PCs == {"off", "menu", "create", "format", "zero", "save", "fill"}

IInv ==
  /\ file \in {"absent", "empty", "formatted"}
  /\ Sound(header)
  /\ cells \in [Cells -> Contents]
  /\ pc \in [Procs -> PCs]
  /\ DOMAIN job = Procs
  /\ \A p \in Procs : SoundJob(job[p])

------------------------------------------------------------------------------
\* The bitmap of a sound header is finite.
LEMMA BitmapFinite ==
  ASSUME NEW h, Sound(h)
  PROVE  IsFiniteSet(h.ub) /\ IsFiniteSet(0 .. h.n - 1) /\ Cardinality(0 .. h.n - 1) = h.n
<1>1. h.n \in Nat /\ h.ub \subseteq 0 .. h.n - 1
  BY DEF Sound, Header
<1>2. IsFiniteSet(0 .. h.n - 1) /\ Cardinality(0 .. h.n - 1) = h.n
  <2>1. /\ IsFiniteSet(0 .. h.n - 1)
        /\ Cardinality(0 .. h.n - 1) = IF 0 > h.n - 1 THEN 0 ELSE (h.n - 1) - 0 + 1
    BY <1>1, FS_Interval
  <2> QED BY <2>1, <1>1
<1> QED BY <1>1, <1>2, FS_Subset

\* Taking a free block leaves a sound header of the same geometry.
LEMMA TakeSound ==
  ASSUME NEW h, Sound(h), NEW b \in FreeBlocks(h)
  PROVE  Sound(Take(h, b)) /\ Take(h, b).n = h.n /\ Take(h, b).s = h.s
<1> DEFINE ub == h.ub \cup {b}
<1>1. h \in Header /\ b \in 0 .. h.n - 1 /\ b \notin h.ub
  BY DEF Sound, FreeBlocks
<1>2. IsFiniteSet(ub) /\ Cardinality(ub) = h.ubn + 1
  BY <1>1, BitmapFinite, FS_AddElement DEF Sound
<1>3. ub \subseteq 0 .. h.n - 1
  BY <1>1 DEF Sound
<1>4. Cardinality(ub) <= h.n
  <2>1. IsFiniteSet(0 .. h.n - 1) /\ Cardinality(0 .. h.n - 1) = h.n
    BY BitmapFinite
  <2> HIDE DEF ub
  <2>2. Cardinality(ub) <= Cardinality(0 .. h.n - 1)
    BY <1>3, <2>1, FS_Subset
  <2> QED BY <2>1, <2>2
<1>5. h.fbn - 1 \in Nat /\ h.ubn + 1 \in Nat
  BY <1>1, <1>2, <1>4 DEF Sound, Header
<1> HIDE DEF ub
<1>6. Take(h, b) = [n |-> h.n, s |-> h.s, ubn |-> h.ubn + 1, fbn |-> h.fbn - 1, ub |-> ub]
  <2>1. Take(h, b) = [[[h EXCEPT !.ub = ub] EXCEPT !.ubn = h.ubn + 1] EXCEPT !.fbn = h.fbn - 1]
    BY <1>1 DEF Take, Header, ub
  <2> QED BY <1>1, <2>1 DEF Header
<1>7. ub \in SUBSET Nat
  BY <1>1, <1>3 DEF Header
<1> QED BY <1>1, <1>2, <1>3, <1>5, <1>6, <1>7 DEF Sound, Header

\* Giving a used block back leaves a sound header of the same geometry.
LEMMA ReleaseSound ==
  ASSUME NEW h, Sound(h), NEW b \in h.ub
  PROVE  Sound(Release(h, b)) /\ Release(h, b).n = h.n /\ Release(h, b).s = h.s
<1> DEFINE ub == h.ub \ {b}
<1>1. h \in Header
  BY DEF Sound
<1>2. IsFiniteSet(ub) /\ Cardinality(ub) = h.ubn - 1
  BY <1>1, BitmapFinite, FS_RemoveElement DEF Sound
<1>3. h.ubn - 1 \in Nat /\ h.fbn + 1 \in Nat
  BY <1>1, <1>2, FS_CardinalityType DEF Header
<1>4. ub \subseteq 0 .. h.n - 1 /\ ub \in SUBSET Nat
  BY <1>1 DEF Sound, Header
<1> HIDE DEF ub
<1>5. Release(h, b) = [n |-> h.n, s |-> h.s, ubn |-> h.ubn - 1, fbn |-> h.fbn + 1, ub |-> ub]
  <2>1. Release(h, b) = [[[h EXCEPT !.ub = ub] EXCEPT !.ubn = h.ubn - 1] EXCEPT !.fbn = h.fbn + 1]
    BY <1>1 DEF Release, Header, ub
  <2> QED BY <1>1, <2>1 DEF Header
<1> QED BY <1>1, <1>2, <1>3, <1>4, <1>5 DEF Sound, Header

\* A header just made is sound.
LEMMA FreshSound ==
  ASSUME NEW g \in Geometries
  PROVE  SoundJob(FormatJob(g)) /\ FormatJob(g).hdr = Fresh(g)
<1>1. g \in [n : Nat \ {0}, s : Nat \ {0}] /\ g.n * g.s <= CellCount
  BY GeometryAssumption DEF GeometryAssumption
<1>2. Cardinality({}) = 0
  BY FS_EmptySet
<1>3. /\ Fresh(g).n = g.n /\ Fresh(g).s = g.s /\ Fresh(g).ub = {}
      /\ Fresh(g).ubn = 0 /\ Fresh(g).fbn = g.n
  BY DEF Fresh
<1>4. Fresh(g) \in Header
  <2>1. g.n \in Nat /\ g.s \in Nat
    BY <1>1
  <2>2. {} \in SUBSET Nat
    OBVIOUS
  <2> QED BY <2>1, <2>2 DEF Fresh, Header
<1>5. Sound(Fresh(g))
  BY <1>1, <1>2, <1>3, <1>4 DEF Sound
<1>6. FormatJob(g).hdr = Fresh(g) /\ FormatJob(g).block = 0 /\ FormatJob(g).fill = Zeros(g)
  BY DEF FormatJob
<1>7. Zeros(g) \in [0 .. g.s - 1 -> Contents]
  BY DEF Zeros, Contents
<1>8. 0 \in 0 .. Fresh(g).n - 1
  BY <1>1, <1>3
<1>9. Sound(FormatJob(g).hdr)
  BY <1>5, <1>6
<1>10. FormatJob(g).fill \in [0 .. FormatJob(g).hdr.s - 1 -> Contents]
  BY <1>3, <1>6, <1>7
<1> QED BY <1>6, <1>8, <1>9, <1>10 DEF SoundJob

\* So are the locals of a program that runs no operation.
LEMMA NoJobSound == SoundJob(NoJob)
  BY FreshSound, GeometryAssumption DEF NoJob, GeometryAssumption
------------------------------------------------------------------------------
\* The cells of a block, counted from its first one.
LEMMA BlockOffset ==
  ASSUME NEW h, h.s \in Nat, NEW b \in Nat, NEW c \in BlockCells(h, b)
  PROVE  c \in Int /\ c - b * h.s \in 0 .. h.s - 1
<1> DEFINE first == b * h.s
<1>1. first \in Nat
  OBVIOUS
<1>2. c \in first .. first + h.s - 1
  BY DEF BlockCells
<1> HIDE DEF first
<1>3. c \in Int /\ c - first \in 0 .. h.s - 1
  BY <1>1, <1>2
<1> QED BY <1>3 DEF first

\* A later block starts where the one before it ends, or further on.
LEMMA BlockOrder ==
  ASSUME NEW s \in Nat, NEW b \in Nat, NEW d \in Nat, b < d
  PROVE  b * s + s <= d * s
<1>1. (b + 1) * s <= d * s
  <2>1. PICK k \in Nat : d = (b + 1) + k
    <3>1. d - (b + 1) \in Nat /\ d = (b + 1) + (d - (b + 1))
      OBVIOUS
    <3> QED BY <3>1
  <2>2. d * s = (b + 1) * s + k * s /\ k * s \in Nat /\ (b + 1) * s \in Nat
    BY <2>1
  <2> QED BY <2>2
<1>2. (b + 1) * s = b * s + s
  OBVIOUS
<1> QED BY <1>1, <1>2

\* Different blocks share no cell.
LEMMA BlocksApart ==
  ASSUME NEW h, h.s \in Nat, NEW b \in Nat, NEW d \in Nat, b # d
  PROVE  BlockCells(h, b) \cap BlockCells(h, d) = {}
<1>1. b * h.s \in Nat /\ d * h.s \in Nat
  OBVIOUS
<1>2. b * h.s + h.s <= d * h.s \/ d * h.s + h.s <= b * h.s
  <2>1. b < d \/ d < b
    OBVIOUS
  <2> QED BY <2>1, BlockOrder
<1> QED BY <1>1, <1>2 DEF BlockCells

\* The blocks of a sound header lie within the room behind it.
LEMMA BlockInside ==
  ASSUME NEW h, Sound(h), NEW b \in 0 .. h.n - 1
  PROVE  BlockCells(h, b) \subseteq Cells
<1>1. h.n \in Nat /\ h.s \in Nat /\ b \in Nat /\ b < h.n
  BY DEF Sound, Header
<1>2. b * h.s + h.s <= h.n * h.s
  BY <1>1, BlockOrder
<1>3. b * h.s \in Nat /\ h.n * h.s \in Nat /\ CellCount \in Nat /\ h.n * h.s <= CellCount
  BY <1>1, GeometryAssumption DEF GeometryAssumption, Sound
<1> QED BY <1>1, <1>2, <1>3 DEF BlockCells, Cells

------------------------------------------------------------------------------
LEMMA InitIInv == Init => IInv
<1> SUFFICES ASSUME Init PROVE IInv
  OBVIOUS
<1>1. Sound(header)
  BY FreshSound, GeometryAssumption DEF Init, GeometryAssumption, SoundJob
<1>2. \A p \in Procs : SoundJob(job[p])
  BY NoJobSound DEF Init
<1> QED BY <1>1, <1>2 DEF IInv, Init, Contents, PCs

\* An operation that prepares a sound job for program p.
LEMMA PreparedIInv ==
  ASSUME IInv, NEW p \in Procs, NEW h, NEW b, NEW fill, Prepared(p, h, b, fill),
         Sound(h), b \in 0 .. h.n - 1, fill \in [0 .. h.s - 1 -> Contents]
  PROVE  IInv'
<1>1. SoundJob([hdr |-> h, block |-> b, fill |-> fill])
  BY DEF SoundJob
<1>2. \A q \in Procs : SoundJob(job'[q])
  BY <1>1 DEF IInv, Prepared
<1> QED BY <1>2 DEF IInv, Prepared, Goto, PCs, Sound

\* Every step of a program preserves the invariant.
LEMMA StepIInv == IInv /\ [Next]_vars => IInv'
<1> SUFFICES ASSUME IInv, [Next]_vars PROVE IInv'
  OBVIOUS
<1>0. CASE UNCHANGED vars
  BY <1>0 DEF vars, IInv, Sound
<1>1. ASSUME NEW p \in Procs, Step(p) PROVE IInv'
  <2>1. ASSUME NEW l \in PCs, Return(p, l), UNCHANGED <<file, header, cells>> PROVE IInv'
    BY <2>1, NoJobSound DEF IInv, Return, Goto, Sound
  <2>2. CASE Start(p)
    BY <2>2, <2>1 DEF Start, PCs
  <2>3. CASE Stop(p)
    BY <2>3, <2>1 DEF Stop, PCs
  <2>4. CASE ChooseInit(p)
    BY <2>4, FreshSound DEF ChooseInit, IInv, Goto, PCs, Sound
  <2>5. CASE CreateFile(p)
    BY <2>5 DEF CreateFile, IInv, Goto, PCs, Sound
  <2>6. CASE WriteFreshHeader(p)
    BY <2>6 DEF WriteFreshHeader, IInv, Goto, PCs, Sound, SoundJob
  <2>7. CASE ZeroBlocks(p)
    <3>1. cells' \in [Cells -> Contents]
      BY <2>7 DEF ZeroBlocks, IInv, Contents
    <3> QED BY <2>7, <3>1, NoJobSound DEF ZeroBlocks, Return, IInv, Goto, PCs, Sound
  <2>8. CASE GetFreeBlock(p)
    <3>1. PICK b \in FirstFree(header) : Prepared(p, Take(header, b), b, Ones(header))
      BY <2>8 DEF GetFreeBlock
    <3>2. b \in FreeBlocks(header) /\ b \in 0 .. header.n - 1 /\ Sound(header)
      BY DEF FirstFree, FreeBlocks, IInv
    <3>3. Ones(header) \in [0 .. header.s - 1 -> Contents]
      BY DEF Ones, Contents
    <3> QED BY <3>1, <3>2, <3>3, TakeSound, PreparedIInv
  <2>9. CASE WriteToFreeBlock(p)
    <3>1. PICK k \in Texts, b \in FirstFree(header) :
            k <= header.s /\ Prepared(p, Take(header, b), b, Padded(header, k))
      BY <2>9 DEF WriteToFreeBlock
    <3>2. b \in FreeBlocks(header) /\ b \in 0 .. header.n - 1 /\ Sound(header)
      BY DEF FirstFree, FreeBlocks, IInv
    <3>3. Padded(header, k) \in [0 .. header.s - 1 -> Contents]
      BY DEF Padded, Contents
    <3> QED BY <3>1, <3>2, <3>3, TakeSound, PreparedIInv
  <2>10. CASE FreeBlock(p)
    <3>1. PICK b \in 0 .. header.n - 1 :
            b \in header.ub /\ Prepared(p, Release(header, b), b, Zeros(header))
      BY <2>10 DEF FreeBlock
    <3>2. Sound(header)
      BY DEF IInv
    <3>3. Zeros(header) \in [0 .. header.s - 1 -> Contents]
      BY DEF Zeros, Contents
    <3> QED BY <3>1, <3>2, <3>3, ReleaseSound, PreparedIInv
  <2>11. CASE SaveHeader(p)
    BY <2>11 DEF SaveHeader, IInv, Goto, PCs, Sound, SoundJob
  <2>12. CASE FillBlock(p)
    <3> DEFINE h == job[p].hdr
               b == job[p].block
               fill == job[p].fill
    <3>1. cells' \in [Cells -> Contents]
      <4>1. h.s \in Nat /\ b \in Nat /\ fill \in [0 .. h.s - 1 -> Contents]
        BY DEF IInv, SoundJob, Sound, Header
      <4>2. \A c \in BlockCells(h, b) : fill[c - b * h.s] \in Contents
        BY <4>1, BlockOffset
      <4>3. cells' = [c \in Cells |-> IF c \in BlockCells(h, b) THEN fill[c - b * h.s] ELSE cells[c]]
        BY <2>12 DEF FillBlock
      <4> HIDE DEF h, b, fill
      <4> QED BY <4>2, <4>3 DEF IInv
    <3> QED BY <2>12, <3>1, NoJobSound DEF FillBlock, Return, IInv, Goto, PCs, Sound
  <2> QED BY <1>1, <2>2, <2>3, <2>4, <2>5, <2>6, <2>7, <2>8, <2>9, <2>10, <2>11, <2>12 DEF Step
<1> QED BY <1>0, <1>1 DEF Next

LEMMA Invariance == Spec => []IInv
  BY InitIInv, StepIInv, PTL DEF Spec

\* The variables and locals have their types; the counts of a header are never
\* negative, which rests on the bitmap and the counts changing together.
THEOREM Typing == Spec => []TypeOK
<1>1. IInv => TypeOK
  BY DEF IInv, TypeOK, SoundJob, Sound, Header, PCs
<1> QED BY <1>1, Invariance, PTL

\* check_fs finds the file consistent, for any number of programs at once, any
\* geometries and failures at any call.
THEOREM FileIsConsistent == Spec => []CheckFsOK
<1>1. IInv => CheckFsOK
  <2> SUFFICES ASSUME IInv PROVE CheckFs(header)
    BY DEF CheckFsOK
  <2>1. header.ub \cap 0 .. header.n - 1 = header.ub
    BY DEF IInv, Sound
  <2> QED BY <2>1 DEF IInv, Sound, CheckFs
<1> QED BY <1>1, Invariance, PTL

------------------------------------------------------------------------------
\* What the program that runs an operation, the only one, knows: the header it
\* is about to save differs from the file's in the bitmap only, and it fills a
\* block that nothing is promised of.
Knows(p) ==
  /\ \A q \in Procs : Running(p) /\ Running(q) => p = q
  /\ pc[p] = "zero" => promised = {}
  /\ pc[p] = "save" => job[p].hdr.n = header.n /\ job[p].hdr.s = header.s
  /\ pc[p] = "fill" => job[p].hdr = header /\ \A t \in promised : t[1] # job[p].block

TurnInv ==
  /\ \A t \in promised : /\ t[1] \in 0 .. header.n - 1
                         /\ t[2] \in [0 .. header.s - 1 -> Contents]
  /\ PromisesKept
  /\ overlapped => promised = {}
  /\ ~overlapped => \A p \in Procs : Knows(p)

\* Once operations have overlapped nothing is promised any more.
LEMMA OverlappedStep ==
  ASSUME TurnInv, [Next]_vars, overlapped'
  PROVE  promised' = {}
<1>0. CASE UNCHANGED vars
  BY <1>0 DEF vars, TurnInv
<1>1. ASSUME NEW p \in Procs, Step(p) PROVE promised' = {}
  <2>1. CASE BeginOperation(p)
    BY <2>1 DEF BeginOperation
  <2>2. CASE UNCHANGED history
    BY <2>2 DEF history, TurnInv
  <2>3. CASE WriteFreshHeader(p) \/ SaveHeader(p) \/ FillBlock(p)
    BY <2>3 DEF WriteFreshHeader, SaveHeader, FillBlock, TurnInv
  <2> QED
    BY <1>1, <2>1, <2>2, <2>3
    DEF Step, Start, Stop, ChooseInit, CreateFile, ZeroBlocks,
        GetFreeBlock, WriteToFreeBlock, FreeBlock, Prepared
<1> QED BY <1>0, <1>1 DEF Next

\* A step that leaves the file and the promises alone, of the only program that
\* runs an operation, to a place where nothing is known.
LEMMA QuietStep ==
  ASSUME IInv, TurnInv, ~overlapped, ~overlapped', NEW p \in Procs,
         NEW l \in {"off", "menu", "create", "format"}, Goto(p, l),
         \A q \in Procs \ {p} : job'[q] = job[q],
         l \in {"create", "format"} => \A q \in Procs \ {p} : ~Running(q),
         UNCHANGED <<header, cells, promised>>
  PROVE  TurnInv'
<1>1. \A q \in Procs \ {p} : pc'[q] = pc[q]
  BY DEF Goto, IInv
<1>2. pc'[p] = l
  BY DEF Goto, IInv
<1>3. ASSUME NEW q \in Procs PROVE Knows(q)'
  BY <1>1, <1>2, <1>3 DEF TurnInv, Knows, Running
<1> QED BY <1>3 DEF TurnInv, PromisesKept, BlockCells

\* An operation has prepared its header and its block, and no other one runs.
LEMMA PreparedTurn ==
  ASSUME IInv, TurnInv, ~overlapped, ~overlapped', NEW p \in Procs,
         NEW h, NEW b, NEW fill, Prepared(p, h, b, fill), pc[p] = "menu",
         h.n = header.n, h.s = header.s
  PROVE  TurnInv'
<1>1. /\ \A q \in Procs \ {p} : pc'[q] = pc[q] /\ job'[q] = job[q] /\ ~Running(q)
      /\ pc'[p] = "save" /\ job'[p].hdr = h
      /\ UNCHANGED <<file, header, cells, promised>>
  BY DEF Prepared, Goto, BeginOperation, IInv
<1>2. ASSUME NEW q \in Procs PROVE Knows(q)'
  BY <1>1, <1>2 DEF Knows, Running, TurnInv
<1> QED BY <1>1, <1>2 DEF TurnInv, PromisesKept, BlockCells

\* No step of a program that has its turn breaks a promise.
LEMMA StepTurn == IInv /\ TurnInv /\ [Next]_vars => TurnInv'
<1> SUFFICES ASSUME IInv, TurnInv, [Next]_vars PROVE TurnInv'
  OBVIOUS
<1>0. CASE UNCHANGED vars
  BY <1>0 DEF vars, TurnInv, Knows, Running, PromisesKept, BlockCells
<1>1. CASE overlapped'
  BY <1>1, OverlappedStep DEF TurnInv, PromisesKept
<1>2. ASSUME ~overlapped', NEW p \in Procs, Step(p) PROVE TurnInv'
  <2>0. /\ pc \in [Procs -> PCs] /\ DOMAIN job = Procs
        /\ SoundJob(job[p]) /\ Sound(header)
    BY DEF IInv
  <2>1. ~overlapped
    BY <1>2 DEF Step, Start, Stop, ChooseInit, CreateFile, WriteFreshHeader, ZeroBlocks,
       GetFreeBlock, WriteToFreeBlock, FreeBlock, Prepared, SaveHeader, FillBlock,
       BeginOperation, history
  <2>2. Knows(p)
    BY <2>1 DEF TurnInv
  <2>3. CASE Start(p) \/ Stop(p)
    BY <1>2, <2>0, <2>1, <2>3, QuietStep DEF Start, Stop, Return, BeginOperation, history
  <2>4. CASE ChooseInit(p)
    BY <1>2, <2>0, <2>1, <2>4, QuietStep DEF ChooseInit, BeginOperation
  <2>5. CASE CreateFile(p)
    BY <1>2, <2>0, <2>1, <2>2, <2>5, QuietStep DEF CreateFile, Knows, Running, history
  <2>6. CASE WriteFreshHeader(p)
    <3>1. /\ promised' = {} /\ pc'[p] = "zero"
          /\ \A q \in Procs \ {p} : pc'[q] = pc[q] /\ ~Running(q)
      BY <2>0, <2>2, <2>6 DEF WriteFreshHeader, Goto, Knows, Running
    <3>2. ASSUME NEW q \in Procs PROVE Knows(q)'
      BY <3>1, <3>2 DEF Knows, Running
    <3> QED BY <3>1, <3>2 DEF TurnInv, PromisesKept
  <2>7. CASE ZeroBlocks(p)
    <3>1. /\ promised = {} /\ promised' = {} /\ pc'[p] = "menu"
          /\ \A q \in Procs \ {p} : pc'[q] = pc[q] /\ ~Running(q)
      BY <2>0, <2>2, <2>7 DEF ZeroBlocks, Return, Goto, Knows, Running, history
    <3>2. ASSUME NEW q \in Procs PROVE Knows(q)'
      BY <3>1, <3>2 DEF Knows, Running
    <3> QED BY <3>1, <3>2 DEF TurnInv, PromisesKept
  <2>8. CASE GetFreeBlock(p)
    BY <1>2, <2>0, <2>1, <2>8, TakeSound, PreparedTurn DEF GetFreeBlock, FirstFree, Readable
  <2>9. CASE WriteToFreeBlock(p)
    BY <1>2, <2>0, <2>1, <2>9, TakeSound, PreparedTurn DEF WriteToFreeBlock, FirstFree, Readable
  <2>10. CASE FreeBlock(p)
    BY <1>2, <2>0, <2>1, <2>10, ReleaseSound, PreparedTurn DEF FreeBlock, Readable
  <2>11. CASE SaveHeader(p)
    <3>1. /\ pc'[p] = "fill" /\ job' = job /\ cells' = cells
          /\ header' = job[p].hdr /\ header'.n = header.n /\ header'.s = header.s
          /\ promised' = {t \in promised : t[1] # job[p].block}
          /\ \A q \in Procs \ {p} : pc'[q] = pc[q] /\ ~Running(q)
      BY <2>0, <2>2, <2>11 DEF SaveHeader, Goto, Knows, Running
    <3>2. ASSUME NEW q \in Procs PROVE Knows(q)'
      BY <3>1, <3>2 DEF Knows, Running
    <3>3. promised' \subseteq promised
      BY <3>1
    <3>4. \A t \in promised' : /\ t[1] \in 0 .. header'.n - 1
                              /\ t[2] \in [0 .. header'.s - 1 -> Contents]
      BY <3>1, <3>3 DEF TurnInv
    <3>5. PromisesKept'
      BY <3>1, <3>3 DEF TurnInv, PromisesKept, BlockCells
    <3> QED BY <1>2, <3>2, <3>4, <3>5 DEF TurnInv
  <2>12. CASE FillBlock(p)
    <3> DEFINE h == job[p].hdr
               b == job[p].block
               fill == job[p].fill
    <3>1. /\ h = header /\ header' = header /\ pc'[p] = "menu"
          /\ promised' = promised \cup {<<b, fill>>}
          /\ cells' = [c \in Cells |-> IF c \in BlockCells(h, b)
                                         THEN fill[c - b * h.s] ELSE cells[c]]
          /\ \A q \in Procs \ {p} : pc'[q] = pc[q] /\ ~Running(q)
          /\ \A t \in promised : t[1] # b
      BY <2>0, <2>1, <2>2, <2>12 DEF FillBlock, Return, Goto, Knows, Running
    <3>2. b \in 0 .. header.n - 1 /\ fill \in [0 .. header.s - 1 -> Contents]
      BY <2>0, <3>1 DEF SoundJob
    <3>3. \A c \in BlockCells(header, b) : cells'[c] = fill[c - b * header.s]
      BY <3>1, <3>2, <2>0, BlockInside
    <3>4. \A t \in promised : \A c \in BlockCells(header, t[1]) : cells'[c] = t[2][c - t[1] * header.s]
      <4> SUFFICES ASSUME NEW t \in promised, NEW c \in BlockCells(header, t[1])
                   PROVE  cells'[c] = t[2][c - t[1] * header.s]
        OBVIOUS
      <4>1. t[1] # b /\ t[1] \in 0 .. header.n - 1 /\ header.s \in Nat
        BY <3>1, <2>0 DEF TurnInv, Sound, Header
      <4>2. c \notin BlockCells(header, b)
        <5>1. t[1] \in Nat /\ b \in Nat
          BY <4>1, <3>2
        <5> QED BY <4>1, <5>1, BlocksApart
      <4>3. c \in Cells
        BY <4>1, <2>0, BlockInside
      <4>4. cells[c] = t[2][c - t[1] * header.s]
        BY DEF TurnInv, PromisesKept
      <4> QED BY <3>1, <4>2, <4>3, <4>4
    <3>5. ASSUME NEW q \in Procs PROVE Knows(q)'
      BY <3>1, <3>5 DEF Knows, Running
    <3>6. \A t \in promised : t[1] \in 0 .. header.n - 1 /\ t[2] \in [0 .. header.s - 1 -> Contents]
      BY DEF TurnInv
    <3> HIDE DEF h, b, fill
    <3>7. PromisesKept'
      BY <3>1, <3>3, <3>4 DEF PromisesKept, BlockCells
    <3> QED BY <1>2, <3>1, <3>2, <3>5, <3>6, <3>7 DEF TurnInv
  <2> QED BY <1>2, <2>3, <2>4, <2>5, <2>6, <2>7, <2>8, <2>9, <2>10, <2>11, <2>12 DEF Step
<1> QED BY <1>0, <1>1, <1>2 DEF Next

\* While programs take turns the file holds what their operations reported, for
\* any number of programs, geometries, texts and failures: rests on blocks
\* sharing no cell and on a promise being withdrawn with the header that
\* precedes the data.
THEOREM TurnsKeepPromises == Spec => []PromisesKept
<1>1. Init => TurnInv
  BY DEF Init, TurnInv, PromisesKept, Knows, Running
<1>2. TurnInv => PromisesKept
  BY DEF TurnInv
<1> QED BY <1>1, <1>2, StepTurn, Invariance, PTL DEF Spec
=============================================================================
