# A verification of the concurrent and persistent programs of Operating-Systems--Codespace

The repository is a course in ten "days": small C programs about processes,
shared memory, semaphores, threads and file systems. Most of them run once and
print. Nine keep state that several processes, threads or runs share; these are
modelled here in TLA+, checked with TLC on small instances and, for the
properties that matter most, proved with TLAPS for every value of the constants.

Paths below are relative to `src/`.

## 1. The system and its parts

The programs do not call each other. Within a program (or a family of programs)
the parts interact through a host file, a shared memory segment, or the memory
of one process.

### Block file system: `os_day9/sample.c`

* State: an image file. Block 0 is the super block (`first_free_block`), block 1
  the root directory; every other block is on the free list, in the chain of a
  file, or a directory. A block has 4088 bytes and `next_block`; a directory
  block has 170 whole entries of 24 bytes (type, 11 characters of name, first
  block, size).
* Operations: `mymkfs`, `mycopyTo`, `mycopyFrom`, `myrm`, `mymkdir`, `myrmdir`,
  `myreadBlock`, `mystat`. Each is a process of its own that reads the super
  block once and writes block by block.
* Interaction: one command hands over to the next through the image, so a
  command that dies between two writes is met by all later ones.
* Hard: chains that run into the free list, blocks with two owners, crashes
  between the writes of one command, failure half way through an allocation.
* Correct when: free list, files and directories never share a block, no block
  disappears silently, what `mystat` and `mycopyFrom` see agree, every command
  ends, and a user sees a tree in which each command takes effect at once.

### Block file system, later version: `os_day9/myfs_adv.c`

* State: an image as above, but chains end in -1, entries are stored in 21 of
  their 24 bytes, and a directory is a chain of blocks that grows.
* Operations: `mymkfs`, `mycopyto` (which first removes an existing file or
  directory of that name), `mycopyfrom`, `myrm` (directories too), `mymkdir`,
  `mystat`. The super block is read and saved again with every block that is
  taken or given back.
* Interaction: through the image, as above.
* Hard: a removal and a copy in one command; a directory that grows while it is
  entered; lookups that end at the first unused slot of a block; out of blocks
  at four different points; kills between any two writes.
* Correct when: every block in use has one pointer, the free list holds none of
  them, nothing disappears but what the code gives up, a text comes out as it
  came in as far as its size was stored, and no command touches another file.

### Bitmap block file: `os_day7/fileblk.c`

* State: `test.bin`, a header (`n`, `s`, `ubn`, `fbn`, a bitmap of 4096 bits) and
  equal blocks from byte 4096 on.
* Operations: `init_File_dd`, `get_freeblock`, `write_to_freeblock`,
  `free_block`, `check_fs`, from a menu. Each opens the file, reads the header,
  changes its copy, writes it back whole, then fills the block.
* Interaction: any number of menu programs on the one file; there is no lock.
* Hard: lost updates between programs, a death or a failing call between header
  and block, formatting a used file with another geometry (no `O_TRUNC`).
* Correct when: `check_fs` finds the counts consistent whatever happened, and a
  block holds what the operation that last returned success on it reported.

### Circular queue with a manager: `os_day6/circular_queue.c`, `mycq.c`

* State: a ring of `BUFFER_SIZE` ints with `front` and `rear`, a mutex, two
  condition variables, two arrays of thread ids with their counts.
* Operations: producer and consumer loops; the manager's `addProducer`,
  `addConsumer`, `removeProducer`, `removeConsumer` (a `pthread_cancel`).
* Hard: lost wakeups, spurious wakeups, overtaking newcomers, cancellation at a
  point where a thread has, or takes back, the mutex.
* Correct when: the ring is a bounded first-in first-out queue, the threads never
  all wait for each other, and a queue that can move does.

### Two-mutex hand-off: `os_day6/prodcons2.c`

* State: one shared int, `p_mutex`, and `c_mutex`, which main locks before any
  thread exists.
* Operations: a producer locks `p_mutex`, increments, unlocks `c_mutex`; a
  consumer locks `c_mutex`, prints, unlocks `p_mutex`.
* Hard: each mutex is unlocked by another thread than the one that locked it.
* Correct when: the two mutexes are one right to proceed, never doubled and never
  lost, so that every datum is consumed once before the next is produced.

### Flat file system: `os_day8/mymkfs.c`

* State: an image of metadata blocks and data blocks; slot *i* (12 characters of
  name and a size) describes data block *i*; the files and directories of the host.
* Operations: `mymkfs`, `mycopyto`, `mycopyfrom`, `myrm`, `showMetadata`,
  `showUsedBlocks`, each a program run.
* Hard: kills between the slot and its data, reuse of blocks that are not
  cleared, names that fill their slot and have no terminator, a directory given
  as the file, whose size is then -1.
* Correct when: what was copied in comes out, and a name has one slot.

### Shared memory task: `os_day4/shared mem/{server,worker,sharedmemory}.c`

* State: one `struct task` (`data`, `worker_pid`, `status` from -1 to 4).
* Operations: the server offers a string (status 1), waits for 3, prints, sets 4;
  a worker takes 1, sets 2, signs, computes the length, stores it in the first
  byte of the string, sets 3. Attaching stores
  -1, whoever attaches.
* Hard: no lock and no atomic operation: every load and store is a step of its
  own; workers race for one string, attach late, are interrupted at any point.
* Correct when: the length the server reports is that of the string it made, and
  the one a worker has stored over its first character; and an offer is answered
  as long as somebody is there to answer it.

### Shared memory task, variant: `os_day4/shared mem/testing/{server,client}.c`

* State: one `struct task` (`data`, `worker_pid`, `status` from -1 to 4).
* Operations: the server offers one random string after another, waits for 3 or
  -1, prints `strlen(data)` and the pid, sets 4; a client takes 1, sets 2, signs,
  stores the length in the first byte of the string itself, sets 3. The server's
  interrupt stores -1; attaching stores nothing.
* Hard: a client that is late for one string answers the next, or the next
  server; an empty string has a length that ends every other string; the -1 can
  be overwritten.
* Correct when: the length reported is that of the server's own string, by a
  client that computed it, unless a client was late; and nobody waits for ever
  while somebody is there to answer.

### Factorial hand-shake: `os_day4/shared mem/test.c`

* State: `n`, `parent_flag`, `child_flag` in shared memory; a parent and a child.
* Operations: the parent writes a number to `n`, sets `parent_flag` and spins on
  `child_flag`; the child spins on `parent_flag`, writes the factorial over `n`,
  sets `child_flag` and only then clears `parent_flag`.
* Hard: question and answer in one field, two flags that each side sets and the
  other reads, with no lock; the child's late store races with the next round.
* Correct when: the parent gets the factorial of its own number, and a request
  is answered unless its flag is cleared by that late store.

### Not modelled

| Part | Why |
|---|---|
| `os_day9/myfs_adv2.c` | the functions and the image of `myfs_adv.c`, but for `mystat` and the dispatch of `mymkdir`; its `mycopyto` says that it removes an existing file (line 465) and does not, so that the name is there twice |
| `os_day5/*.c` | command line wrappers of the System V semaphore calls, the state is the kernel's; `new_sem_soln.c` does not compile (line 114) |
| `os_day6/prodcon.c` | one mutex around an increment; consumers take no part in a protocol |
| `os_day6/thread_*.c` | threads that write disjoint rows and are joined |
| `os_day4/shared mem/{matmult,sampleshm,sampletest,twovariable}.c` | samples of the calls, no protocol |
| `os_day3`, `os_day4/forkNexec*.c`, `os_day10/shell.c` | fork, exec and wait; no state outlives a line of input |
| `os_day7/reg.c`, `sample1.c` | sequential record files |
| `os_day1`, `os_day2` | notes and boot sectors in assembly |

## 2. The modules

| Module | Models | Abstract specification | Proofs |
|---|---|---|---|
| `MyFS`, `MyFSView` | `os_day9/sample.c` | `FileTree` | `MyFS_proofs` |
| `FileBlk` | `os_day7/fileblk.c` | | `FileBlk_proofs` |
| `CircularQueue` | `os_day6/circular_queue.c` | `BoundedQueue` | `CircularQueue_proofs` |
| `ProdCons2` | `os_day6/prodcons2.c` | `HandOff` | `ProdCons2_proofs` |
| `AdvFS`, `AdvFSView` | `os_day9/myfs_adv.c` | | |
| `FlatFS` | `os_day8/mymkfs.c` | | `FlatFS_proofs` |
| `SharedTask` | `os_day4/shared mem/{server,worker,sharedmemory}.c` | | `SharedTask_proofs` |
| `TaskRounds` | `os_day4/shared mem/testing/{server,client}.c` | | `TaskRounds_proofs` |
| `HandShake` | `os_day4/shared mem/test.c` | | `HandShake_proofs` |

`MC*` modules only give values to constants. Definitions whose name ends in an
underscore and a remark (`PopFree_Stays`, `Init_CMutexFree`) are wrong on
purpose: no specification uses them; each is a plausible slip in the code that
some property must catch (section 4).

### Granularity

A step lies between two points where somebody else can act or the program can
die:

* `MyFS`, `AdvFS`, `FileBlk`, `FlatFS`: one action per `write` (with the computation before
  it). The locals of the command are in `run` or `job`, so that a value read early
  and used late is stale in the model when it is stale in the code.
* `ProdCons2`, `SharedTask`, `TaskRounds`, `HandShake`: one action per load or
  store of a shared field, and per mutex call.
* `CircularQueue`: one action per stretch under the mutex that nothing can
  interrupt; taking it, waiting, signalling with unlock, and every cancellation
  point are actions of their own.

### How state and actions correspond to the code

**MyFS.** `ffree` is the super block, `disk[b]` a block with `next` and both of its
readings, `slots` (as a directory) and `chunk` (which piece of which text).
`run` has the locals of the command in progress: `ff` is its copy of the super
block, `cur` and `nxt` its block numbers, `dirblk` its copy of the parent
directory read at the start. `CopyToBegin`, `CopyToAllocate`, `CopyToWriteFull`,
`CopyToWriteShort`, `CopyToEntry` are `mycopyTo` up to each write;
`CopyToNoSpace` and `CopyToDirFull` are its two returns marked "Should clean up
allocated blocks here". `Rm*`, `Mkdir*`, `Rmdir*` and `Mkfs*` likewise.
`NavigateToken` keeps the stride of 21 bytes with which
`navigate_to_directory` walks entries that are 24 bytes apart (`NavStride`);
`Passage` are the directories on the way, `Navigate` the last of them.
`tag`, `formatted` and `past` are history variables: what a block was last used
for, whether the last format ended, and what killed commands have left. `Kill`
may end any command between two writes, at most `MaxKills` times after a format.
A removal that is killed once it has freed a block leaves its entry behind, on
blocks that are free (`Victim`, `past.wrecks`); the user is assumed to leave such an
entry alone until the image is formatted (`AvoidsWrecks` in `Begin`; the program
does not check it), and the properties say what must hold of everything else.
`MyFSView` has the commands that only read, as functions of the image
(`CopyFrom`, `Stat`, and of `myreadBlock` the loop and the test of the block number,
`BlockReached` and `InRange`), and all properties.

**AdvFS.** `ffree`, `disk` and `run` are as in `MyFS`, with -1 for the end of a
chain. `allocate_zero_block`, `free_block_chain` and `add_dir_entry` are called
from several places; `run.use` says from which: `AllocSuper` and `AllocZero` are
the two writes of the first, `FreeBlock` and `FreeSuper` those of the second,
`AddEntry` and `LinkDir` the third, and `CopyToUndo`, `NewNoSpace`, `MkdirNoSpace`,
`DataNoSpace` the returns when no block is left. `ClearEntry` ends a removal, from
which `mycopyto` goes on to its copy. `WriteBlock` is one turn of
`write_file_data`, which allocates the next block before it writes this one.
`Listed` are the slots a lookup reads: those before the first unused one. Of a
size only the low byte is stored (`ByteRange`); what a reader finds in the others
is chosen from `HighBytes`. `past` names what the code has given up: blocks no
pointer leads to (`lost`), files whose copy did not end (`cut`), directory blocks
with an unused slot before a used one (`holed`), killed removals (`wrecks`), whose
entries the user is assumed not to use (`AvoidsWrecks`, as in `MyFS`).
`AdvFSView` has `mycopyfrom` and `mystat` as functions of the image, and the
properties.

**FileBlk.** `header` and `cells` are the file; a cell is a unit of bytes, so two
geometries lay different blocks over the same ones. `job[p]` is program p's copy
of the header with the block it took and the bytes it will write. `Prepared` is an
operation up to its first write, `SaveHeader` and `FillBlock` the two writes.
`Skew` is the distance between the end of the header structure (528 bytes), where
`init_File_dd` writes its zeros, and byte 4096, where blocks begin. `promised` and
`overlapped` are history: what operations have reported, and whether two of them
ever ran at the same time.

**CircularQueue.** `buffer`, `front`, `rear` are the ring, `mutex` its holder (or
`Gone` when a dead thread holds it), `producers` and `consumers` the manager's
arrays. `DieAsleep`, `DieWaiting`, `DiePrinting` are the places where a deferred
cancellation acts: `usleep`, `pthread_cond_wait` (which takes the mutex back
first) and, as glibc treats writing to a terminal, `printf`.

**ProdCons2.** The mutexes are `"free"` or `"held"`; `pc`, `reg` and `got` are the
threads' places and locals. Unlocking a mutex another thread locked is undefined
by POSIX for default mutexes; the model takes what a glibc build does, the mutex
becomes free. The print at line 160 reads the int outside any lock and is left
out: nothing depends on it.

**FlatFS.** `meta` and `data` are the image, `host` the files of the host, `run`
the command with its buffer. A file of the host may be a `Directory`: `mycopyto`
opens it, `read` returns -1 (`BytesRead`), and that goes into the slot; the writes
of -1 bytes that follow fail. A name in `Long` has twelve characters or more:
it is stored without a terminator, so the `strcmp` of the existence check reads on
into the size (`SameName`), while `myrm` and `mycopyfrom` use `strncmp` over twelve
characters (`SamePrefix`). `saved` is history.

**SharedTask.** `status`, `first` with `tail`, and `worker_pid` are the struct: of
`data` the first byte, and how many bytes follow it. The first byte is a `Letter`,
or the length that a worker has stored over it (`WorkerStore`, worker.c:34), or the
zero of a new segment; the letters are 65 to 90 and the length is 99 (`MaxLen`), so
that they differ. `length` is the worker's local. What the server prints is `Strlen`
when it is at `"report"`. `computed` and `happened` are history.

**TaskRounds.** `status`, `first` with `tail`, and `worker_pid` are the struct: of
the string only matters whether its first byte is zero and how many bytes follow.
`server` and `client` say where each process is, `ranlen` and `length` are their
locals. `ServerInterrupt` is the SIGINT handler, `ClientKilled` any death of a
client. `computed` and `happened` are history: who has stored a length in the
string on offer, and whether there was an empty string, a killed client, or a
client that answered an offer that was not there any more.

**HandShake.** The three fields are `n`, `parent_flag`, `child_flag`; `parent` and
`child` say which line each process is at. A waiting loop is an action that is
enabled when the loop ends. `asked`, `serving` and `lost` are history: they number
the requests, and name those whose flag the child cleared without having seen it.

### The abstract specifications

* `HandOff`: produce when empty, consume when full, and neither side stalls.
  `ProdCons2` maps `full` to "a datum is on its way to a consumer": `c_mutex`
  free, a producer about to free it, or a consumer that has it and has not read.
* `BoundedQueue`: `Put` and `Get` on a sequence of at most `BUFFER_SIZE - 1` items.
  `CircularQueue` maps it to the items from `front` to `rear`.
* `FileTree`: a set of nodes, each with its path; every command of a user is one
  step. `MyFSView!Tree` looks every path up in the image by name. It ignores the
  entry that a removal has begun to take apart: `myrm` takes effect with the first
  block it frees, and stays in effect when it is killed after that; `mycopyTo` and
  `mymkdir` take effect when they write the entry.

## 3. The runs

All runs ask for deadlock except those of `CircularQueue` and `HandShake`, where the
program really may stop: every thread waits and the user adds none; the parent
has had its last round, or waits for an answer to a lost request.

| Run | Instance | Shows |
|---|---|---|
| `prodcons2` | 2 producers, 3 consumers (as in the program), an int of 3 values | mutual exclusion, the right to proceed is never lost, only held mutexes are unlocked, and `HandOff` with its liveness |
| `myfs_structure` | 6 blocks of 2 bytes, directories of 2 slots, 3 names, files of 3 bytes, one kill of mkfs, copyTo, mkdir or rmdir | free list, chains and directories never share a block; nothing is lost but what copyTo or a kill gives up; names are unique |
| `myfs_tree` | 5 blocks, 2 names, 2 texts, files of 1 and 3 bytes, one kill of mkfs, copyTo or rm after each format, formatting in use | `FileTree`, with every command atomic; one owner per block also after a killed `myrm`; what the readers say agrees; every command ends |
| `adv_image` | 4 blocks of 2 bytes, directory blocks of 2 slots, 3 names, 1 directory that can be entered, texts of 0, 2 and 3 bytes, one kill of any command | one pointer per block, a sound free list, only known losses, texts that read back without a byte of another, lookups that fail only behind a hole, no command touches another file or directory |
| `fileblk_shared` | 2 programs, geometries 2x2 and 3x1 over the same 4 cells, any call failing | `check_fs` never complains; programs that take turns find what was reported |
| `queue_fifo` | 3 threads, ring of 3, 2 items, removals, spurious wakeups | `BoundedQueue` through cancellations anywhere |
| `queue_moves` | 4 threads, 2 of a kind at most, ring of 3, no removals | the threads never all wait; the queue moves |
| `flatfs_files` | 2 slots in 2 metadata blocks, 2 short names and a long one, texts of 1 to 3 bytes or a directory under each, blocks of 2, kills anywhere | what was copied in under a short name comes out; one slot per name |
| `task_protocol` | 3 workers, server restarts, interrupts | what is reported is the length of the server's string, and, of the first server, the one a worker has stored; offers are answered |
| `task_rounds` | 2 clients, strings of 0 to 2 characters, server interrupted and restarted, clients killed | the length reported is that of the server's string; nobody waits for ever |
| `handshake_rounds` | 3 numbers, 3 rounds | the parent gets the factorial of its number, the parent waits in vain only after a late store, and everything else is answered |
| `myfs_full_blocks` | a file of exactly one block | the violation of section 4 |

### Why the bounds are enough for the interesting cases

* `MyFS`: with blocks of 2 bytes, lengths 1 and 3 give chains of one and two
  blocks (a short read alone, a full read and a short one). The larger image
  has files of two blocks only, the smaller one both. Six blocks (four besides
  super block and root) let one file be removed while another or a directory
  lives, so that the free list is out of order, and let every allocation fail in
  turn. Two slots make a directory full after two entries and give
  `NavStride = 2` a slot it cannot see. One level of directories below the root is
  named by paths; more exist only if the user could enter them. One kill between
  two formats: each kind of command is killed in one of the two runs, and what it
  leaves is met by every sequence of later commands.
* `AdvFS`: three blocks besides the root are a file of two blocks and a directory,
  or a root that grows by a block and what is entered there, so that each of the
  four ways to run out of blocks happens. Two slots give a hole before an entry,
  and a directory that grows after its third. Three texts tell the blocks of one
  file from those of another: an empty one, one that fills its block and one that
  goes over into a second. With `ByteRange = 3` the lengths 0 and 2 fit in the stored
  byte and 3 does not; `HighBytes = {0, 1}` gives a reader the right size, one that is
  too small and one that is too large. Directories are made at two of the four paths
  (`DirPaths`), one inside the other.
* `FileBlk`: two programs are enough for every lost update; two geometries over the
  same cells make the blocks of one straddle those of the other; `Skew` is less
  than the whole, so that a format reaches some old blocks and not others.
* `CircularQueue`: a ring of three has both a partly filled state and the wrap;
  two producers and two consumers give a waiter, a newcomer that overtakes it and
  both sides at once. `NeverAllWaiting` is also proved for any number.
* `FlatFS`: three names on two slots; a metadata block of one slot makes a killed
  `mymkfs` leave part of a directory.
* `SharedTask`: three workers, so that one can attach while two race. A string of
  three characters has a first byte that is neither 0 nor the length.
* `TaskRounds`: two clients, one that is late and one that is in time. A string of
  one character is cut to nothing by a stored zero, one of two loses its first
  letter and has a tail; rounds and restarts are not bounded.
* `HandShake`: three rounds, so that the late store of the first can hit the second
  and that of the second the third; the numbers have different factorials
  (1, 2, 6), of which two are also questions. The invariants are proved for any.

`SYMMETRY` is used only where there is no liveness (`myfs_structure`, `adv_image`,
`fileblk_shared`, `flatfs_files`), over names or programs that no constant tells
apart.

### Fairness

* `ProdCons2`: weak fairness of each thread. It includes the return of `getchar`,
  that is, a user who answers every prompt; at the end of input it returns by
  itself.
* `MyFS`: weak fairness of the command in progress: nothing in a command waits.
* `AdvFS`: none, as nothing about it is a liveness property.
* `TaskRounds`: weak fairness of the server and of each client once they run: both
  poll. Starting, interrupting and killing are not fair.
* `CircularQueue`: weak fairness of each thread that can run. A free mutex is not
  promised to any thread in particular, and no spurious wakeup is counted on.
* `HandShake`: weak fairness of the two processes: both spin.
* `SharedTask`: weak fairness of each running process. No user action, attach,
  restart, interrupt or kill is fair anywhere.

### Each property can fail

For every property of a passing run `PROJECT.json` names a slip in a definition
that models code (a dropped guard, a missing unlock, an index without its wrap, a
wrong signal) under which TLC finds the property violated in the same run.

## 4. What the code does that its comments do not say

One run ends in a violation, `myfs_full_blocks`; `PROJECT.json` quotes the lines.

**A file whose last block is full** (`os_day9/sample.c:288`). `mycopyTo`
allocates a next block after every full read, also the last. That block is
never written and its `next_block` still leads down the free list, so `myrm`
pushes free blocks on the free list again and the list becomes a cycle.
An empty file does the same with its first block. The passing runs of `MyFS`
therefore exclude lengths that are multiples of the block size, zero included:
what they show is shown of files that end in a short block. `myfs_adv.c` does not
do this: it allocates only when bytes are left (`NeedsNext`).

Seen while modelling and built into the models, without a run of their own:

* `os_day9/sample.c:524`: `myrm` saves the freed blocks before it clears the entry.
  Killed in between it leaves an entry whose blocks the next file will get; to use
  that entry again damages that file (`past.wrecks`).
* `os_day9/sample.c:80`: `mymkfs` with one or two blocks writes the last block of the
  free list over the super block or the root; `NBlocks >= 3`.
* `os_day9/sample.c:305` (also `:172`, `:629`, `:740`, `:1073`): the loops over a
  directory go on to a 171st entry, which begins at byte 4080 of 4088 and ends in
  `next_block` and on the stack. `Slots` are the 170 whole ones: what a directory with
  170 entries in use does is undefined.
* `os_day9/sample.c:859`: `myreadBlock` returns 0 when it has read the block, and
  `main` writes as many bytes of it (line 1174): the command prints "read
  successfully" and nothing of the file. `StatIsRight` is about the block numbers it
  accepts, not about what it shows.
* `os_day9/sample.c:146`: the stride of 21 bytes; a directory outside every seventh
  slot cannot be entered.
* `os_day9/sample.c:291` and `:319`: blocks of a failed copy are lost, as the
  comments there admit. `NothingLost` allows exactly these.
* `os_day9/sample.c:251` and `os_day8/mymkfs.c:143`: a name of more than 11 characters
  is not recognised by the existence check. The runs of `MyFS` use names that fit;
  that of `FlatFS` has such a name, and its properties speak of the short ones.
* `os_day9/myfs_adv.c:1002` and `:1016`: a block of 4096 bytes is read into, and
  written from, a local of 16. A build without optimisation overwrites its own
  return address with the zeros behind the super block and dies before it has
  changed anything; the model is of a build whose stack leaves room for it.
* `os_day9/myfs_adv.c:1344`: entries are 24 bytes in memory and 21 in the image, so
  that `fsize` keeps its low byte only. `FilesReadBack` says what still comes out.
* `os_day9/myfs_adv.c:1065`: a lookup ends at the first unused slot of a block. What
  lies behind an entry that `myrm` has cleared cannot be found, copied out or
  removed, and can be made a second time (`AllFoundUnlessHoled`).
* `os_day9/myfs_adv.c:1312`: `mymkdir` that finds no block for a full parent leaves
  the block of the new directory lost; `mycopyto` gives its block back.
* `os_day9/myfs_adv.c:1534`: removing a directory frees its own chain; the files in
  it are lost (`past.lost`).
* `os_day9/myfs_adv.c:1270`: `mycopyto` prints "File copied successfully" also when
  `write_file_data` ran out of blocks half way (line 1366).
* `os_day7/fileblk.c:51`: a header of 528 bytes is written and the zeros begin there,
  not at 4096 (`Skew`): the last blocks of a file formatted again keep their
  contents.
* `os_day4/shared mem/worker.c:31`: with two workers on one string, the one whose pid
  is in the struct when status becomes 3 may not have computed anything, although
  `sharedmemory.h:12` says that it has.
* `os_day4/shared mem/server.c:61`: `sharedmemory.h:13` says that the server "is using
  the "length" available in data[ ] computed by a worker process". It takes
  `strlen(data)` once more itself, and the worker has overwritten `data[0]` only
  (worker.c:34). The two numbers agree as long as the stored length is not a zero,
  which would end the string: `ReportsTheLength` says that they do.
* `os_day4/shared mem/testing/client.c:41`: two clients may take one string, and the
  slower one then answers a later one: the server reports before anybody has
  computed, or one string twice. If the earlier string was empty, its length, a
  zero, goes over a letter of the later one. `ReportsItsString` says that nothing
  else goes wrong.
* `os_day4/shared mem/testing/server.c:28`: a client at work when the server is
  interrupted stores 2 or 3 over the -1; the other clients then poll for ever.
* `os_day6/circular_queue.c:135`: cancellation in `pthread_cond_wait` takes the mutex
  back and there is no cleanup handler: removing a thread that waits, or prints,
  leaves the mutex locked for good (`Gone`). `queue_fifo` goes through it: the ring
  stays a queue, but stops.
* `os_day4/shared mem/test.c:72`: the child clears `parent_flag` after it has set
  `child_flag`; by then the parent may have asked again, and that request is gone:
  both spin for ever. `StuckOnlyIfLost` and `AnsweredUnlessLost` say that this is
  the only way to stall.
* `os_day8/mymkfs.c:237`: `mycopyfrom` does not truncate a longer file of the host.
* `os_day8/mymkfs.c:73`: showing a file of exactly one block writes a terminator
  one byte past the buffer, and one of size -1 a byte before it (`FileBytes` is
  what it reads, not how it prints).
* `os_day8/mymkfs.c:191`: a directory of the host gets a slot with size -1, which can
  be removed like any other.
* `os_day4/shared mem/sharedmemory.c:42`: a worker that attaches stores -1 and ends
  a running server.
* `os_day4/shared mem/server.c:63`: after status 4 nothing sets 0 again: a server
  offers one string.

## 5. The proofs

`tlapm` checks every leaf (SMT, Zenon, and LS4 for temporal steps). Nothing is
assumed but the named assumptions of each module.

| Theorem | For every | Says |
|---|---|---|
| `ProdCons2_proofs!MutualExclusion`, `NeverStuck`, `UnlocksAreLegal`, `Typing` | sets of producers and consumers, width of the int | the invariants of the run |
| `ProdCons2_proofs!HandOffRefinement` | same | every step is a step of `HandOff` or a stutter |
| `FileBlk_proofs!Typing`, `FileIsConsistent` | programs, geometries, texts, `Skew` | `check_fs` never complains |
| `FileBlk_proofs!TurnsKeepPromises` | same | programs that take turns find what was reported |
| `CircularQueue_proofs!Typing`, `NoLostWakeup` | threads, `BUFFER_SIZE >= 2` | without removals the threads never all wait |
| `CircularQueue_proofs!RingIsAQueue` | same, with removals and cancellations | every step of the ring is a step of `BoundedQueue` or a stutter |
| `MyFS_proofs!Typing`, `BlocksHaveOneOwner`, `BlocksAccountedFor` | image sizes, slots, paths, texts, numbers of kills, if `NoFullBlocks` | the invariants of `myfs_structure` |
| `MyFS_proofs!NamesAreUnique` | same, if also `WholeNames` | names in a directory are distinct |
| `MyFS_proofs!OwnBlocksFreed` | same as the first | `myrm` frees blocks of files only, the property `myfs_full_blocks` refutes without `NoFullBlocks` |
| `MyFS_proofs!TreeOfFiles` | same, if also `WholeNames` and `PathsClosed` | every step is a step of `FileTree` or a stutter: the property `ImplementsFileTree` of `myfs_tree` |
| `MyFS_proofs!SizesAgree` | same, if `NoFullBlocks` and `WholeNames` | a file's size is what `mycopyFrom` writes and fills the blocks used, `myreadBlock` accepts the block numbers at which there are bytes of it, entries are counted right: the invariant `StatIsRight` of `myfs_tree` |
| `FlatFS_proofs!Typing`, `OneSlotPerName`, `CopiedInComesOut` | names, contents, image sizes | the invariants of the run |
| `SharedTask_proofs!Typing`, `LengthReported` | workers, length | the server prints the length of its string, and the first server one that a worker has stored too |
| `TaskRounds_proofs!Typing`, `ReportedLength` | clients, lengths | what the server reports is the length of its own string and computed, or a client was late |
| `HandShake_proofs!Typing`, `AnswerToTheQuestion`, `EachRequestOnce`, `OnlyLossStalls` | sets of numbers, rounds | the safety properties of the run; `EachRequestOnce`, which no run repeats, that no request is served twice |

Assumptions: `ThreadsAssumption`, `IntRangeAssumption` (both kinds of thread exist,
the int has a value); `GeometryAssumption` (what a user enters is positive, at most
4096 blocks, within the cells); `QueueAssumption`; `FlatAssumption` (short names are
told apart by their first twelve characters); `TaskAssumption` (a letter is not zero and not the length);
`HandShakeAssumption` (the numbers are positive). The code does not
check the user's geometry; outside the assumption its behaviour is undefined.

The theorems about `MyFS` have hypotheses on constants, which name what the code
gets wrong (section 4). `NoFullBlocks`: no length is a multiple of the block size.
With such a length every one of these invariants fails. `WholeNames`: an entry
holds a name to its last character. Longer names are stored twice. `PathsClosed`
says nothing of the code: the paths a user types (`DirPaths`) are to include
those of the directories above, as the tree is only looked at along them. The runs
`myfs_structure` and `myfs_tree` satisfy all three.

### Why the invariants are what they are

* **ProdCons2.** Exclusion is not inductive: it does not say that the mutex a thread
  is about to free is held. `IInv` adds `OneRight`, that the right to proceed is in
  one place: `p_mutex`, `c_mutex` or one thread. `FreshLoad` (what was loaded is
  still the datum) is what the refinement needs for the increment.
* **FileBlk.** The header on disk is sound, but a program may at any time replace it
  by its own copy, made from an older one. So `IInv` says that *every* program's
  copy is sound by itself: writes are whole headers, and lost updates lose blocks,
  not consistency. For the promises, `TurnInv` adds that while operations have
  taken turns at most one is running, that its copy has the geometry of the header
  on disk, and that it fills a block nothing is promised of (`Knows`); the
  geometry lemmas (`BlocksApart`, `BlockInside`) say that filling one block leaves
  the others alone.
* **CircularQueue.** `WInv`: while the queue is not full and there is a producer, one
  that does not wait is there to look at it, or a consumer is about to wake one
  (`ProducerComes`); the other way round for consumers of a queue that is not
  empty (`ConsumerComes`). A ring of two places or
  more cannot be full and empty at once (`NextSlot`), which gives the theorem.
  The refinement needs the arithmetic of the ring only (`AroundTheRing`): going
  around it, the places from `front` to `rear` are as many as are queued, and the
  next one to fill is not among them.
* **MyFS.** `Chain` is a recursive function over the number of steps. Induction is
  over sets of numbers (`Induct`, from the library's `WFMin`), which gives a theory
  of chains: a chain that ends passes each block once (`Distinct`), its blocks begin
  chains of their own (`Within`), a pointer elsewhere leaves it alone (`Untouched`),
  a block in front lengthens it (`InFront`), a zero shortens it (`Cut`). After
  that a chain is a set of blocks and the question whether it ends. `IInv` says
  who has each block, by its tag: what is tagged free is what the free list
  leads to (`FreeBlocks`; during a removal, the list in memory); what is tagged file
  is on the chain of one entry in use, or still to be freed (`FileBlocks`); each
  directory block has one entry (`DirBlocksOwned`). `OneOwner` is not
  inductive because a `mycopyTo` under way holds a chain that runs on *through* the
  free list until its last block is written, and a block taken twice would be one
  that `OneOwner` does not see; `HeldBlocks` says what hangs together there, and why a
  short last block cuts it. `Target` says that a removal has the entry it started
  with. Before it was proved, TLC checked `IInv` on six blocks, two names, files of
  one and two blocks and a kill of any command.
* **MyFS as a `FileTree`.** The properties above are about blocks, the tree is about
  names and texts, and `IInv` does not speak of texts. `TInv` does: the entries of a
  directory are files and directories, under names of users (`DirTypes`); and the
  blocks a `mycopyTo` has written so far are its text, numbered along the chain from
  0, up to the block that waits to be written (`CopyTexts`). Its induction uses
  `IInv`: only `HeldBlocks` rules out that a block is taken that was already written
  and is still held. Of finished
  files nothing need be said: nobody writes to a block of one before it is removed
  (`FileBlocks`).
  `View` is the image as a user sees it, the entry of each name in each directory;
  `Look` follows a path in it, and `Tree` is the image of `View` along the paths
  (`TreeInView`). The entry of a removal that has begun is not in the view, as the
  tree too ignores it. In a view where two entries never lead to the same directory
  (`Treelike`, from `DirBlocksOwned`), one path at most leads to a directory
  (`OnePath`), so that one more entry gives one more path (`LookMore`) and one more
  node in the tree, or none if no path that the user types leads there (`TreeMore`).
  Then every action leaves the view as it is (`TreeAtBegin`, `TreeMaking`,
  `TreeFreeing`, `TreeSuper`, `TreeCleared`, `TreeKilled`), adds one entry
  (`TreeCopied`, `TreeDirMade`), takes one away (`TreeRemoved`, `TreeDirRemoved`), or
  belongs to `mymkfs` (`TreeMade`). That a killed removal stays invisible is the
  delicate part: `past.wrecks` takes over from `Victim` what the view leaves out.
* **What `mystat` says.** The code never compares the size in an entry with the length
  of the chain: both follow from how the host file was read. `SInv` says how: of a
  `mycopyTo`, the chain from its first block is the `k` blocks written and then the
  rest from `run.cur`, which still runs through the free list, and `k` whole blocks
  and what is left to read are the size (`CopySize`). The short last block cuts the
  free list off (`CutSize`), so that the chain has `k + 1` blocks; from then on every
  step leaves a file as long as it is (`OldFiles`, which the lemmas on the tree give
  as well). `mycopyFrom` takes a whole block off each link and the remainder of the
  size off the last block, which alone leads nowhere (`LastLink`); their sum is the
  size (`SumOf`, by induction on the positions that the library's fold takes away).
  `myreadBlock` follows links with a count and no look at the size: by induction on
  the links, what is left of the chain is shorter by one each time (`InRangeIs`), so
  that it accepts the numbers below the length of the chain, which are those of the
  blocks that begin before the end of the size (`WholeBefore`).
  With a length that is a multiple of the block size none of this is true, which is
  why the theorem needs `NoFullBlocks` too. Slots and names of a directory are paired
  off by `NamesUnique`'s half of `IInv` (`NewName`).
* **TaskRounds.** `InTurn`: unless a client was late, at most one is at work and the
  server leaves the string alone meanwhile; `Answer`: what is known of the answer
  at each of its places.
* **FlatFS.** `NamesUnique` needs that a `mycopyto` in progress still has a free slot
  and a name nobody has (`CopyInv`). `RoundTrip` needs that the block a copy is
  writing belongs to the slot it has taken (`DataInv`), and that a half done
  `mymkfs` has cleared the slots behind it (`MkfsInv`), so that a data block
  is only erased when no slot speaks for it.
* **SharedTask.** `FInv`, of any server: nobody takes or reports a string before it
  was filled, and what a worker is about to store is the length, so that nobody
  stores a zero into the string. `RInv`, of the first: before its offer it has the
  block to itself but for the -1 of an attaching worker; a 0 means that nobody is at
  work; and a done worker, or a status of 3 or 4, comes after a length in the first
  byte.
* **HandShake.** `Turns` says which places of the two processes go together,
  `Field` whose number is in `n` at each of them, `Count` that a flag the child has
  not looked at belongs to a later request than the one it served last. The late
  store is possible only when the answer has been read and the next request made,
  which is `child = "lower"` in `Count`.

### Only model-checked

* Liveness: `QueueMoves`, `OfferAnswered`, `CommandsFinish`, `AnsweredUnlessLost`,
  `NobodyLeftWaiting`, and the liveness of `HandOff`. Temporal properties under fairness are out of reach of this prover.
* All properties of `AdvFS`. Its directories are chains in which a lookup stops at
  the first unused slot, and what is in use is a closure over both kinds of pointer
  (`Reach`).

## 6. What the models leave out

* Bytes, formatting and terminal output, except where a property speaks of them.
* Failing system calls in `MyFS` and `FlatFS` (in `FileBlk` any call may fail).
* A `write` that is only partly done: a write is one step, the header of
  `FileBlk` included.
* `MyFS`, `AdvFS`: what becomes of an image whose user goes on using an entry that
  a killed removal left behind.
* `MyFS`: images of fewer than three blocks; directories of 170 entries; what
  `myreadBlock` prints; `mywriteBlock`, which `main` never calls.
* `MyFS`, `AdvFS`: commands on an image whose `mymkfs` was killed half way: the next
  thing the user does is to format it again.
* `FileBlk`: no property speaks of the file that is still empty because its creator
  died before the header; operations on it fail, and `check_fs` prints a read error.
* `AdvFS`: names of twelve characters or more; the path "/" for other commands than
  `mystat`; the stack of a build that dies in `get_superblock`.
* `FlatFS`: an image whose first `mymkfs` never ended.
* `CircularQueue`: choice 5, which ends the program.
* `SharedTask`, `TaskRounds`, `HandShake`: the memory model is sequentially
  consistent, as x86 keeps the order of stores, and a compiled loop is taken to
  read the field each time. The bytes of one string are stored in two steps, the
  first and the rest.

## 7. Plan

Done: the nine programs above, their abstract specifications and runs, and the
theorems of section 5, among them all safety properties of `MyFS` and that it
implements `FileTree`. Next, in this
order:

1. **The invariants of `AdvFS`**, on the chain theory of `MyFS_proofs`.
2. **An abstract hand-off for `HandShake`, `SharedTask` and `TaskRounds`**: a request
   channel that may lose or repeat a request only where the code does.
