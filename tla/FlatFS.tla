-------------------------------- MODULE FlatFS --------------------------------
(****************************************************************************)
(* os_day8/mymkfs.c: an image file with one directory.  Metadata slot i     *)
(* describes data block i, and a file is at most one block long.  Each      *)
(* command is a program run of its own; a write call is one step, and the   *)
(* program may be killed between two of them.  One command runs at a time.  *)
(*                                                                          *)
(* Names stand for the paths a user gives.  A name of FILENAME_LEN (12)     *)
(* characters or more is stored as its first twelve, with no terminator, so *)
(* that strcmp reads on into the size: Ends says at which sizes the rest of *)
(* the name equals the bytes of the size.                                   *)
(****************************************************************************)
EXTENDS Integers, Sequences, FiniteSets

CONSTANTS
  Names, Long, Prefix, Ends,
  Bytes,           \* what a file may hold, zero apart
  HostContents,    \* what the user writes to each file of the host
  METADATA_BLOCKS,
  PerBlock,        \* slots in a metadata block: BLOCK_SIZE \div METADATA_SIZE
  BLOCK_SIZE,
  NoFile,
  Directory,       \* a directory of the host, of at most one block
  Kills            \* TRUE when a command may be killed

FlatAssumption ==
  /\ Long \subseteq Names
  /\ \A m, n \in Names : m \notin Long \/ n \notin Long => (Prefix[m] = Prefix[n] <=> m = n)
  /\ METADATA_BLOCKS \in Nat \ {0} /\ PerBlock \in Nat \ {0} /\ BLOCK_SIZE \in Nat \ {0}
  /\ 0 \notin Bytes
  /\ HostContents \in [Names -> SUBSET (Seq(Bytes) \cup {Directory})]
  /\ \A n \in Names : Prefix[n] # NoFile
  /\ Kills \in BOOLEAN
ASSUME FlatAssumption

DATA_BLOCKS == METADATA_BLOCKS * PerBlock
Slots       == 0 .. DATA_BLOCKS - 1

VARIABLES
  meta,     \* the slots: a name and a size; NoFile when the first byte is 0
  data,     \* the data blocks
  made,     \* TRUE once mymkfs has written every block of the image
  host,     \* the files and directories of the host by name
  run,      \* the command that runs: its name, its next block or slot, its buffer
  saved     \* <<n, bytes>> for each file copied in and not removed or erased since

vars == <<meta, data, made, host, run, saved>>

Unused    == [name |-> NoFile, size |-> 0]
ZeroBlock == [k \in 1 .. BLOCK_SIZE |-> 0]
Idle      == [cmd |-> "none", at |-> 0, name |-> NoFile, bytes |-> <<>>]

\* A slot that showMetadata lists.
Used(i) == meta[i].name # NoFile

\* strncmp over twelve characters, and strcmp on a name that may lack its end.
SamePrefix(i, n) == Used(i) /\ meta[i].name = Prefix[n]
SameName(i, n)   == SamePrefix(i, n) /\ (n \in Long => meta[i].size \in Ends[n])

\* The slot a search loop stops at: the first one of S, if any.
First(S) == {i \in S : \A j \in S : i <= j}
Lookup(n) == First({i \in Slots : SamePrefix(i, n)})

\* b written over the start of a block or a file.
Over(b, old) == [k \in DOMAIN old |-> IF k \in DOMAIN b THEN b[k] ELSE old[k]]

Init ==
  /\ meta = [i \in Slots |-> Unused]
  /\ data = [i \in Slots |-> ZeroBlock]
  /\ made = FALSE
  /\ host = [n \in Names |-> NoFile]
  /\ run = Idle
  /\ saved = {}

------------------------------------------------------------------------------
HostWrite ==
  /\ \E n \in Names : \E b \in HostContents[n] : host' = [host EXCEPT ![n] = b]
  /\ run = Idle
  /\ UNCHANGED <<meta, data, made, run, saved>>

\* mymkfs writes zeros over all blocks, metadata first, truncating nothing.
MkfsBegin ==
  /\ run = Idle
  /\ run' = [Idle EXCEPT !.cmd = "mkfs"]
  /\ UNCHANGED <<meta, data, made, host, saved>>

SlotsOf(k) == k * PerBlock .. k * PerBlock + PerBlock - 1

MkfsMetadata ==
  /\ run.cmd = "mkfs" /\ run.at < METADATA_BLOCKS
  /\ meta' = [i \in Slots |-> IF i \in SlotsOf(run.at) THEN Unused ELSE meta[i]]
  /\ saved' = {s \in saved : \A i \in SlotsOf(run.at) : ~SamePrefix(i, s[1])}
  /\ run' = [run EXCEPT !.at = @ + 1]
  /\ UNCHANGED <<data, made, host>>

MkfsData ==
  /\ run.cmd = "mkfs" /\ run.at >= METADATA_BLOCKS
  /\ data' = [data EXCEPT ![run.at - METADATA_BLOCKS] = ZeroBlock]
  /\ IF run.at = METADATA_BLOCKS + DATA_BLOCKS - 1
       THEN run' = Idle /\ made' = TRUE
       ELSE run' = [run EXCEPT !.at = @ + 1] /\ UNCHANGED made
  /\ UNCHANGED <<meta, host, saved>>

------------------------------------------------------------------------------
\* What read returns, which goes into the slot untested: -1 for a directory.
BytesRead(b) == IF b = Directory THEN -1 ELSE Len(b)

CopyToBegin_NoCheck(n) ==
  /\ run = Idle /\ made
  /\ host[n] # NoFile
  /\ BytesRead(host[n]) <= BLOCK_SIZE
  /\ \E i \in First({j \in Slots : ~Used(j)}) :
       run' = [cmd |-> "copyTo", at |-> i, name |-> n, bytes |-> host[n]]
  /\ UNCHANGED <<meta, data, made, host, saved>>

CopyToBegin_TooLong(n) ==
  /\ run = Idle /\ made
  /\ ~\E i \in Slots : SameName(i, n)
  /\ host[n] # NoFile
  /\ \E i \in First({j \in Slots : ~Used(j)}) :
       run' = [cmd |-> "copyTo", at |-> i, name |-> n, bytes |-> host[n]]
  /\ UNCHANGED <<meta, data, made, host, saved>>

\* mycopyto up to the read of the whole host file into its buffer.  The size of
\* a directory passes the test at line 158, and it can be opened.
CopyToBegin(n) ==
  /\ run = Idle /\ made
  /\ ~\E i \in Slots : SameName(i, n)
  /\ host[n] # NoFile
  /\ BytesRead(host[n]) <= BLOCK_SIZE
  /\ \E i \in First({j \in Slots : ~Used(j)}) :
       run' = [cmd |-> "copyTo", at |-> i, name |-> n, bytes |-> host[n]]
  /\ UNCHANGED <<meta, data, made, host, saved>>

\* The slot goes first: from here on the file exists, with what its block holds.
CopyToMetadata ==
  /\ run.cmd = "copyTo"
  /\ meta' = [meta EXCEPT ![run.at] = [name |-> Prefix[run.name], size |-> BytesRead(run.bytes)]]
  /\ run' = [run EXCEPT !.cmd = "copyData"]
  /\ UNCHANGED <<data, made, host, saved>>

\* Only the bytes read are written: the rest of the block keeps what it held,
\* and all of it after a failed read, as a write of -1 bytes fails.
CopyToData ==
  /\ run.cmd = "copyData"
  /\ data' = [data EXCEPT ![run.at] = IF run.bytes = Directory THEN @ ELSE Over(run.bytes, @)]
  /\ saved' = {s \in saved : s[1] # run.name}
                \cup (IF run.bytes = Directory THEN {} ELSE {<<run.name, run.bytes>>})
  /\ run' = Idle
  /\ UNCHANGED <<meta, made, host>>

------------------------------------------------------------------------------
\* The bytes mycopyfrom writes, and showUsedBlocks reads, for the file in slot i.
FileBytes(i) == [k \in 1 .. meta[i].size |-> data[i][k]]

\* The host file is opened without O_TRUNC: a longer one keeps its tail, and
\* all of it when the size is -1 (the write fails).  A directory is not opened.
HostAfter(n, i) ==
  LET old == IF host[n] = NoFile THEN <<>> ELSE host[n]
      new == FileBytes(i)
  IN  IF host[n] = Directory THEN Directory
      ELSE IF Len(old) > Len(new) THEN Over(new, old) ELSE new

CopyFrom(n) ==
  /\ run = Idle /\ made
  /\ \E i \in Lookup(n) : host' = [host EXCEPT ![n] = HostAfter(n, i)]
  /\ UNCHANGED <<meta, data, made, run, saved>>

rm_LastSlot(n) ==
  /\ run = Idle /\ made
  /\ Lookup(n) # {}
  /\ meta' = [meta EXCEPT ![DATA_BLOCKS - 1] = Unused]
  /\ saved' = {s \in saved : s[1] # n}
  /\ UNCHANGED <<data, made, host, run>>

\* myrm clears the slot; the data block stays.
rm(n) ==
  /\ run = Idle /\ made
  /\ \E i \in Lookup(n) : meta' = [meta EXCEPT ![i] = Unused]
  /\ saved' = {s \in saved : s[1] # n}
  /\ UNCHANGED <<data, made, host, run>>

\* The command dies between two writes.  A mymkfs that dies before the image
\* has all its blocks leaves a file that is not used before mymkfs is run again.
Kill ==
  /\ Kills /\ run # Idle
  /\ run' = Idle
  /\ UNCHANGED <<meta, data, made, host, saved>>

Next ==
  \/ HostWrite \/ Kill
  \/ MkfsBegin \/ MkfsMetadata \/ MkfsData
  \/ CopyToMetadata \/ CopyToData
  \/ \E n \in Names : CopyToBegin(n) \/ CopyFrom(n) \/ rm(n)

Spec == Init /\ [][Next]_vars

------------------------------------------------------------------------------
Stored == {Prefix[n] : n \in Names}

TypeOK ==
  /\ meta \in [Slots -> [name : Stored \cup {NoFile}, size : -1 .. BLOCK_SIZE]]
  /\ data \in [Slots -> [1 .. BLOCK_SIZE -> Bytes \cup {0}]]
  /\ made \in BOOLEAN
  /\ DOMAIN host = Names
  /\ run.cmd \in {"none", "mkfs", "copyTo", "copyData"}
  /\ run.cmd = "mkfs" => run.at \in 0 .. METADATA_BLOCKS + DATA_BLOCKS - 1
  /\ run.cmd \in {"copyTo", "copyData"} => run.at \in Slots /\ run.name \in Names

\* What was copied in comes out: a file of a short name holds the bytes of the
\* last completed mycopyTo of its name until it is removed or its slot erased,
\* through other files coming and going over the same blocks and commands killed
\* anywhere, mymkfs over an image in use included.
RoundTrip ==
  \A s \in saved : s[1] \notin Long =>
    /\ Lookup(s[1]) # {}
    /\ \A i \in Lookup(s[1]) : FileBytes(i) = s[2]

\* "Checking if the file already exists in our filesystem" (line 137): no two
\* slots hold the same name, if it is short.  (A long one is not recognised.)
NamesUnique ==
  \A n \in Names \ Long : \A i, j \in Slots : SamePrefix(i, n) /\ SamePrefix(j, n) => i = j
=============================================================================
