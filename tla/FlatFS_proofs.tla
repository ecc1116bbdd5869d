---------------------------- MODULE FlatFS_proofs ----------------------------
(* Proofs about FlatFS, for any names, contents and sizes of the image, and   *)
(* commands killed anywhere: the state has its type, no short name is in two  *)
(* slots, and what was copied in under a short name comes out.                *)
EXTENDS FlatFS, SequenceTheorems, TLAPS

Texts == Seq(Bytes \cup {0})

\* What there may be under a name on the host.
OnHost(h) == h \in {NoFile, Directory} \/ h \in Texts

\* The buffer of a command that runs, and the files of the host.
RunInv ==
  /\ DOMAIN run = {"cmd", "at", "name", "bytes"}
  /\ run.bytes = Directory \/ run.bytes \in Texts
  /\ run.cmd \in {"copyTo", "copyData"} => BytesRead(run.bytes) <= BLOCK_SIZE
  /\ \A n \in Names : OnHost(host[n])

\* The slots before the one mymkfs is at are clear already.
MkfsInv ==
  run.cmd = "mkfs" => \A i \in Slots : i < run.at * PerBlock => ~Used(i)

\* The slot a mycopyto is about to take is free, and nobody has its name.
CopyInv ==
  run.cmd = "copyTo" =>
    /\ ~Used(run.at)
    /\ run.name \notin Long => \A i \in Slots : ~SamePrefix(i, run.name)

\* A mycopyto that has taken its slot fills the block of that slot.
DataInv ==
  run.cmd = "copyData" =>
    /\ meta[run.at] = [name |-> Prefix[run.name], size |-> BytesRead(run.bytes)]
    /\ run.name \notin Long => \A b : <<run.name, b>> \notin saved

\* Slot i has the file s: its name, its size and its bytes.
Holds(i, s) ==
  /\ SamePrefix(i, s[1])
  /\ meta[i].size = Len(s[2])
  /\ \A k \in 1 .. Len(s[2]) : data[i][k] = s[2][k]

SavedInv ==
  /\ saved \subseteq Names \X Texts
  /\ \A s \in saved : s[1] \notin Long => \E i \in Slots : Holds(i, s)

IInv == TypeOK /\ RunInv /\ MkfsInv /\ CopyInv /\ DataInv /\ NamesUnique /\ SavedInv

------------------------------------------------------------------------------
LEMMA SlotsFacts ==
  /\ METADATA_BLOCKS \in Nat \ {0} /\ PerBlock \in Nat \ {0} /\ BLOCK_SIZE \in Nat \ {0}
  /\ DATA_BLOCKS \in Nat /\ DATA_BLOCKS = METADATA_BLOCKS * PerBlock
  /\ Slots \subseteq Nat
  BY FlatAssumption DEF FlatAssumption, DATA_BLOCKS, Slots

\* A short name is stored under itself only.
LEMMA ShortNames ==
  ASSUME NEW m \in Names, NEW n \in Names, n \notin Long, Prefix[m] = Prefix[n]
  PROVE  m = n
  BY FlatAssumption DEF FlatAssumption

\* A slot that mymkfs clears in a metadata block: those before it and its own.
LEMMA ClearedSlots ==
  ASSUME NEW k \in Nat, NEW i \in Slots, i < (k + 1) * PerBlock, i \notin SlotsOf(k)
  PROVE  i < k * PerBlock
<1>1. (k + 1) * PerBlock = k * PerBlock + PerBlock /\ k * PerBlock \in Nat /\ i \in Nat
  BY SlotsFacts
<1> QED BY <1>1, SlotsFacts DEF SlotsOf

\* Every slot is in a metadata block.
LEMMA AllSlots ==
  ASSUME NEW k \in Nat, k >= METADATA_BLOCKS, NEW i \in Slots
  PROVE  i < k * PerBlock
<1>1. METADATA_BLOCKS * PerBlock <= k * PerBlock
  <2>1. k = METADATA_BLOCKS + (k - METADATA_BLOCKS) /\ k - METADATA_BLOCKS \in Nat
    BY SlotsFacts
  <2>2. k * PerBlock = METADATA_BLOCKS * PerBlock + (k - METADATA_BLOCKS) * PerBlock
    BY <2>1, SlotsFacts
  <2>3. (k - METADATA_BLOCKS) * PerBlock \in Nat
    BY <2>1, SlotsFacts
  <2> QED BY <2>2, <2>3, SlotsFacts
<1> QED BY <1>1, SlotsFacts DEF Slots

\* Writing over a text gives a text of the same length.
LEMMA OverIsText ==
  ASSUME NEW b, NEW old \in Texts,
         \A k \in DOMAIN b : b[k] \in Bytes \cup {0}
  PROVE  Over(b, old) \in Texts
<1>1. PICK n \in Nat : old \in [1 .. n -> Bytes \cup {0}]
  BY SeqDef DEF Texts
<1>2. Over(b, old) \in [1 .. n -> Bytes \cup {0}]
  BY <1>1 DEF Over
<1> QED BY <1>2, SeqDef DEF Texts

\* What read returns is a length of at most a block, or -1.
LEMMA ReadReturns ==
  ASSUME NEW b, b = Directory \/ b \in Texts, BytesRead(b) <= BLOCK_SIZE
  PROVE  BytesRead(b) \in -1 .. BLOCK_SIZE
<1>1. b # Directory => Len(b) \in Nat
  BY LenProperties DEF Texts
<1> QED BY <1>1, SlotsFacts DEF BytesRead

\* What comes to the host is a text, or a directory stays.
LEMMA HostAfterIsText ==
  ASSUME TypeOK, RunInv, NEW n \in Names, NEW i \in Slots
  PROVE  OnHost(HostAfter(n, i))
<1>1. FileBytes(i) \in [1 .. meta[i].size -> Bytes \cup {0}]
  BY SlotsFacts DEF FileBytes, TypeOK
<1>2. FileBytes(i) \in Texts
  <2>1. meta[i].size \in Nat \/ meta[i].size = -1
    BY SlotsFacts DEF TypeOK
  <2>2. meta[i].size = -1 => FileBytes(i) \in [1 .. 0 -> Bytes \cup {0}]
    BY DEF FileBytes
  <2> QED BY <1>1, <2>1, <2>2, SeqDef DEF Texts
<1>3. host[n] \notin {NoFile, Directory} => Over(FileBytes(i), host[n]) \in Texts
  <2>1. \A k \in DOMAIN FileBytes(i) : FileBytes(i)[k] \in Bytes \cup {0}
    BY <1>1
  <2> QED BY <2>1, OverIsText DEF RunInv, OnHost
<1>4. host[n] = NoFile => HostAfter(n, i) \in {FileBytes(i), Directory}
  <2>1. Len(FileBytes(i)) \in Nat /\ Len(<<>>) = 0
    BY <1>2, LenProperties DEF Texts
  <2> QED BY <2>1 DEF HostAfter
<1>5. host[n] \notin {NoFile, Directory} =>
        HostAfter(n, i) \in {Over(FileBytes(i), host[n]), FileBytes(i)}
  BY DEF HostAfter
<1>6. host[n] = Directory => HostAfter(n, i) = Directory
  BY DEF HostAfter
<1> QED BY <1>2, <1>3, <1>4, <1>5, <1>6 DEF OnHost

------------------------------------------------------------------------------
LEMMA InitIInv == Init => IInv
<1> SUFFICES ASSUME Init PROVE IInv
  OBVIOUS
<1>1. <<>> \in Texts
  BY EmptySeq DEF Texts
<1>2. TypeOK
  <2>1. Unused \in [name : Stored \cup {NoFile}, size : -1 .. BLOCK_SIZE]
    BY SlotsFacts DEF Unused
  <2>2. ZeroBlock \in [1 .. BLOCK_SIZE -> Bytes \cup {0}]
    BY DEF ZeroBlock
  <2> QED BY <2>1, <2>2 DEF Init, TypeOK, Idle
<1>3. RunInv
  BY <1>1 DEF Init, RunInv, Idle, OnHost
<1>4. \A i \in Slots : ~Used(i)
  BY DEF Init, Used, Unused
<1>5. MkfsInv /\ CopyInv /\ DataInv /\ NamesUnique /\ SavedInv
  BY <1>4 DEF Init, Idle, MkfsInv, CopyInv, DataInv, NamesUnique, SavedInv, SamePrefix
<1> QED BY <1>2, <1>3, <1>5 DEF IInv

\* Without a command that runs there is nothing to say about one.
LEMMA IdleStep ==
  ASSUME IInv, run' = Idle,
         TypeOK', \A n \in Names : OnHost(host'[n]),
         NamesUnique', SavedInv'
  PROVE  IInv'
<1>1. <<>> \in Texts
  BY EmptySeq DEF Texts
<1>2. RunInv'
  BY <1>1 DEF RunInv, Idle
<1>3. MkfsInv' /\ CopyInv' /\ DataInv'
  BY DEF MkfsInv, CopyInv, DataInv, Idle
<1> QED BY <1>2, <1>3 DEF IInv

LEMMA StepHostWrite == IInv /\ HostWrite => IInv'
<1> SUFFICES ASSUME IInv, HostWrite PROVE IInv'
  OBVIOUS
<1>1. PICK n \in Names : \E b \in HostContents[n] : host' = [host EXCEPT ![n] = b]
  BY DEF HostWrite
<1> PICK b \in HostContents[n] : host' = [host EXCEPT ![n] = b]
  BY <1>1
<1>2. OnHost(b)
  <2>1. b = Directory \/ b \in Seq(Bytes)
    BY FlatAssumption DEF FlatAssumption
  <2> QED BY <2>1, SeqMonotonic DEF Texts, OnHost
<1>3. TypeOK' /\ (\A m \in Names : OnHost(host'[m]))
  BY <1>1, <1>2 DEF HostWrite, IInv, TypeOK, RunInv
<1>4. NamesUnique' /\ SavedInv'
  BY DEF HostWrite, IInv, NamesUnique, SavedInv, SamePrefix, Used, Holds
<1> QED BY <1>3, <1>4, IdleStep DEF HostWrite

LEMMA StepCopyFrom == ASSUME NEW n \in Names PROVE IInv /\ CopyFrom(n) => IInv'
<1> SUFFICES ASSUME IInv, CopyFrom(n) PROVE IInv'
  OBVIOUS
<1>1. PICK i \in Lookup(n) : host' = [host EXCEPT ![n] = HostAfter(n, i)]
  BY DEF CopyFrom
<1>2. i \in Slots
  BY DEF Lookup, First
<1>3. OnHost(HostAfter(n, i))
  BY <1>2, HostAfterIsText DEF IInv
<1>4. TypeOK' /\ (\A m \in Names : OnHost(host'[m]))
  BY <1>1, <1>3 DEF CopyFrom, IInv, TypeOK, RunInv
<1>5. NamesUnique' /\ SavedInv'
  BY DEF CopyFrom, IInv, NamesUnique, SavedInv, SamePrefix, Used, Holds
<1> QED BY <1>4, <1>5, IdleStep DEF CopyFrom

LEMMA StepKill == IInv /\ Kill => IInv'
<1> SUFFICES ASSUME IInv, Kill PROVE IInv'
  OBVIOUS
<1>1. TypeOK'
  BY DEF Kill, IInv, TypeOK, Idle
<1>2. NamesUnique' /\ SavedInv'
  BY DEF Kill, IInv, NamesUnique, SavedInv, SamePrefix, Used, Holds
<1> QED BY <1>1, <1>2, IdleStep DEF Kill, IInv, RunInv

\* Fewer slots in use: still no name twice.
LEMMA FewerNames ==
  ASSUME NamesUnique, \A i \in Slots : Used(i)' => meta'[i] = meta[i]
  PROVE  NamesUnique'
  BY DEF NamesUnique, SamePrefix, Used

LEMMA StepMkfs == IInv /\ (MkfsBegin \/ MkfsMetadata \/ MkfsData) => IInv'
<1> SUFFICES ASSUME IInv, MkfsBegin \/ MkfsMetadata \/ MkfsData PROVE IInv'
  OBVIOUS
<1>1. CASE MkfsBegin
  <2>1. TypeOK' /\ RunInv' /\ CopyInv' /\ DataInv'
    <3>1. <<>> \in Texts /\ 0 \in 0 .. METADATA_BLOCKS + DATA_BLOCKS - 1
      BY EmptySeq, SlotsFacts DEF Texts
    <3> QED BY <1>1, <3>1 DEF MkfsBegin, IInv, TypeOK, RunInv, CopyInv, DataInv, Idle
  <2>2. MkfsInv'
    <3>1. 0 * PerBlock = 0
      BY SlotsFacts
    <3> QED BY <1>1, <3>1, SlotsFacts DEF MkfsBegin, MkfsInv, Idle
  <2>3. NamesUnique' /\ SavedInv'
    BY <1>1 DEF MkfsBegin, IInv, NamesUnique, SavedInv, SamePrefix, Used, Holds
  <2> QED BY <2>1, <2>2, <2>3 DEF IInv
<1>2. CASE MkfsMetadata
  <2>1. TypeOK' /\ RunInv' /\ CopyInv' /\ DataInv'
    <3>1. run.at + 1 \in 0 .. METADATA_BLOCKS + DATA_BLOCKS - 1
      BY <1>2, SlotsFacts DEF MkfsMetadata, IInv, TypeOK, DATA_BLOCKS
    <3>2. meta' \in [Slots -> [name : Stored \cup {NoFile}, size : -1 .. BLOCK_SIZE]]
      BY <1>2, SlotsFacts DEF MkfsMetadata, IInv, TypeOK, Unused
    <3> QED BY <1>2, <3>1, <3>2 DEF MkfsMetadata, IInv, TypeOK, RunInv, CopyInv, DataInv
  <2>2. MkfsInv'
    <3> SUFFICES ASSUME NEW i \in Slots, i < (run.at + 1) * PerBlock PROVE ~Used(i)'
      BY <1>2 DEF MkfsMetadata, MkfsInv, IInv, RunInv
    <3>1. run.at \in Nat
      BY <1>2, SlotsFacts DEF MkfsMetadata, IInv, TypeOK
    <3>2. CASE i \in SlotsOf(run.at)
      BY <1>2, <3>2 DEF MkfsMetadata, Used, Unused
    <3>3. CASE i \notin SlotsOf(run.at)
      <4>1. ~Used(i)
        BY <1>2, <3>1, <3>3, ClearedSlots DEF MkfsMetadata, IInv, MkfsInv
      <4> QED BY <1>2, <3>3, <4>1 DEF MkfsMetadata, Used
    <3> QED BY <3>2, <3>3
  <2>3. NamesUnique'
    <3>1. \A i \in Slots : Used(i)' => meta'[i] = meta[i]
      BY <1>2 DEF MkfsMetadata, Used, Unused
    <3> QED BY <3>1, FewerNames DEF IInv
  <2>4. SavedInv'
    <3>1. saved' \subseteq saved
      BY <1>2 DEF MkfsMetadata
    <3>2. ASSUME NEW s \in saved', s[1] \notin Long PROVE \E i \in Slots : Holds(i, s)'
      <4>1. PICK i \in Slots : Holds(i, s)
        BY <3>1, <3>2 DEF IInv, SavedInv
      <4>2. i \notin SlotsOf(run.at)
        BY <1>2, <3>2, <4>1 DEF MkfsMetadata, Holds
      <4>3. meta'[i] = meta[i] /\ data' = data
        BY <1>2, <4>2 DEF MkfsMetadata
      <4> QED BY <4>1, <4>3 DEF Holds, SamePrefix, Used
    <3> QED BY <3>1, <3>2 DEF IInv, SavedInv
  <2> QED BY <2>1, <2>2, <2>3, <2>4 DEF IInv
<1>3. CASE MkfsData
  <2>1. \A i \in Slots : ~Used(i)
    <3>1. run.at \in Nat /\ run.at >= METADATA_BLOCKS
      BY <1>3, SlotsFacts DEF MkfsData, IInv, TypeOK
    <3> QED BY <1>3, <3>1, AllSlots DEF MkfsData, IInv, MkfsInv
  <2>2. TypeOK'
    <3>1. ZeroBlock \in [1 .. BLOCK_SIZE -> Bytes \cup {0}]
      BY DEF ZeroBlock
    <3>2. data' \in [Slots -> [1 .. BLOCK_SIZE -> Bytes \cup {0}]]
      BY <1>3, <3>1 DEF MkfsData, IInv, TypeOK
    <3>3. CASE run.at = METADATA_BLOCKS + DATA_BLOCKS - 1
      BY <1>3, <3>2, <3>3 DEF MkfsData, IInv, TypeOK, Idle
    <3>4. CASE run.at # METADATA_BLOCKS + DATA_BLOCKS - 1
      <4>1. run.at + 1 \in 0 .. METADATA_BLOCKS + DATA_BLOCKS - 1
        BY <1>3, <3>4, SlotsFacts DEF MkfsData, IInv, TypeOK
      <4> QED BY <1>3, <3>2, <3>4, <4>1 DEF MkfsData, IInv, TypeOK, RunInv
    <3> QED BY <3>3, <3>4
  <2>3. NamesUnique' /\ SavedInv'
    <3>1. \A i \in Slots : ~Used(i)'
      BY <1>3, <2>1 DEF MkfsData, Used
    <3>2. \A s \in saved : s[1] \in Long
      BY <2>1 DEF IInv, SavedInv, Holds, SamePrefix
    <3> QED BY <1>3, <3>1, <3>2 DEF MkfsData, IInv, NamesUnique, SavedInv, SamePrefix
  <2>4. CASE run.at = METADATA_BLOCKS + DATA_BLOCKS - 1
    BY <1>3, <2>2, <2>3, <2>4, IdleStep DEF MkfsData, IInv, RunInv
  <2>5. CASE run.at # METADATA_BLOCKS + DATA_BLOCKS - 1
    <3>1. RunInv' /\ CopyInv' /\ DataInv'
      BY <1>3, <2>5 DEF MkfsData, IInv, RunInv, CopyInv, DataInv
    <3>2. MkfsInv'
      BY <1>3, <2>1 DEF MkfsData, MkfsInv, Used
    <3> QED BY <2>2, <2>3, <3>1, <3>2 DEF IInv
  <2> QED BY <2>4, <2>5
<1> QED BY <1>1, <1>2, <1>3

------------------------------------------------------------------------------
LEMMA StepCopyToBegin == ASSUME NEW n \in Names PROVE IInv /\ CopyToBegin(n) => IInv'
<1> SUFFICES ASSUME IInv, CopyToBegin(n) PROVE IInv'
  OBVIOUS
<1>1. PICK i \in Slots : /\ ~Used(i)
                         /\ run' = [cmd |-> "copyTo", at |-> i, name |-> n, bytes |-> host[n]]
  BY DEF CopyToBegin, First
<1>2. /\ UNCHANGED <<meta, data, made, host, saved>>
      /\ (host[n] = Directory \/ host[n] \in Texts) /\ BytesRead(host[n]) <= BLOCK_SIZE
  BY DEF CopyToBegin, IInv, RunInv, OnHost
<1>3. TypeOK'
  BY <1>1, <1>2 DEF IInv, TypeOK
<1>4. RunInv' /\ MkfsInv' /\ DataInv'
  BY <1>1, <1>2 DEF IInv, RunInv, MkfsInv, DataInv
<1>5. CopyInv'
  BY <1>1, <1>2 DEF CopyToBegin, CopyInv, SameName, SamePrefix, Used
<1>6. NamesUnique' /\ SavedInv'
  BY <1>2 DEF IInv, NamesUnique, SavedInv, SamePrefix, Used, Holds
<1> QED BY <1>3, <1>4, <1>5, <1>6 DEF IInv

LEMMA StepCopyToMetadata == IInv /\ CopyToMetadata => IInv'
<1> SUFFICES ASSUME IInv, CopyToMetadata PROVE IInv'
  OBVIOUS
<1>0. PICK at \in Slots, n \in Names : at = run.at /\ n = run.name
  BY DEF CopyToMetadata, IInv, TypeOK
<1> DEFINE slot == [name |-> Prefix[n], size |-> BytesRead(run.bytes)]
<1>1. /\ meta' = [meta EXCEPT ![at] = slot] /\ run' = [run EXCEPT !.cmd = "copyData"]
      /\ UNCHANGED <<data, made, host, saved>>
      /\ run.cmd = "copyTo" /\ ~Used(at)
      /\ meta \in [Slots -> [name : Stored \cup {NoFile}, size : -1 .. BLOCK_SIZE]]
  BY <1>0 DEF CopyToMetadata, IInv, TypeOK, CopyInv
<1>2. BytesRead(run.bytes) \in -1 .. BLOCK_SIZE
  BY <1>1, ReadReturns DEF IInv, RunInv
<1>3. TypeOK'
  <2>1. slot \in [name : Stored \cup {NoFile}, size : -1 .. BLOCK_SIZE]
    BY <1>0, <1>1, <1>2 DEF Stored
  <2> HIDE DEF slot
  <2>2. run'.cmd = "copyData" /\ run'.at = run.at /\ run'.name = run.name
    BY <1>0, <1>1 DEF IInv, RunInv
  <2> QED BY <1>0, <1>1, <2>1, <2>2 DEF IInv, TypeOK
<1>4. RunInv' /\ MkfsInv' /\ CopyInv'
  BY <1>0, <1>1 DEF IInv, RunInv, MkfsInv, CopyInv
<1>5. DataInv'
  <2>1. meta'[at] = slot /\ run'.at = at /\ run'.name = n /\ run'.bytes = run.bytes
    BY <1>0, <1>1 DEF IInv, RunInv
  <2>2. n \notin Long => \A b : <<n, b>> \notin saved
    <3> SUFFICES ASSUME n \notin Long, NEW b, <<n, b>> \in saved PROVE FALSE
      OBVIOUS
    <3>1. \E i \in Slots : SamePrefix(i, n)
      BY DEF IInv, SavedInv, Holds
    <3> QED BY <1>0, <1>1, <3>1 DEF IInv, CopyInv
  <2> QED BY <1>0, <1>1, <2>1, <2>2 DEF DataInv
<1>6. \A i \in Slots \ {at} : meta'[i] = meta[i]
  BY <1>0, <1>1
<1>7. meta'[at] = slot
  BY <1>0, <1>1
<1>8. NamesUnique'
  <2> SUFFICES ASSUME NEW m \in Names \ Long, NEW i \in Slots, NEW j \in Slots,
                      SamePrefix(i, m)', SamePrefix(j, m)'
               PROVE  i = j
    BY DEF NamesUnique
  <2>1. CASE i # at /\ j # at
    BY <1>6, <2>1 DEF IInv, NamesUnique, SamePrefix, Used
  <2>2. ASSUME NEW k \in Slots, k # at, SamePrefix(k, m)', SamePrefix(at, m)' PROVE FALSE
    <3>1. Prefix[n] = Prefix[m]
      BY <1>7, <2>2 DEF SamePrefix
    <3>2. m = n
      BY <1>0, <1>1, <3>1, ShortNames
    <3>3. SamePrefix(k, n)
      BY <1>6, <2>2, <3>2 DEF SamePrefix, Used
    <3> QED BY <1>0, <1>1, <3>2, <3>3 DEF IInv, CopyInv
  <2> QED BY <2>1, <2>2
<1>9. SavedInv'
  <2>1. ASSUME NEW s \in saved, s[1] \notin Long PROVE \E i \in Slots : Holds(i, s)'
    <3>1. PICK i \in Slots : Holds(i, s)
      BY <2>1 DEF IInv, SavedInv
    <3>2. meta'[i] = meta[i] /\ data' = data
      BY <1>0, <1>1, <1>6, <3>1 DEF Holds, SamePrefix
    <3> QED BY <3>1, <3>2 DEF Holds, SamePrefix, Used
  <2> QED BY <1>0, <1>1, <2>1 DEF IInv, SavedInv
<1> QED BY <1>3, <1>4, <1>5, <1>8, <1>9 DEF IInv

LEMMA StepCopyToData == IInv /\ CopyToData => IInv'
<1> SUFFICES ASSUME IInv, CopyToData PROVE IInv'
  OBVIOUS
<1>0. PICK at \in Slots, n \in Names : at = run.at /\ n = run.name
  BY DEF CopyToData, IInv, TypeOK
<1>1. /\ run' = Idle /\ UNCHANGED <<meta, made, host>>
      /\ data \in [Slots -> [1 .. BLOCK_SIZE -> Bytes \cup {0}]]
      /\ meta[at] = [name |-> Prefix[n], size |-> BytesRead(run.bytes)]
  BY <1>0 DEF CopyToData, IInv, TypeOK, DataInv
<1>2. NamesUnique'
  BY <1>1 DEF IInv, NamesUnique, SamePrefix, Used
<1>3. CASE run.bytes = Directory
  <2>1. data' = data /\ saved' = {s \in saved : s[1] # n}
    BY <1>0, <1>1, <1>3 DEF CopyToData
  <2>2. TypeOK'
    BY <1>1, <2>1 DEF IInv, TypeOK, Idle
  <2>3. SavedInv'
    BY <1>1, <2>1 DEF IInv, SavedInv, Holds, SamePrefix, Used
  <2> QED BY <1>1, <1>2, <2>2, <2>3, IdleStep DEF IInv, RunInv
<1>4. CASE run.bytes # Directory
  <2>0. PICK b \in Texts : b = run.bytes
    BY <1>4 DEF IInv, RunInv
  <2>1. /\ data' = [data EXCEPT ![at] = Over(b, data[at])]
        /\ saved' = {s \in saved : s[1] # n} \cup {<<n, b>>}
        /\ meta[at] = [name |-> Prefix[n], size |-> Len(b)]
    BY <1>0, <1>1, <1>4, <2>0 DEF CopyToData, BytesRead
  <2>2. /\ Len(b) \in Nat /\ Len(b) <= BLOCK_SIZE
        /\ DOMAIN b = 1 .. Len(b) /\ b \in [1 .. Len(b) -> Bytes \cup {0}]
    BY <1>4, <2>0, LenProperties DEF CopyToData, IInv, RunInv, Texts, BytesRead
  <2>3. /\ Over(b, data[at]) \in [1 .. BLOCK_SIZE -> Bytes \cup {0}]
        /\ \A k \in 1 .. Len(b) : Over(b, data[at])[k] = b[k]
    BY <1>1, <2>2, SlotsFacts DEF Over
  <2>4. TypeOK'
    BY <1>1, <2>1, <2>3 DEF IInv, TypeOK, Idle
  <2>5. Holds(at, <<n, b>>)'
    <3>1. Prefix[n] # NoFile
      BY FlatAssumption DEF FlatAssumption
    <3>2. data \in [Slots -> [1 .. BLOCK_SIZE -> Bytes \cup {0}]]
      BY DEF IInv, TypeOK
    <3>3. data'[at] = Over(b, data[at])
      BY <2>1, <3>2
    <3>4. meta'[at] = [name |-> Prefix[n], size |-> Len(b)]
      BY <1>1, <2>1
    <3> QED BY <2>3, <3>1, <3>3, <3>4 DEF Holds, SamePrefix, Used
  <2>6. ASSUME NEW s \in saved', s[1] \notin Long PROVE \E i \in Slots : Holds(i, s)'
    <3>1. CASE s = <<n, b>>
      BY <2>5, <3>1
    <3>2. CASE s \in saved /\ s[1] # n
      <4>1. PICK i \in Slots : Holds(i, s)
        BY <2>6, <3>2 DEF IInv, SavedInv
      <4>2. i # at
        <5>1. s[1] \in Names
          BY <3>2 DEF IInv, SavedInv
        <5>2. i = at => Prefix[n] = Prefix[s[1]]
          BY <1>1, <4>1 DEF Holds, SamePrefix
        <5> QED BY <2>6, <3>2, <5>1, <5>2, ShortNames
      <4>3. meta' = meta /\ data'[i] = data[i]
        BY <1>1, <2>1, <4>2
      <4> QED BY <4>1, <4>3 DEF Holds, SamePrefix, Used
    <3> QED BY <2>1, <2>6, <3>1, <3>2
  <2>7. SavedInv'
    BY <2>0, <2>1, <2>6 DEF IInv, SavedInv
  <2> QED BY <1>1, <1>2, <2>4, <2>7, IdleStep DEF IInv, RunInv
<1> QED BY <1>3, <1>4

LEMMA StepRm == ASSUME NEW n \in Names PROVE IInv /\ rm(n) => IInv'
<1> SUFFICES ASSUME IInv, rm(n) PROVE IInv'
  OBVIOUS
<1>1. PICK i \in Lookup(n) : meta' = [meta EXCEPT ![i] = Unused]
  BY DEF rm
<1>2. /\ i \in Slots /\ SamePrefix(i, n)
      /\ UNCHANGED <<data, made, host, run>> /\ run' = Idle
      /\ saved' = {s \in saved : s[1] # n}
      /\ meta \in [Slots -> [name : Stored \cup {NoFile}, size : -1 .. BLOCK_SIZE]]
  BY <1>1 DEF rm, Lookup, First, IInv, TypeOK
<1>3. TypeOK'
  <2>1. Unused \in [name : Stored \cup {NoFile}, size : -1 .. BLOCK_SIZE]
    BY SlotsFacts DEF Unused
  <2> QED BY <1>1, <1>2, <2>1 DEF IInv, TypeOK
<1>4. NamesUnique'
  <2>1. \A j \in Slots : Used(j)' => meta'[j] = meta[j]
    BY <1>1, <1>2 DEF Used, Unused
  <2> QED BY <2>1, FewerNames DEF IInv
<1>5. ASSUME NEW s \in saved', s[1] \notin Long PROVE \E j \in Slots : Holds(j, s)'
  <2>1. PICK j \in Slots : Holds(j, s)
    BY <1>2, <1>5 DEF IInv, SavedInv
  <2>2. j # i
    <3>1. s[1] \in Names /\ s[1] # n
      BY <1>2 DEF IInv, SavedInv
    <3>2. j = i => Prefix[n] = Prefix[s[1]]
      BY <1>2, <2>1 DEF Holds, SamePrefix
    <3> QED BY <1>5, <3>1, <3>2, ShortNames
  <2>3. meta'[j] = meta[j] /\ data' = data
    BY <1>1, <1>2, <2>2
  <2> QED BY <2>1, <2>3 DEF Holds, SamePrefix, Used
<1>6. SavedInv'
  BY <1>2, <1>5 DEF IInv, SavedInv
<1> QED BY <1>2, <1>3, <1>4, <1>6, IdleStep DEF IInv, RunInv

------------------------------------------------------------------------------
LEMMA Invariance == Spec => []IInv
<1>1. IInv /\ [Next]_vars => IInv'
  <2>1. IInv /\ UNCHANGED vars => IInv'
    BY DEF vars, IInv, TypeOK, RunInv, MkfsInv, CopyInv, DataInv, NamesUnique, SavedInv,
           Holds, SamePrefix, Used
  <2> QED
    BY <2>1, StepHostWrite, StepKill, StepMkfs, StepCopyToMetadata, StepCopyToData,
       StepCopyToBegin, StepCopyFrom, StepRm
    DEF Next
<1> QED BY <1>1, InitIInv, PTL DEF Spec

\* The state has its type: no file is longer than its block, and slot and block
\* numbers stay in range.
THEOREM Typing == Spec => []TypeOK
  BY Invariance, PTL DEF IInv

\* No two slots hold the same short name, through commands killed anywhere.
THEOREM OneSlotPerName == Spec => []NamesUnique
  BY Invariance, PTL DEF IInv

\* What was copied in under a short name comes out, for any names, contents and
\* sizes: rests on the slot that a copy takes being free, and on slots and
\* blocks belonging together.
THEOREM CopiedInComesOut == Spec => []RoundTrip
<1>1. IInv => RoundTrip
  <2> SUFFICES ASSUME IInv, NEW s \in saved, s[1] \notin Long
               PROVE  /\ Lookup(s[1]) # {}
                      /\ \A i \in Lookup(s[1]) : FileBytes(i) = s[2]
    BY DEF RoundTrip
  <2>1. s[1] \in Names /\ s[2] \in Texts
    BY DEF IInv, SavedInv
  <2>2. PICK i \in Slots : Holds(i, s)
    BY DEF IInv, SavedInv
  <2>3. {j \in Slots : SamePrefix(j, s[1])} = {i}
    BY <2>1, <2>2 DEF IInv, NamesUnique, Holds
  <2>4. Lookup(s[1]) = {i}
    BY <2>3, SlotsFacts DEF Lookup, First
  <2>5. FileBytes(i) = s[2]
    <3>1. s[2] \in [1 .. Len(s[2]) -> Bytes \cup {0}]
      BY <2>1, LenProperties DEF Texts
    <3> QED BY <2>2, <3>1 DEF FileBytes, Holds
  <2> QED BY <2>4, <2>5
<1> QED BY <1>1, Invariance, PTL
=============================================================================
