----------------------------- MODULE ChunkStore -----------------------------
(***************************************************************************)
(* The chunk store of the streaming engine (internal/stream/store.go): an  *)
(* LRU of chunks in memory and an LRU of chunk files in a directory, both  *)
(* with a byte budget.  FUSE reads, downloads and the disk writer use it   *)
(* concurrently, the process may crash at any moment, and a new one finds  *)
(* the files the old one left behind.                                      *)
(*                                                                         *)
(* Each section under s.mu or s.diskMu and each file operation between     *)
(* them is one action.  The bytes of a chunk are abstracted to their       *)
(* number.  diskReady, diskEntries and diskLRU always change together and  *)
(* are the one list `index`.                                               *)
(***************************************************************************)
EXTENDS Lists

CONSTANTS Versions,   \* file versions
          Indexes,    \* chunk indexes of a file
          Size,       \* the length of each chunk
          Readers,    \* goroutines that call get
          MemLimit,   \* memoryLimit
          DiskLimit,  \* diskLimit; 0 disables the disk cache
          Events      \* which failures happen

Key == Versions \X Indexes

ASSUME ChunkStoreAssumption ==
  /\ Indexes \subseteq Nat
  /\ Size \in [Key -> Nat \ {0}]
  /\ MemLimit \in Nat
  /\ DiskLimit \in Nat
  /\ Events \subseteq {"crash", "writeFail", "removeFail", "readFail"}

VARIABLES
  up,         \* a process runs
  mem,        \* s.memory and s.lru: entries, least recently used first
  memBytes,   \* s.memoryBytes
  index,      \* the disk index, least recently used first
  diskBytes,  \* s.diskBytes
  files,      \* the .chunk files, oldest modification first
  parts,      \* chunks with .part files nobody writes any more
  unremoved,  \* history: this process failed to remove a chunk file
  wpc, temp,  \* the disk writer and the file it publishes
  rpc, rdata  \* readers in get: where they are and the entry they handle

memVars == <<mem, memBytes>>
diskVars == <<index, diskBytes>>
dirVars == <<files, parts, unremoved>>
writeVars == <<wpc, temp>>
readVars == <<rpc, rdata>>
vars == <<up, mem, memBytes, index, diskBytes, files, parts, unremoved, wpc, temp,
          rpc, rdata>>

Disk == DiskLimit > 0

-----------------------------------------------------------------------------
(* Lists of entries                                                        *)

Entries == {e \in [key : Key, len : Nat] : e.len <= Size[e.key]}
Entry(k, n) == [key |-> k, len |-> n]
Keys(s) == {s[i].key : i \in DOMAIN s}
Weight == [e \in Entries |-> e.len]
Bytes(s) == Total(Weight, s)
Forget(s, K) == Without(s, {e \in Entries : e.key \in K})
Find(s, k) == s[CHOOSE i \in DOMAIN s : s[i].key = k]
LenOf(s, k) == IF k \in Keys(s) THEN Find(s, k).len ELSE 0

(* The entry becomes the most recent one of its key.                       *)
Put(s, e) == Append(Forget(s, {e.key}), e)

(* MoveToBack, if the list has the key.                                    *)
Touched(s, k) == IF k \in Keys(s) THEN Put(s, Find(s, k)) ELSE s

Init ==
  /\ up = FALSE
  /\ mem = <<>> /\ memBytes = 0
  /\ index = <<>> /\ diskBytes = 0
  /\ files = <<>> /\ parts = {} /\ unremoved = FALSE
  /\ wpc = "idle" /\ temp = <<>>
  /\ rpc = [r \in Readers |-> "idle"]
  /\ rdata = [r \in Readers |-> <<>>]

-----------------------------------------------------------------------------
(* Memory                                                                  *)

(* Mutant: an entry that is replaced keeps its share of the counter.       *)
PutMemoryCountedTwice(k, n) ==
  IF MemLimit = 0 \/ n > MemLimit THEN UNCHANGED memVars
  ELSE LET s == Put(mem, Entry(k, n))
           bytes == memBytes + n
           x == Excess(Weight, s, bytes, MemLimit)
       IN  /\ mem' = Drop(s, x)
           /\ memBytes' = bytes - Bytes(Front(s, x))

(* putMemory: the entry is added or replaced as the most recent one and    *)
(* the oldest ones go until the budget is kept.                            *)
PutMemory(k, n) ==
  IF MemLimit = 0 \/ n > MemLimit THEN UNCHANGED memVars
  ELSE LET s == Put(mem, Entry(k, n))
           bytes == memBytes - LenOf(mem, k) + n
           x == Excess(Weight, s, bytes, MemLimit)
       IN  /\ mem' = Drop(s, x)
           /\ memBytes' = bytes - Bytes(Front(s, x))

(* A download is complete.                                                 *)
PutDownloaded(k) ==
  /\ up
  /\ PutMemory(k, Size[k])
  /\ UNCHANGED <<up, diskVars, dirVars, writeVars, readVars>>

ClearMemory ==
  /\ up
  /\ mem' = <<>>
  /\ memBytes' = 0
  /\ UNCHANGED <<up, diskVars, dirVars, writeVars, readVars>>

(* removeMemoryLocked of every key of S.                                   *)
RemoveMemory(S) ==
  /\ mem' = Forget(mem, S)
  /\ memBytes' = memBytes - Bytes(Forget(mem, Key \ S))
  /\ UNCHANGED <<up, diskVars, dirVars, writeVars, readVars>>

RemoveMemoryRange(v, start, end) ==
  /\ up
  /\ start < end
  /\ RemoveMemory({k \in Key : k[1] = v /\ start <= k[2] /\ k[2] < end})

PruneMemoryWindow(v, start, end) ==
  /\ up
  /\ RemoveMemory({k \in Key : k[1] = v /\ (k[2] < start \/ k[2] > end)})

-----------------------------------------------------------------------------
(* Reads                                                                   *)

(* get and getWithoutTouch of a chunk in memory.                           *)
GetMemory(r, k, touch) ==
  /\ up
  /\ rpc[r] = "idle"
  /\ k \in Keys(mem)
  /\ mem' = IF touch THEN Touched(mem, k) ELSE mem
  /\ UNCHANGED <<up, memBytes, diskVars, dirVars, writeVars, readVars>>

(* get of a chunk that is not in memory goes on with the disk.             *)
MissMemory(r, k) ==
  /\ up
  /\ rpc[r] = "idle"
  /\ k \notin Keys(mem)
  /\ Disk
  /\ rpc' = [rpc EXCEPT ![r] = "index"]
  /\ rdata' = [rdata EXCEPT ![r] = Entry(k, 0)]
  /\ UNCHANGED <<up, memVars, diskVars, dirVars, writeVars>>

Idle(r) ==
  /\ rpc' = [rpc EXCEPT ![r] = "idle"]
  /\ rdata' = [rdata EXCEPT ![r] = <<>>]

LookIndex(r) ==
  LET k == rdata[r].key IN
  /\ rpc[r] = "index"
  /\ IF k \in Keys(index)
     THEN rpc' = [rpc EXCEPT ![r] = "read"] /\ UNCHANGED rdata
     ELSE Idle(r)
  /\ index' = Touched(index, k)
  /\ UNCHANGED <<up, memVars, diskBytes, dirVars, writeVars>>

(* os.ReadFile, outside the lock.                                          *)
ReadFile(r) ==
  LET k == rdata[r].key IN
  /\ rpc[r] = "read"
  /\ \/ /\ k \in Keys(files)
        /\ rpc' = [rpc EXCEPT ![r] = "fill"]
        /\ rdata' = [rdata EXCEPT ![r] = Entry(k, LenOf(files, k))]
     \/ /\ k \notin Keys(files) \/ "readFail" \in Events
        /\ rpc' = [rpc EXCEPT ![r] = "forget"]
        /\ UNCHANGED rdata
  /\ UNCHANGED <<up, memVars, diskVars, dirVars, writeVars>>

FillMemory(r) ==
  /\ rpc[r] = "fill"
  /\ PutMemory(rdata[r].key, rdata[r].len)
  /\ Idle(r)
  /\ UNCHANGED <<up, diskVars, dirVars, writeVars>>

(* Mutant: removeDiskLocked leaves the bytes of the entry in the counter.  *)
UnindexedUncounted(k) ==
  /\ index' = Forget(index, {k})
  /\ UNCHANGED diskBytes

(* removeDiskLocked                                                        *)
Unindexed(k) ==
  /\ index' = Forget(index, {k})
  /\ diskBytes' = diskBytes - LenOf(index, k)

(* forgetDisk: the index under the lock, then the file.                    *)
ForgetIndex(r) ==
  /\ rpc[r] = "forget"
  /\ Unindexed(rdata[r].key)
  /\ rpc' = [rpc EXCEPT ![r] = "remove"]
  /\ UNCHANGED <<up, memVars, dirVars, writeVars, rdata>>

ForgetNoFile(r) ==  \* mutant: forgetDisk leaves the file
  /\ rpc[r] = "remove"
  /\ Idle(r)
  /\ UNCHANGED <<up, memVars, diskVars, dirVars, writeVars>>

ForgetFile(r) ==
  /\ rpc[r] = "remove"
  /\ \/ files' = Forget(files, {rdata[r].key}) /\ UNCHANGED unremoved
     \/ "removeFail" \in Events /\ UNCHANGED files /\ unremoved' = TRUE
  /\ Idle(r)
  /\ UNCHANGED <<up, memVars, diskVars, parts, writeVars>>

(* length touches the index entry of a chunk that memory does not hold.    *)
Length(k) ==
  /\ up
  /\ Disk
  /\ k \notin Keys(mem)
  /\ k \in Keys(index)
  /\ index' = Touched(index, k)
  /\ UNCHANGED <<up, memVars, diskBytes, dirVars, writeVars, readVars>>

-----------------------------------------------------------------------------
(* The disk writer                                                         *)

(* trimDiskLocked removes the oldest entries and their files until the     *)
(* budget is kept or a file that exists cannot be removed.  How many of    *)
(* the entries of s it may remove:                                         *)
Trims(s, bytes) ==
  LET x == Excess(Weight, s, bytes, DiskLimit) IN
  {x} \cup {n \in 0..(x - 1) :
              "removeFail" \in Events /\ s[n + 1].key \in Keys(files)}

FilesAfterTrim(s, n) == Forget(files, Keys(Front(s, n)))

(* putDisk writes a temporary file, possibly only a part of it.            *)
WriteTemp(k, n) ==
  /\ up
  /\ Disk
  /\ wpc = "idle"
  /\ n = Size[k] \/ "writeFail" \in Events
  /\ wpc' = "temp"
  /\ temp' = Entry(k, n)
  /\ UNCHANGED <<up, memVars, diskVars, dirVars, readVars>>

(* Mutant: the error of the write is not looked at.                        *)
RenameUnchecked ==
  /\ wpc = "temp"
  /\ files' = Put(files, temp)
  /\ wpc' = "renamed"
  /\ UNCHANGED <<up, memVars, diskVars, parts, unremoved, temp, readVars>>

(* A complete file replaces the chunk file.                                *)
Rename ==
  /\ wpc = "temp"
  /\ temp.len = Size[temp.key]
  /\ files' = Put(files, temp)
  /\ wpc' = "renamed"
  /\ UNCHANGED <<up, memVars, diskVars, parts, unremoved, temp, readVars>>

(* A write, close or rename failed: the deferred os.Remove may fail too.   *)
AbandonTemp ==
  /\ wpc = "temp"
  /\ "writeFail" \in Events
  /\ parts' \in {parts} \cup
       (IF "removeFail" \in Events THEN {parts \cup {temp.key}} ELSE {})
  /\ wpc' = "idle"
  /\ temp' = <<>>
  /\ UNCHANGED <<up, memVars, diskVars, files, unremoved, readVars>>

(* Mutant: the length of the new entry is not counted.                     *)
AddedUncounted(k, n) == diskBytes - LenOf(index, k)

(* The counter after addDiskLocked.                                        *)
Added(k, n) == diskBytes - LenOf(index, k) + n

PublishUntrimmed ==  \* mutant: no trim after the add
  /\ wpc = "renamed"
  /\ index' = Put(index, temp)
  /\ diskBytes' = Added(temp.key, temp.len)
  /\ wpc' = "idle"
  /\ temp' = <<>>
  /\ UNCHANGED <<up, memVars, dirVars, readVars>>

(* addDiskLocked and trimDiskLocked, in one section.                       *)
Publish ==
  LET s == Put(index, temp)
      bytes == Added(temp.key, temp.len)
  IN
  /\ wpc = "renamed"
  /\ \E n \in Trims(s, bytes) :
       /\ index' = Drop(s, n)
       /\ diskBytes' = bytes - Bytes(Front(s, n))
       /\ files' = FilesAfterTrim(s, n)
       /\ unremoved' = (unremoved \/ n # Excess(Weight, s, bytes, DiskLimit))
  /\ wpc' = "idle"
  /\ temp' = <<>>
  /\ UNCHANGED <<up, memVars, parts, readVars>>

-----------------------------------------------------------------------------
(* The life of the process                                                 *)

(* The process ends; what the system has written stays.                    *)
Crash ==
  /\ "crash" \in Events
  /\ up
  /\ up' = FALSE
  /\ mem' = <<>> /\ memBytes' = 0
  /\ index' = <<>> /\ diskBytes' = 0
  /\ parts' = IF wpc = "temp" THEN parts \cup {temp.key} ELSE parts
  /\ wpc' = "idle" /\ temp' = <<>>
  /\ rpc' = [r \in Readers |-> "idle"]
  /\ rdata' = [r \in Readers |-> <<>>]
  /\ unremoved' = FALSE
  /\ UNCHANGED files

(* removePartialFiles fails at a file it cannot remove.                    *)
RemovePartialFails ==
  /\ "removeFail" \in Events
  /\ \E S \in SUBSET parts : S # {} /\ parts' = S
  /\ UNCHANGED <<up, diskVars, files, unremoved>>

(* loadDiskIndex, the partial files removed: chunk files are indexed by    *)
(* their age and trimmed; a trim that fails leaves no store.               *)
LoadDiskIndex ==
  /\ parts' = {}
  /\ UNCHANGED unremoved
  /\ \E n \in Trims(files, Bytes(files)) :
       /\ files' = Drop(files, n)
       /\ IF n = Excess(Weight, files, Bytes(files), DiskLimit)
          THEN /\ up' = TRUE
               /\ index' = files'
               /\ diskBytes' = Bytes(files')
          ELSE UNCHANGED <<up, diskVars>>

(* newChunkStore; without a disk cache there is nothing to find.           *)
Start ==
  /\ ~up
  /\ RemovePartialFails \/ LoadDiskIndex
  /\ UNCHANGED <<memVars, writeVars, readVars>>

-----------------------------------------------------------------------------
ReaderStep(r) ==
  \/ LookIndex(r)
  \/ ReadFile(r)
  \/ FillMemory(r)
  \/ ForgetIndex(r)
  \/ ForgetFile(r)

Get(r) ==
  \E k \in Key : MissMemory(r, k) \/ \E touch \in BOOLEAN : GetMemory(r, k, touch)

(* scheduleBuffer's windows lie within the file, and a window that is      *)
(* pruned does not end before its floor.                                   *)
MemoryStep ==
  \/ ClearMemory
  \/ \E k \in Key : PutDownloaded(k)
  \/ \E v \in Versions, a, b \in Indexes :
       RemoveMemoryRange(v, a, b) \/ (a <= b /\ PruneMemoryWindow(v, a, b))

WriterStep == Rename \/ AbandonTemp \/ Publish

Next ==
  \/ \E r \in Readers : Get(r) \/ ReaderStep(r)
  \/ MemoryStep
  \/ \E k \in Key : Length(k) \/ \E n \in 0..Size[k] : WriteTemp(k, n)
  \/ WriterStep
  \/ Crash
  \/ Start

Spec == Init /\ [][Next]_vars

-----------------------------------------------------------------------------
(* Properties                                                              *)

(* The type invariant of the store and its directory.                      *)
TypeOK ==
  /\ up \in BOOLEAN
  /\ mem \in Seq(Entries) /\ memBytes \in Nat
  /\ index \in Seq(Entries) /\ diskBytes \in Nat
  /\ files \in Seq(Entries) /\ parts \subseteq Key /\ unremoved \in BOOLEAN
  /\ wpc \in {"idle", "temp", "renamed"}
  /\ temp \in Entries \cup {<<>>}
  /\ rpc \in [Readers -> {"idle", "index", "read", "fill", "forget", "remove"}]
  /\ rdata \in [Readers -> Entries \cup {<<>>}]

(* A list has one entry for a key.                                         *)
OnePerKey(s) == \A i, j \in DOMAIN s : s[i].key = s[j].key => i = j

(* putMemory, clearMemory and the two ways to remove a range keep the byte *)
(* counter equal to what memory holds, and within the budget.              *)
MemoryAccounted ==
  OnePerKey(mem) /\ memBytes = Bytes(mem) /\ memBytes <= MemLimit

(* addDiskLocked, removeDiskLocked and trimDiskLocked keep the counter of  *)
(* the disk equal to what is indexed, though the lock is given up between  *)
(* a look at the index, the file operation and the update: a drift would   *)
(* make the cache shrink or grow without bound.                            *)
DiskAccounted == OnePerKey(index) /\ diskBytes = Bytes(index)

(* The disk budget is kept, until a file cannot be removed; a restart puts *)
(* even that right.                                                        *)
DiskBudgetKept == unremoved \/ diskBytes <= DiskLimit

(* No chunk file is lost to the index, where no trim would ever find it:   *)
(* only the file being published and files being removed are not indexed.  *)
(* A file that could not be removed is lost until the next start.          *)
NoOrphan ==
  up /\ ~unremoved =>
    \A k \in Keys(files) \ Keys(index) :
      \/ wpc = "renamed" /\ temp.key = k
      \/ \E r \in Readers : rpc[r] = "remove" /\ rdata[r].key = k

(* Whatever a reader can get is a complete chunk, also after a failed      *)
(* write and after a crash in the middle of one.                           *)
WholeChunks ==
  /\ \A i \in DOMAIN files : files[i].len = Size[files[i].key]
  /\ \A i \in DOMAIN mem : mem[i].len = Size[mem[i].key]
  /\ \A r \in Readers : rpc[r] = "fill" => rdata[r].len = Size[rdata[r].key]

-----------------------------------------------------------------------------
(* What the repository says and the code does not keep                     *)

(* "A chunk whose file cannot be read is not left indexed": when a failed  *)
(* get has removed the entry and the file, the index does not list the     *)
(* chunk without its file.                                                 *)
UnreadableForgotten ==
  [][\A r \in Readers :
       rpc[r] = "remove" /\ rpc'[r] = "idle" /\ up' =>
         (rdata[r].key \in Keys(index') => rdata[r].key \in Keys(files'))]_vars
=============================================================================
