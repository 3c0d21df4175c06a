--------------------------- MODULE ChunkStoreProofs ---------------------------
(***************************************************************************)
(* The chunk store keeps its budgets, its counters and its files, for      *)
(* every value of the constants: lemmas about lists of entries, then an    *)
(* inductive invariant with one lemma for each step, then the theorems.    *)
(***************************************************************************)
EXTENDS ChunkStore, ListProofs

(* Every entry has the length of its chunk.                                *)
Whole(s) == \A i \in DOMAIN s : s[i].len = Size[s[i].key]

(* An entry weighs the bytes of its chunk.                                 *)
LEMMA WeightType == Weight \in [Entries -> Nat]
BY DEF Weight, Entries

(* What an entry consists of.                                              *)
LEMMA EntriesType ==
  ASSUME NEW e \in Entries
  PROVE  e.key \in Key /\ e.len \in Nat /\ e.len <= Size[e.key] /\ Weight[e] = e.len
BY DEF Entries, Weight

(* Entry makes an entry of a key and a length.                             *)
LEMMA EntryType ==
  ASSUME NEW k \in Key, NEW n \in Nat, n <= Size[k]
  PROVE  Entry(k, n) \in Entries /\ Entry(k, n).key = k /\ Entry(k, n).len = n
BY DEF Entries, Entry

(* The keys of a list are those of its elements.                           *)
LEMMA KeysOfElems ==
  ASSUME NEW s
  PROVE  Keys(s) = {e.key : e \in Elems(s)}
BY DEF Keys, Elems

(* The types that the places, keys and bytes of a list of entries have.    *)
LEMMA ListFacts ==
  ASSUME NEW s \in Seq(Entries)
  PROVE  /\ Len(s) \in Nat
         /\ DOMAIN s = 1..Len(s)
         /\ \A i \in DOMAIN s : s[i] \in Entries /\ s[i].key \in Key /\ s[i].len \in Nat
         /\ Keys(s) \subseteq Key
         /\ Bytes(s) \in Nat
         /\ Elems(s) \subseteq Entries
<1>1. Len(s) \in Nat /\ DOMAIN s = 1..Len(s)
  BY LenProperties
<1>2. \A i \in DOMAIN s : s[i] \in Entries
  BY ElementOfSeq, <1>1
<1>3. \A i \in DOMAIN s : s[i].key \in Key /\ s[i].len \in Nat
  BY <1>2, EntriesType
<1>4. Keys(s) \subseteq Key /\ Elems(s) \subseteq Entries
  BY <1>2, <1>3 DEF Keys, Elems
<1>5. Bytes(s) \in Nat
  BY TotalType, WeightType, Zenon DEF Bytes
<1>6. QED
  BY <1>1, <1>2, <1>3, <1>4, <1>5

(* A store that starts has empty lists, in good order.                     *)
LEMMA EmptyList ==
  /\ <<>> \in Seq(Entries) /\ Bytes(<<>>) = 0 /\ OnePerKey(<<>>) /\ Whole(<<>>)
  /\ Keys(<<>>) = {}
<1>1. Bytes(<<>>) = 0
  BY TotalEmpty, WeightType, Zenon DEF Bytes
<1>2. QED
  BY <1>1, EmptySeq DEF OnePerKey, Whole, Keys

(* Removing keys from a list removes nothing else, and leaves one entry    *)
(* per key and whole chunks as they were.                                  *)
LEMMA ForgetFacts ==
  ASSUME NEW s \in Seq(Entries), NEW K
  PROVE  /\ Forget(s, K) \in Seq(Entries)
         /\ Keys(Forget(s, K)) = Keys(s) \ K
         /\ OnePerKey(s) => OnePerKey(Forget(s, K))
         /\ Whole(s) => Whole(Forget(s, K))
<1> DEFINE S == {e \in Entries : e.key \in K}
<1>p. PICK p : p = Forget(s, K)
  OBVIOUS
<1>q. p = Without(s, S)
  BY <1>p DEF Forget
<1>1. p \in Seq(Entries)
  BY <1>q, WithoutType, Zenon
<1>2. Elems(p) = Elems(s) \ S
  BY <1>q, WithoutElems, Zenon
<1>3. PICK h : Embeds(h, p, s)
  BY <1>q, WithoutEmbeds, Zenon
<1>4. /\ DOMAIN p = 1..Len(p) /\ DOMAIN s = 1..Len(s)
      /\ \A i \in DOMAIN s : s[i] \in Entries
  BY <1>1, ListFacts
<1>5. Keys(p) = Keys(s) \ K
  <2>1. \A e \in Elems(s) : e \in Entries
    BY <1>4 DEF Elems
  <2>2. \A e \in Elems(s) : e \in S <=> e.key \in K
    BY <2>1
  <2> HIDE DEF S
  <2>3. ASSUME NEW k
        PROVE  k \in Keys(p) <=> k \in Keys(s) /\ k \notin K
    <3>1. k \in Keys(p) <=> \E e \in Elems(p) : k = e.key
      BY KeysOfElems
    <3>2. k \in Keys(s) <=> \E e \in Elems(s) : k = e.key
      BY KeysOfElems
    <3>3. QED
      BY <3>1, <3>2, <2>2, <1>2
  <2>4. QED
    BY <2>3
<1> HIDE DEF S
<1>6. \A i \in DOMAIN p : h[i] \in DOMAIN s /\ p[i] = s[h[i]]
  BY <1>3, <1>4 DEF Embeds
<1>7. \A i, j \in DOMAIN p : h[i] = h[j] => i = j
  BY <1>3, <1>4 DEF Embeds
<1>8. OnePerKey(s) => OnePerKey(p)
  BY <1>6, <1>7 DEF OnePerKey
<1>9. Whole(s) => Whole(p)
  BY <1>6, Zenon DEF Whole
<1>10. QED
  BY <1>p, <1>1, <1>5, <1>8, <1>9, Zenon

(* Find finds an entry with the key.                                       *)
LEMMA FindFacts ==
  ASSUME NEW s \in Seq(Entries), NEW k \in Keys(s)
  PROVE  \E i \in DOMAIN s : s[i].key = k /\ Find(s, k) = s[i]
<1>1. \E i \in DOMAIN s : s[i].key = k
  BY DEF Keys
<1>2. QED
  BY <1>1 DEF Find

(* The length of a chunk in a list is a number, also when the list does    *)
(* not have it.                                                            *)
LEMMA LenOfType ==
  ASSUME NEW s \in Seq(Entries), NEW k
  PROVE  LenOf(s, k) \in Nat
BY FindFacts, ListFacts DEF LenOf

(* removeMemoryLocked and removeDiskLocked subtract what the entry of the  *)
(* key weighed, if there is one.                                           *)
LEMMA ForgetOne ==
  ASSUME NEW s \in Seq(Entries), NEW k, OnePerKey(s)
  PROVE  Bytes(s) = Bytes(Forget(s, {k})) + LenOf(s, k)
<1> DEFINE S == {e \in Entries : e.key \in {k}}
<1>0. \A i \in DOMAIN s : s[i] \in S <=> s[i].key = k
  BY ListFacts
<1>1. PICK p : p = Forget(s, {k})
  OBVIOUS
<1>2. p = Without(s, S)
  BY <1>1 DEF Forget
<1> HIDE DEF S
<1>3. CASE k \in Keys(s)
  <2>1. PICK i \in DOMAIN s : s[i].key = k /\ Find(s, k) = s[i]
    BY <1>3, FindFacts
  <2>2. s[i] \in S /\ \A j \in DOMAIN s : s[j] \in S => j = i
    BY <2>1, <1>0 DEF OnePerKey
  <2>3. Bytes(s) = Bytes(p) + Weight[s[i]]
    BY <2>2, <1>2, TotalRemoved, WeightType, Zenon DEF Bytes
  <2>4. Weight[s[i]] = LenOf(s, k)
    BY <2>1, <1>3, ListFacts, EntriesType DEF LenOf
  <2>5. QED
    BY <2>3, <2>4, <1>1
<1>4. CASE k \notin Keys(s)
  <2>1. Elems(s) \cap S = {}
    BY <1>4, <1>0 DEF Elems, Keys
  <2>2. p = s
    BY <2>1, <1>2, WithoutNone, Zenon
  <2>3. LenOf(s, k) = 0
    BY <1>4 DEF LenOf
  <2>4. Bytes(s) = Bytes(p) + LenOf(s, k)
    BY <2>2, <2>3, ListFacts
  <2>5. QED
    BY <2>4, <1>1, Zenon
<1>5. QED
  BY <1>3, <1>4

(* Removing a range of keys takes away what the entries of these keys      *)
(* weighed together.                                                       *)
LEMMA ForgetMany ==
  ASSUME NEW s \in Seq(Entries), NEW K
  PROVE  Bytes(s) = Bytes(Forget(s, K)) + Bytes(Forget(s, Key \ K))
<1> DEFINE A == {e \in Entries : e.key \in K}
           B == {e \in Entries : e.key \in Key \ K}
<1>1. \A e \in Entries : e \in A <=> e \notin B
  BY EntriesType
<1> HIDE DEF A, B
<1>2. Total(Weight, s) = Total(Weight, Without(s, A)) + Total(Weight, Without(s, B))
  BY <1>1, TotalDivided, WeightType
<1>3. QED
  BY <1>2, Zenon DEF Bytes, Forget, A, B

(* putMemory and addDiskLocked: the new entry replaces the one of its key, *)
(* and the counter changes by the difference of their lengths.             *)
LEMMA PutFacts ==
  ASSUME NEW s \in Seq(Entries), NEW e \in Entries
  PROVE  /\ Put(s, e) \in Seq(Entries)
         /\ Keys(Put(s, e)) = Keys(s) \cup {e.key}
         /\ OnePerKey(s) => OnePerKey(Put(s, e))
         /\ OnePerKey(s) => Bytes(Put(s, e)) = Bytes(s) - LenOf(s, e.key) + e.len
         /\ Whole(s) /\ e.len = Size[e.key] => Whole(Put(s, e))
<1>p. PICK p : p = Forget(s, {e.key})
  OBVIOUS
<1>q. PICK q : q = Append(p, e)
  OBVIOUS
<1>0. q = Put(s, e)
  BY <1>p, <1>q, Zenon DEF Put
<1>1. /\ p \in Seq(Entries) /\ Keys(p) = Keys(s) \ {e.key}
      /\ OnePerKey(s) => OnePerKey(p)
      /\ Whole(s) => Whole(p)
  BY <1>p, ForgetFacts, Zenon
<1>2. /\ q \in Seq(Entries)
      /\ DOMAIN q = 1..(Len(p) + 1)
      /\ DOMAIN p = 1..Len(p)
      /\ Len(p) \in Nat
      /\ \A i \in 1..Len(p) : q[i] = p[i]
      /\ q[Len(p) + 1] = e
      /\ Elems(q) = Elems(p) \cup {e}
  <2>1. p \in Seq(Entries)
    BY <1>1
  <2>2. QED
    BY <2>1, <1>q, AppendElems
<1>3. Keys(q) = Keys(s) \cup {e.key}
  <2>1. Keys(q) = {x.key : x \in Elems(p) \cup {e}}
    BY <1>2, KeysOfElems
  <2>2. Keys(p) = {x.key : x \in Elems(p)}
    BY KeysOfElems
  <2>3. QED
    BY <2>1, <2>2, <1>1
<1>4. \A i \in DOMAIN q : i = Len(p) + 1 \/ i \in DOMAIN p
  BY <1>2
<1>5. \A i \in DOMAIN p : p[i].key # e.key
  BY <1>1 DEF Keys
<1>6. OnePerKey(s) => OnePerKey(q)
  BY <1>1, <1>2, <1>4, <1>5 DEF OnePerKey
<1>7. OnePerKey(s) => Bytes(q) = Bytes(s) - LenOf(s, e.key) + e.len
  <2>1. SUFFICES ASSUME OnePerKey(s)
                 PROVE  Bytes(q) = Bytes(s) - LenOf(s, e.key) + e.len
    OBVIOUS
  <2>2. Bytes(s) = Bytes(p) + LenOf(s, e.key)
    BY <2>1, <1>p, ForgetOne, Zenon
  <2>3. Bytes(q) = Bytes(p) + Weight[e]
    BY <1>1, <1>q, TotalAppend, WeightType, Zenon DEF Bytes
  <2>4. /\ Bytes(p) \in Nat /\ Bytes(s) \in Nat /\ LenOf(s, e.key) \in Nat
        /\ Weight[e] = e.len /\ e.len \in Nat
    BY <1>1, ListFacts, LenOfType, EntriesType
  <2>5. QED
    BY <2>2, <2>3, <2>4
<1>8. Whole(s) /\ e.len = Size[e.key] => Whole(q)
  BY <1>1, <1>2, <1>4 DEF Whole
<1>9. QED
  BY <1>0, <1>2, <1>3, <1>6, <1>7, <1>8, Zenon

(* MoveToBack changes the order and nothing else.                          *)
LEMMA TouchedFacts ==
  ASSUME NEW s \in Seq(Entries), NEW k
  PROVE  /\ Touched(s, k) \in Seq(Entries)
         /\ Keys(Touched(s, k)) = Keys(s)
         /\ OnePerKey(s) => OnePerKey(Touched(s, k)) /\ Bytes(Touched(s, k)) = Bytes(s)
         /\ Whole(s) => Whole(Touched(s, k))
<1>1. CASE k \notin Keys(s)
  BY <1>1 DEF Touched
<1>2. CASE k \in Keys(s)
  <2>e. PICK e : e = Find(s, k)
    OBVIOUS
  <2>q. PICK q : q = Put(s, e)
    OBVIOUS
  <2>0. Touched(s, k) = q
    BY <1>2, <2>e, <2>q, Zenon DEF Touched
  <2>1. PICK i \in DOMAIN s : s[i].key = k /\ e = s[i]
    BY <1>2, <2>e, FindFacts, Zenon
  <2>2. e \in Entries /\ e.key = k /\ e.len \in Nat
    BY <2>1, ListFacts
  <2>3. LenOf(s, k) = e.len
    BY <1>2, <2>e DEF LenOf
  <2>4. /\ q \in Seq(Entries)
        /\ Keys(q) = Keys(s) \cup {e.key}
        /\ OnePerKey(s) => OnePerKey(q)
        /\ OnePerKey(s) => Bytes(q) = Bytes(s) - LenOf(s, e.key) + e.len
        /\ Whole(s) /\ e.len = Size[e.key] => Whole(q)
    BY <2>q, <2>2, PutFacts, Zenon
  <2>5. Bytes(s) \in Nat
    BY ListFacts
  <2>6. Whole(s) => e.len = Size[e.key]
    BY <2>1 DEF Whole
  <2>7. OnePerKey(s) => Bytes(q) = Bytes(s)
    BY <2>4, <2>5, <2>2, <2>3
  <2>8. Keys(q) = Keys(s)
    BY <2>4, <2>2, <1>2
  <2>9. QED
    BY <2>0, <2>4, <2>6, <2>7, <2>8, Zenon
<1>3. QED
  BY <1>1, <1>2

(* A trim removes entries from the front: their keys and their bytes are   *)
(* those that go.                                                          *)
LEMMA CutFacts ==
  ASSUME NEW s \in Seq(Entries), NEW n \in 0..Len(s)
  PROVE  /\ Front(s, n) \in Seq(Entries) /\ Drop(s, n) \in Seq(Entries)
         /\ Keys(s) = Keys(Front(s, n)) \cup Keys(Drop(s, n))
         /\ Bytes(s) = Bytes(Front(s, n)) + Bytes(Drop(s, n))
         /\ OnePerKey(s) => OnePerKey(Drop(s, n))
         /\ Whole(s) => Whole(Drop(s, n))
<1>a. PICK a : a = Front(s, n)
  OBVIOUS
<1>b. PICK b : b = Drop(s, n)
  OBVIOUS
<1>0. Len(s) \in Nat /\ DOMAIN s = 1..Len(s)
  BY ListFacts
<1>1. /\ a \in Seq(Entries) /\ b \in Seq(Entries)
      /\ Len(b) = Len(s) - n
      /\ \A i \in 1..(Len(s) - n) : b[i] = s[n + i]
  BY <1>a, <1>b, CutLists, Zenon
<1>2. DOMAIN b = 1..(Len(s) - n)
  BY <1>1, LenProperties
<1>3. \A i \in DOMAIN b : n + i \in DOMAIN s /\ b[i] = s[n + i] /\ i \in Int
  BY <1>0, <1>1, <1>2
<1>4. Elems(s) = Elems(a) \cup Elems(b)
  BY <1>a, <1>b, CutElems, Zenon
<1>5. Keys(s) = Keys(a) \cup Keys(b)
  <2>1. /\ Keys(s) = {x.key : x \in Elems(s)}
        /\ Keys(a) = {x.key : x \in Elems(a)}
        /\ Keys(b) = {x.key : x \in Elems(b)}
    BY KeysOfElems
  <2>2. QED
    BY <2>1, <1>4
<1>6. Bytes(s) = Bytes(a) + Bytes(b)
  BY <1>a, <1>b, TotalCut, WeightType, Zenon DEF Bytes
<1>7. OnePerKey(s) => OnePerKey(b)
  BY <1>3 DEF OnePerKey
<1>8. Whole(s) => Whole(b)
  BY <1>3 DEF Whole
<1>9. QED
  BY <1>a, <1>b, <1>1, <1>5, <1>6, <1>7, <1>8, Zenon

(* With an exact counter the trim loop ends within the limit, at the       *)
(* latest with an empty list.                                              *)
LEMMA TrimFacts ==
  ASSUME NEW s \in Seq(Entries), NEW limit \in Nat,
         NEW x, x = Excess(Weight, s, Bytes(s), limit)
  PROVE  x \in 0..Len(s) /\ Bytes(Drop(s, x)) <= limit
BY TrimFits, WeightType, Zenon DEF Bytes


-----------------------------------------------------------------------------
(* The inductive invariant                                                 *)

(* What each part keeps: memory,                                           *)
MemoryInv ==
  /\ mem \in Seq(Entries) /\ memBytes \in Nat
  /\ MemoryAccounted
  /\ Whole(mem)

(* the disk index,                                                         *)
IndexInv ==
  /\ index \in Seq(Entries) /\ diskBytes \in Nat
  /\ DiskAccounted

(* the directory, where loadDiskIndex finds one file for a chunk and only  *)
(* complete ones,                                                          *)
DirInv ==
  /\ files \in Seq(Entries) /\ parts \subseteq Key /\ unremoved \in BOOLEAN
  /\ OnePerKey(files)
  /\ Whole(files)

(* the disk writer, which has a file while it is busy and a complete one   *)
(* once it is renamed,                                                     *)
WriterInv ==
  /\ wpc \in {"idle", "temp", "renamed"}
  /\ temp \in Entries \cup {<<>>}
  /\ wpc # "idle" => temp \in Entries
  /\ wpc = "renamed" => temp.len = Size[temp.key]

(* the readers, which have an entry while they are in get and a whole one  *)
(* before they put it into memory,                                         *)
ReadersInv ==
  /\ rpc \in [Readers -> {"idle", "index", "read", "fill", "forget", "remove"}]
  /\ rdata \in [Readers -> Entries \cup {<<>>}]
  /\ \A r \in Readers : rpc[r] # "idle" => rdata[r] \in Entries
  /\ \A r \in Readers : rpc[r] = "fill" => rdata[r].len = Size[rdata[r].key]

(* and together with what relates the parts: the inductive invariant.      *)
StoreInv ==
  /\ up \in BOOLEAN
  /\ MemoryInv
  /\ IndexInv
  /\ DirInv
  /\ WriterInv
  /\ ReadersInv
  /\ DiskBudgetKept
  /\ NoOrphan

-----------------------------------------------------------------------------
(* What a step that leaves a part alone keeps.                             *)

(* A part whose variables do not change keeps what it keeps.               *)
LEMMA PartsKept ==
  /\ MemoryInv /\ UNCHANGED memVars => MemoryInv'
  /\ IndexInv /\ UNCHANGED diskVars => IndexInv'
  /\ DirInv /\ UNCHANGED dirVars => DirInv'
  /\ WriterInv /\ UNCHANGED writeVars => WriterInv'
  /\ ReadersInv /\ UNCHANGED readVars => ReadersInv'
<1>1. MemoryInv /\ UNCHANGED memVars => MemoryInv'
  BY DEF MemoryInv, memVars, MemoryAccounted, OnePerKey, Whole, Bytes
<1>2. IndexInv /\ UNCHANGED diskVars => IndexInv'
  BY DEF IndexInv, diskVars, DiskAccounted, OnePerKey, Bytes
<1>3. DirInv /\ UNCHANGED dirVars => DirInv'
  BY DEF DirInv, dirVars, OnePerKey, Whole
<1>4. WriterInv /\ UNCHANGED writeVars => WriterInv'
  BY DEF WriterInv, writeVars
<1>5. ReadersInv /\ UNCHANGED readVars => ReadersInv'
  BY DEF ReadersInv, readVars
<1>6. QED
  BY <1>1, <1>2, <1>3, <1>4, <1>5

(* A step that only lowers the counter of the disk keeps the budget.       *)
LEMMA BudgetKept ==
  ASSUME IndexInv, DiskBudgetKept, IndexInv',
         unremoved => unremoved', diskBytes' <= diskBytes
  PROVE  DiskBudgetKept'
BY ChunkStoreAssumption DEF IndexInv, DiskBudgetKept

(* A step makes no orphan unless it adds a file, takes a key from the      *)
(* index or ends a publication or a removal.                               *)
LEMMA OrphanKept ==
  ASSUME NoOrphan,
         up' => up, unremoved => unremoved',
         Keys(files') \subseteq Keys(files), Keys(index) \subseteq Keys(index'),
         wpc = "renamed" => wpc' = "renamed" /\ temp' = temp,
         \A r \in Readers :
           rpc[r] = "remove" => rpc'[r] = "remove" /\ rdata'[r] = rdata[r]
  PROVE  NoOrphan'
<1>1. SUFFICES ASSUME up', ~unremoved', NEW k \in Keys(files'), k \notin Keys(index')
               PROVE  \/ wpc' = "renamed" /\ temp'.key = k
                      \/ \E r \in Readers : rpc'[r] = "remove" /\ rdata'[r].key = k
  BY DEF NoOrphan, Keys
<1>2. \/ wpc = "renamed" /\ temp.key = k
      \/ \E r \in Readers : rpc[r] = "remove" /\ rdata[r].key = k
  BY <1>1 DEF NoOrphan
<1>3. QED
  BY <1>2

(* A step that touches neither the disk nor the writer, and disturbs no    *)
(* reader that removes a file, keeps what relates them.                    *)
LEMMA DiskKept ==
  ASSUME IndexInv, DiskBudgetKept, NoOrphan,
         UNCHANGED <<up, diskVars, dirVars, writeVars>>,
         \A r \in Readers :
           rpc[r] = "remove" => rpc'[r] = "remove" /\ rdata'[r] = rdata[r]
  PROVE  DiskBudgetKept' /\ NoOrphan'
<1>1. DiskBudgetKept'
  BY DEF DiskBudgetKept, diskVars, dirVars
<1>2. Keys(files') = Keys(files) /\ Keys(index') = Keys(index)
  BY DEF Keys, diskVars, dirVars
<1>3. NoOrphan'
  BY <1>2, OrphanKept DEF diskVars, dirVars, writeVars
<1>4. QED
  BY <1>1, <1>3

-----------------------------------------------------------------------------
(* Memory                                                                  *)

(* putMemory of a whole chunk, for every budget and every list.            *)
LEMMA PutMemoryKeeps ==
  ASSUME MemoryInv, NEW k \in Key, PutMemory(k, Size[k])
  PROVE  MemoryInv'
<1>1. CASE UNCHANGED memVars
  BY <1>1, PartsKept
<1>2. CASE ~ UNCHANGED memVars
  <2>e. PICK e : e = Entry(k, Size[k])
    OBVIOUS
  <2>s. PICK s : s = Put(mem, e)
    OBVIOUS
  <2>b. PICK bytes : bytes = memBytes - LenOf(mem, k) + Size[k]
    OBVIOUS
  <2>x. PICK x : x = Excess(Weight, s, bytes, MemLimit)
    OBVIOUS
  <2>1. mem' = Drop(s, x) /\ memBytes' = bytes - Bytes(Front(s, x))
    BY <1>2, <2>e, <2>s, <2>b, <2>x, Zenon DEF PutMemory
  <2>2. Size[k] \in Nat
    BY ChunkStoreAssumption
  <2>3. e \in Entries /\ e.key = k /\ e.len = Size[k]
    BY <2>e, <2>2, EntryType
  <2>4. mem \in Seq(Entries) /\ OnePerKey(mem) /\ memBytes = Bytes(mem) /\ Whole(mem)
    BY DEF MemoryInv, MemoryAccounted
  <2>5. /\ s \in Seq(Entries) /\ OnePerKey(s) /\ Whole(s)
        /\ Bytes(s) = Bytes(mem) - LenOf(mem, e.key) + e.len
    BY <2>s, <2>3, <2>4, PutFacts, Zenon
  <2>6. bytes = Bytes(s)
    BY <2>5, <2>b, <2>3, <2>4
  <2>7. MemLimit \in Nat
    BY ChunkStoreAssumption
  <2>8. x \in 0..Len(s) /\ Bytes(Drop(s, x)) <= MemLimit
    BY <2>5, <2>6, <2>7, <2>x, TrimFacts, Zenon
  <2>f. PICK a : a = Front(s, x)
    OBVIOUS
  <2>9. /\ a \in Seq(Entries) /\ mem' \in Seq(Entries)
        /\ OnePerKey(mem') /\ Whole(mem')
        /\ Bytes(s) = Bytes(a) + Bytes(mem')
    BY <2>1, <2>5, <2>8, <2>f, CutFacts, Zenon
  <2>10. Bytes(a) \in Nat /\ Bytes(mem') \in Nat
    BY <2>9, ListFacts
  <2>11. memBytes' = bytes - Bytes(a) /\ Bytes(mem') <= MemLimit
    BY <2>1, <2>8, <2>f, Zenon
  <2>12. memBytes' = Bytes(mem')
    BY <2>11, <2>6, <2>9, <2>10
  <2>13. memBytes' \in Nat /\ memBytes' <= MemLimit
    BY <2>10, <2>11, <2>12
  <2>14. QED
    BY <2>9, <2>12, <2>13 DEF MemoryInv, MemoryAccounted, Bytes, OnePerKey, Whole
<1>3. QED
  BY <1>1, <1>2

(* clearMemory, and the memory of a process that has ended.                *)
LEMMA EmptyMemory ==
  ASSUME mem' = <<>>, memBytes' = 0
  PROVE  MemoryInv'
<1>1. MemLimit \in Nat
  BY ChunkStoreAssumption
<1>2. QED
  BY <1>1, EmptyList DEF MemoryInv, MemoryAccounted, Bytes, OnePerKey, Whole

(* removeMemoryRange and pruneMemoryWindow, for every set of keys.         *)
LEMMA RemoveMemoryKeeps ==
  ASSUME MemoryInv, NEW S, RemoveMemory(S)
  PROVE  MemoryInv'
<1>1. mem \in Seq(Entries) /\ OnePerKey(mem) /\ memBytes = Bytes(mem) /\ Whole(mem)
      /\ memBytes <= MemLimit
  BY DEF MemoryInv, MemoryAccounted
<1>b. PICK b : b = Forget(mem, Key \ S)
  OBVIOUS
<1>2. mem' = Forget(mem, S) /\ memBytes' = memBytes - Bytes(b)
  BY <1>b DEF RemoveMemory
<1>3. mem' \in Seq(Entries) /\ OnePerKey(mem') /\ Whole(mem') /\ b \in Seq(Entries)
  BY <1>1, <1>2, <1>b, ForgetFacts, Zenon
<1>4. Bytes(mem) = Bytes(mem') + Bytes(b)
  BY <1>1, <1>2, <1>b, ForgetMany, Zenon
<1>5. Bytes(mem) \in Nat /\ Bytes(mem') \in Nat /\ Bytes(b) \in Nat /\ MemLimit \in Nat
  BY <1>1, <1>3, ListFacts, ChunkStoreAssumption
<1>6. memBytes' = Bytes(mem') /\ memBytes' \in Nat /\ memBytes' <= MemLimit
  BY <1>1, <1>2, <1>4, <1>5
<1>7. QED
  BY <1>3, <1>6 DEF MemoryInv, MemoryAccounted, Bytes, OnePerKey, Whole

(* The steps that only concern memory keep the invariant.                  *)
LEMMA MemoryStepKeeps ==
  ASSUME StoreInv, MemoryStep
  PROVE  StoreInv'
<1> USE DEF StoreInv
<1>1. MemoryInv'
  <2>1. CASE ClearMemory
    BY <2>1, EmptyMemory DEF ClearMemory
  <2>2. ASSUME NEW k \in Key, PutDownloaded(k)
        PROVE  MemoryInv'
    BY <2>2, PutMemoryKeeps DEF PutDownloaded
  <2>3. ASSUME NEW v \in Versions, NEW a \in Indexes, NEW b \in Indexes,
               RemoveMemoryRange(v, a, b) \/ PruneMemoryWindow(v, a, b)
        PROVE  MemoryInv'
    BY <2>3, RemoveMemoryKeeps, Zenon DEF RemoveMemoryRange, PruneMemoryWindow
  <2>4. QED
    BY <2>1, <2>2, <2>3 DEF MemoryStep
<1>2. UNCHANGED <<up, diskVars, dirVars, writeVars, readVars>>
  BY DEF MemoryStep, ClearMemory, PutDownloaded, RemoveMemoryRange,
         PruneMemoryWindow, RemoveMemory
<1>3. IndexInv' /\ DirInv' /\ WriterInv' /\ ReadersInv' /\ up' \in BOOLEAN
  BY <1>2, PartsKept
<1>4. DiskBudgetKept' /\ NoOrphan'
  BY <1>2, DiskKept DEF readVars
<1>5. QED
  BY <1>1, <1>3, <1>4

-----------------------------------------------------------------------------
(* Reads                                                                   *)

(* A look at the index moves an entry.                                     *)
LEMMA TouchIndexKeeps ==
  ASSUME IndexInv, NEW k, index' = Touched(index, k), UNCHANGED diskBytes
  PROVE  IndexInv' /\ Keys(index') = Keys(index)
<1>1. index \in Seq(Entries) /\ OnePerKey(index) /\ diskBytes = Bytes(index)
  BY DEF IndexInv, DiskAccounted
<1>2. /\ index' \in Seq(Entries) /\ Keys(index') = Keys(index)
      /\ OnePerKey(index') /\ Bytes(index') = Bytes(index)
  BY <1>1, TouchedFacts, Zenon
<1>3. QED
  BY <1>1, <1>2 DEF IndexInv, DiskAccounted, Bytes, OnePerKey

(* A reader leaves get.                                                    *)
LEMMA IdleKeeps ==
  ASSUME ReadersInv, NEW r \in Readers, Idle(r)
  PROVE  ReadersInv'
BY DEF ReadersInv, Idle

(* get of a chunk in memory and the miss that goes on with the disk.       *)
LEMMA GetKeeps ==
  ASSUME StoreInv, NEW r \in Readers, Get(r)
  PROVE  StoreInv'
<1> USE DEF StoreInv
<1>1. ASSUME NEW k \in Key, MissMemory(r, k)
      PROVE  StoreInv'
  <2>1. UNCHANGED <<up, memVars, diskVars, dirVars, writeVars>>
    BY <1>1 DEF MissMemory
  <2>2. MemoryInv' /\ IndexInv' /\ DirInv' /\ WriterInv' /\ up' \in BOOLEAN
    BY <2>1, PartsKept
  <2>3. Entry(k, 0) \in Entries
    BY EntryType, ChunkStoreAssumption
  <2>4. ReadersInv'
    BY <1>1, <2>3 DEF ReadersInv, MissMemory
  <2>5. DiskBudgetKept' /\ NoOrphan'
    BY <2>1, <1>1, DiskKept DEF MissMemory, ReadersInv
  <2>6. QED
    BY <2>2, <2>4, <2>5
<1>2. ASSUME NEW k \in Key, NEW touch \in BOOLEAN, GetMemory(r, k, touch)
      PROVE  StoreInv'
  <2>1. UNCHANGED <<up, diskVars, dirVars, writeVars, readVars>>
    BY <1>2 DEF GetMemory
  <2>2. IndexInv' /\ DirInv' /\ WriterInv' /\ ReadersInv' /\ up' \in BOOLEAN
    BY <2>1, PartsKept
  <2>3. DiskBudgetKept' /\ NoOrphan'
    BY <2>1, DiskKept DEF readVars
  <2>4. /\ mem \in Seq(Entries) /\ OnePerKey(mem) /\ memBytes = Bytes(mem) /\ Whole(mem)
        /\ memBytes <= MemLimit /\ memBytes \in Nat
    BY DEF MemoryInv, MemoryAccounted
  <2>5. /\ mem' \in Seq(Entries) /\ OnePerKey(mem') /\ Whole(mem')
        /\ Bytes(mem') = Bytes(mem)
    <3>1. CASE touch
      <4>1. mem' = Touched(mem, k)
        BY <1>2, <3>1 DEF GetMemory
      <4>2. QED
        BY <4>1, <2>4, TouchedFacts, Zenon
    <3>2. CASE ~touch
      <4>1. mem' = mem
        BY <1>2, <3>2 DEF GetMemory
      <4>2. QED
        BY <4>1, <2>4
    <3>3. QED
      BY <3>1, <3>2
  <2>6. memBytes' = memBytes
    BY <1>2 DEF GetMemory
  <2>7. MemoryInv'
    BY <2>4, <2>5, <2>6 DEF MemoryInv, MemoryAccounted, Bytes, OnePerKey, Whole
  <2>8. QED
    BY <2>2, <2>3, <2>7
<1>3. QED
  BY <1>1, <1>2 DEF Get

(* removeDiskLocked keeps the counter equal to what is indexed, whoever    *)
(* changed the index since the reader looked at it.                        *)
LEMMA UnindexedKeeps ==
  ASSUME IndexInv, NEW k, Unindexed(k)
  PROVE  IndexInv' /\ Keys(index') = Keys(index) \ {k} /\ diskBytes' <= diskBytes
<1>1. index \in Seq(Entries) /\ OnePerKey(index) /\ diskBytes = Bytes(index)
  BY DEF IndexInv, DiskAccounted
<1>2. index' = Forget(index, {k}) /\ diskBytes' = diskBytes - LenOf(index, k)
  BY DEF Unindexed
<1>3. index' \in Seq(Entries) /\ OnePerKey(index') /\ Keys(index') = Keys(index) \ {k}
  BY <1>1, <1>2, ForgetFacts, Zenon
<1>4. Bytes(index) = Bytes(index') + LenOf(index, k)
  BY <1>1, <1>2, ForgetOne, Zenon
<1>5. Bytes(index) \in Nat /\ Bytes(index') \in Nat /\ LenOf(index, k) \in Nat
  BY <1>1, <1>3, ListFacts, LenOfType
<1>6. diskBytes' = Bytes(index') /\ diskBytes' \in Nat /\ diskBytes' <= diskBytes
  BY <1>1, <1>2, <1>4, <1>5
<1>7. QED
  BY <1>3, <1>6 DEF IndexInv, DiskAccounted, Bytes, OnePerKey

(* The steps of a reader on the disk keep the invariant: an unreadable     *)
(* chunk leaves the index before its file goes.                            *)
LEMMA ReaderStepKeeps ==
  ASSUME StoreInv, NEW r \in Readers, ReaderStep(r)
  PROVE  StoreInv'
<1> USE DEF StoreInv
<1>1. CASE LookIndex(r)
  <2>1. UNCHANGED <<up, memVars, diskBytes, dirVars, writeVars>>
    BY <1>1 DEF LookIndex
  <2>2. MemoryInv' /\ DirInv' /\ WriterInv' /\ up' \in BOOLEAN
    BY <2>1, PartsKept
  <2>3. IndexInv' /\ Keys(index') = Keys(index)
    BY <1>1, TouchIndexKeeps DEF LookIndex
  <2>4. ReadersInv'
    BY <1>1, IdleKeeps DEF LookIndex, ReadersInv
  <2>5. \A q \in Readers :
          rpc[q] = "remove" => rpc'[q] = "remove" /\ rdata'[q] = rdata[q]
    BY <1>1 DEF LookIndex, ReadersInv, Idle
  <2>6. DiskBudgetKept'
    BY <2>1 DEF DiskBudgetKept, dirVars
  <2>7. Keys(files') = Keys(files)
    BY <2>1 DEF Keys, dirVars
  <2>8. NoOrphan'
    BY <2>1, <2>3, <2>5, <2>7, OrphanKept DEF dirVars, writeVars
  <2>9. QED
    BY <2>2, <2>3, <2>4, <2>6, <2>8
<1>2. CASE ReadFile(r)
  <2>1. UNCHANGED <<up, memVars, diskVars, dirVars, writeVars>>
    BY <1>2 DEF ReadFile
  <2>2. MemoryInv' /\ IndexInv' /\ DirInv' /\ WriterInv' /\ up' \in BOOLEAN
    BY <2>1, PartsKept
  <2>3. rdata[r] \in Entries /\ rdata[r].key \in Key
    BY <1>2, EntriesType DEF ReadFile, ReadersInv
  <2>k. PICK k : k = rdata[r].key
    OBVIOUS
  <2>4. ASSUME k \in Keys(files), rpc' = [rpc EXCEPT ![r] = "fill"],
               rdata' = [rdata EXCEPT ![r] = Entry(k, LenOf(files, k))]
        PROVE  ReadersInv'
    <3>1. files \in Seq(Entries) /\ Whole(files)
      BY DEF DirInv
    <3>2. PICK i \in DOMAIN files : files[i].key = k /\ Find(files, k) = files[i]
      BY <3>1, <2>4, FindFacts, Zenon
    <3>3. LenOf(files, k) = Size[k]
      BY <3>1, <3>2, <2>4 DEF LenOf, Whole
    <3>4. Entry(k, LenOf(files, k)) \in Entries
          /\ Entry(k, LenOf(files, k)).len = Size[Entry(k, LenOf(files, k)).key]
      BY <3>3, <2>3, <2>k, EntryType, ChunkStoreAssumption
    <3>5. QED
      BY <2>4, <3>4 DEF ReadersInv
  <2>5. ASSUME rpc' = [rpc EXCEPT ![r] = "forget"], UNCHANGED rdata
        PROVE  ReadersInv'
    BY <2>3, <2>5 DEF ReadersInv
  <2>6. ReadersInv'
    BY <1>2, <2>k, <2>4, <2>5 DEF ReadFile
  <2>7. \A q \in Readers :
          rpc[q] = "remove" => rpc'[q] = "remove" /\ rdata'[q] = rdata[q]
    BY <1>2 DEF ReadFile, ReadersInv
  <2>8. DiskBudgetKept' /\ NoOrphan'
    BY <2>1, <2>7, DiskKept
  <2>9. QED
    BY <2>2, <2>6, <2>8
<1>3. CASE FillMemory(r)
  <2>1. UNCHANGED <<up, diskVars, dirVars, writeVars>>
    BY <1>3 DEF FillMemory
  <2>2. IndexInv' /\ DirInv' /\ WriterInv' /\ up' \in BOOLEAN
    BY <2>1, PartsKept
  <2>3. rdata[r].key \in Key /\ rdata[r].len = Size[rdata[r].key]
    BY <1>3, EntriesType DEF FillMemory, ReadersInv
  <2>4. PutMemory(rdata[r].key, Size[rdata[r].key])
    BY <1>3, <2>3 DEF FillMemory
  <2>5. MemoryInv'
    BY <2>3, <2>4, PutMemoryKeeps
  <2>6. ReadersInv'
    BY <1>3, IdleKeeps DEF FillMemory
  <2>7. \A q \in Readers :
          rpc[q] = "remove" => rpc'[q] = "remove" /\ rdata'[q] = rdata[q]
    BY <1>3 DEF FillMemory, ReadersInv, Idle
  <2>8. DiskBudgetKept' /\ NoOrphan'
    BY <2>1, <2>7, DiskKept
  <2>9. QED
    BY <2>2, <2>5, <2>6, <2>8
<1>4. CASE ForgetIndex(r)
  <2>1. UNCHANGED <<up, memVars, dirVars, writeVars, rdata>>
    BY <1>4 DEF ForgetIndex
  <2>2. MemoryInv' /\ DirInv' /\ WriterInv' /\ up' \in BOOLEAN
    BY <2>1, PartsKept
  <2>k. PICK k : k = rdata[r].key
    OBVIOUS
  <2>3. IndexInv' /\ Keys(index') = Keys(index) \ {k} /\ diskBytes' <= diskBytes
    BY <1>4, <2>k, UnindexedKeeps DEF ForgetIndex
  <2>4. ReadersInv'
    BY <1>4 DEF ForgetIndex, ReadersInv
  <2>5. DiskBudgetKept'
    BY <2>1, <2>3, BudgetKept DEF dirVars
  <2>6. Keys(files') = Keys(files)
    BY <2>1 DEF Keys, dirVars
  <2>7. rpc' = [rpc EXCEPT ![r] = "remove"] /\ rdata' = rdata /\ rpc[r] = "forget"
        /\ rpc \in [Readers -> {"idle", "index", "read", "fill", "forget", "remove"}]
    BY <1>4 DEF ForgetIndex, ReadersInv
  <2>8. ASSUME NEW j \in Keys(files'), j \notin Keys(index'), up', ~unremoved'
        PROVE  \/ wpc' = "renamed" /\ temp'.key = j
               \/ \E q \in Readers : rpc'[q] = "remove" /\ rdata'[q].key = j
    <3>1. CASE j = k
      BY <3>1, <2>7, <2>k
    <3>2. CASE j # k
      <4>1. j \in Keys(files) \ Keys(index) /\ up /\ ~unremoved
        BY <2>8, <3>2, <2>3, <2>6, <2>1 DEF dirVars
      <4>2. \/ wpc = "renamed" /\ temp.key = j
            \/ \E q \in Readers : rpc[q] = "remove" /\ rdata[q].key = j
        BY <4>1 DEF NoOrphan
      <4>3. QED
        BY <4>2, <2>7, <2>1 DEF writeVars
    <3>3. QED
      BY <3>1, <3>2
  <2>9. NoOrphan'
    BY <2>8 DEF NoOrphan, Keys
  <2>10. QED
    BY <2>2, <2>3, <2>4, <2>5, <2>9
<1>5. CASE ForgetFile(r)
  <2>1. UNCHANGED <<up, memVars, diskVars, parts, writeVars>>
    BY <1>5 DEF ForgetFile
  <2>2. MemoryInv' /\ IndexInv' /\ WriterInv' /\ up' \in BOOLEAN
    BY <2>1, PartsKept
  <2>3. ReadersInv'
    BY <1>5, IdleKeeps DEF ForgetFile
  <2>k. PICK k : k = rdata[r].key
    OBVIOUS
  <2>4. CASE files' = Forget(files, {k}) /\ UNCHANGED unremoved
    <3>1. files \in Seq(Entries) /\ OnePerKey(files) /\ Whole(files)
      BY DEF DirInv
    <3>2. /\ files' \in Seq(Entries) /\ OnePerKey(files') /\ Whole(files')
          /\ Keys(files') = Keys(files) \ {k}
      BY <3>1, <2>4, ForgetFacts, Zenon
    <3>3. DirInv'
      BY <3>2, <2>4, <2>1 DEF DirInv, OnePerKey, Whole
    <3>4. DiskBudgetKept'
      BY <2>1, <2>4 DEF DiskBudgetKept, diskVars
    <3>5. Keys(index') = Keys(index)
      BY <2>1 DEF Keys, diskVars
    <3>6. ASSUME NEW j \in Keys(files'), j \notin Keys(index'), up', ~unremoved'
          PROVE  \/ wpc' = "renamed" /\ temp'.key = j
                 \/ \E q \in Readers : rpc'[q] = "remove" /\ rdata'[q].key = j
      <4>1. j \in Keys(files) \ Keys(index) /\ up /\ ~unremoved /\ j # k
        BY <3>6, <3>2, <3>5, <2>1, <2>4
      <4>2. \/ wpc = "renamed" /\ temp.key = j
            \/ \E q \in Readers : rpc[q] = "remove" /\ rdata[q].key = j
        BY <4>1 DEF NoOrphan
      <4>3. \A q \in Readers : q # r => rpc'[q] = rpc[q] /\ rdata'[q] = rdata[q]
        BY <1>5 DEF ForgetFile, Idle, ReadersInv
      <4>4. QED
        BY <4>1, <4>2, <4>3, <2>1, <2>k DEF writeVars
    <3>7. NoOrphan'
      BY <3>6 DEF NoOrphan, Keys
    <3>8. QED
      BY <2>2, <2>3, <3>3, <3>4, <3>7
  <2>5. CASE UNCHANGED files /\ unremoved' = TRUE
    <3>1. DirInv'
      BY <2>5, <2>1 DEF DirInv, OnePerKey, Whole
    <3>2. DiskBudgetKept' /\ NoOrphan'
      BY <2>5 DEF DiskBudgetKept, NoOrphan
    <3>3. QED
      BY <2>2, <2>3, <3>1, <3>2
  <2>6. QED
    BY <1>5, <2>k, <2>4, <2>5 DEF ForgetFile
<1>6. QED
  BY <1>1, <1>2, <1>3, <1>4, <1>5 DEF ReaderStep

(* length moves an entry of the index.                                     *)
LEMMA LengthKeeps ==
  ASSUME StoreInv, NEW k \in Key, Length(k)
  PROVE  StoreInv'
<1> USE DEF StoreInv
<1>1. UNCHANGED <<up, memVars, diskBytes, dirVars, writeVars, readVars>>
  BY DEF Length
<1>2. MemoryInv' /\ DirInv' /\ WriterInv' /\ ReadersInv' /\ up' \in BOOLEAN
  BY <1>1, PartsKept
<1>3. IndexInv' /\ Keys(index') = Keys(index)
  BY TouchIndexKeeps DEF Length
<1>4. DiskBudgetKept'
  BY <1>1 DEF DiskBudgetKept, dirVars
<1>5. Keys(files') = Keys(files)
  BY <1>1 DEF Keys, dirVars
<1>6. NoOrphan'
  BY <1>1, <1>3, <1>5, OrphanKept DEF dirVars, writeVars, readVars
<1>7. QED
  BY <1>2, <1>3, <1>4, <1>6

-----------------------------------------------------------------------------
(* The disk writer                                                         *)

(* putDisk writes a temporary file, perhaps a part of it.                  *)
LEMMA WriteTempKeeps ==
  ASSUME StoreInv, NEW k \in Key, NEW n \in 0..Size[k], WriteTemp(k, n)
  PROVE  StoreInv'
<1> USE DEF StoreInv
<1>1. UNCHANGED <<up, memVars, diskVars, dirVars, readVars>>
  BY DEF WriteTemp
<1>2. MemoryInv' /\ IndexInv' /\ DirInv' /\ ReadersInv' /\ up' \in BOOLEAN
  BY <1>1, PartsKept
<1>3. Entry(k, n) \in Entries
  BY EntryType, ChunkStoreAssumption
<1>4. WriterInv'
  BY <1>3 DEF WriteTemp, WriterInv
<1>5. DiskBudgetKept'
  BY <1>1 DEF DiskBudgetKept, dirVars, diskVars
<1>6. Keys(files') = Keys(files) /\ Keys(index') = Keys(index)
  BY <1>1 DEF Keys, dirVars, diskVars
<1>7. wpc # "renamed"
  BY DEF WriteTemp
<1>8. NoOrphan'
  BY <1>1, <1>6, <1>7, OrphanKept DEF dirVars, readVars
<1>9. QED
  BY <1>2, <1>4, <1>5, <1>8

(* The rename of a complete file: it is an orphan that the writer answers  *)
(* for until it is indexed.                                                *)
LEMMA RenameKeeps ==
  ASSUME StoreInv, Rename
  PROVE  StoreInv'
<1> USE DEF StoreInv
<1>1. UNCHANGED <<up, memVars, diskVars, parts, unremoved, temp, readVars>>
  BY DEF Rename
<1>2. MemoryInv' /\ IndexInv' /\ ReadersInv' /\ up' \in BOOLEAN
  BY <1>1, PartsKept
<1>3. temp \in Entries /\ temp.len = Size[temp.key]
  BY DEF Rename, WriterInv
<1>4. WriterInv'
  BY <1>1, <1>3 DEF Rename, WriterInv
<1>5. files \in Seq(Entries) /\ OnePerKey(files) /\ Whole(files) /\ files' = Put(files, temp)
  BY DEF DirInv, Rename
<1>6. /\ files' \in Seq(Entries) /\ OnePerKey(files') /\ Whole(files')
      /\ Keys(files') = Keys(files) \cup {temp.key}
  BY <1>3, <1>5, PutFacts, Zenon
<1>7. DirInv'
  BY <1>1, <1>6 DEF DirInv, OnePerKey, Whole
<1>8. DiskBudgetKept'
  BY <1>1 DEF DiskBudgetKept, diskVars
<1>9. Keys(index') = Keys(index)
  BY <1>1 DEF Keys, diskVars
<1>10. wpc = "temp" /\ wpc' = "renamed" /\ temp' = temp
  BY DEF Rename
<1>11. ASSUME NEW j \in Keys(files'), j \notin Keys(index'), up', ~unremoved'
       PROVE  \/ wpc' = "renamed" /\ temp'.key = j
              \/ \E q \in Readers : rpc'[q] = "remove" /\ rdata'[q].key = j
  <2>1. CASE j = temp.key
    BY <2>1, <1>10
  <2>2. CASE j # temp.key
    <3>1. j \in Keys(files) \ Keys(index) /\ up /\ ~unremoved
      BY <1>11, <2>2, <1>6, <1>9, <1>1
    <3>2. \E q \in Readers : rpc[q] = "remove" /\ rdata[q].key = j
      BY <3>1, <1>10 DEF NoOrphan
    <3>3. QED
      BY <3>2, <1>1 DEF readVars
  <2>3. QED
    BY <2>1, <2>2
<1>12. NoOrphan'
  BY <1>11 DEF NoOrphan, Keys
<1>13. QED
  BY <1>2, <1>4, <1>7, <1>8, <1>12

(* A write that fails leaves no chunk file.                                *)
LEMMA AbandonTempKeeps ==
  ASSUME StoreInv, AbandonTemp
  PROVE  StoreInv'
<1> USE DEF StoreInv
<1>1. UNCHANGED <<up, memVars, diskVars, files, unremoved, readVars>>
  BY DEF AbandonTemp
<1>2. MemoryInv' /\ IndexInv' /\ ReadersInv' /\ up' \in BOOLEAN
  BY <1>1, PartsKept
<1>3. temp.key \in Key
  BY EntriesType DEF AbandonTemp, WriterInv
<1>4. parts' \subseteq Key
  BY <1>3 DEF AbandonTemp, DirInv
<1>5. DirInv' /\ WriterInv'
  BY <1>1, <1>4 DEF DirInv, WriterInv, AbandonTemp, OnePerKey, Whole
<1>6. DiskBudgetKept'
  BY <1>1 DEF DiskBudgetKept, diskVars
<1>7. Keys(files') = Keys(files) /\ Keys(index') = Keys(index)
  BY <1>1 DEF Keys, diskVars
<1>8. wpc # "renamed"
  BY DEF AbandonTemp
<1>9. NoOrphan'
  BY <1>1, <1>7, <1>8, OrphanKept DEF readVars
<1>10. QED
  BY <1>2, <1>5, <1>6, <1>9

(* A trim removes no more entries than there are.                          *)
LEMMA TrimsCut ==
  ASSUME NEW s \in Seq(Entries), NEW n \in Trims(s, Bytes(s))
  PROVE  n \in 0..Len(s)
<1>x. PICK x : x = Excess(Weight, s, Bytes(s), DiskLimit)
  OBVIOUS
<1>1. x \in 0..Len(s)
  BY <1>x, TrimFacts, ChunkStoreAssumption, Zenon
<1>2. n = x \/ n \in 0..(x - 1)
  BY <1>x DEF Trims
<1>3. QED
  BY <1>1, <1>2, ListFacts

(* addDiskLocked and trimDiskLocked in one section: counter, budget, index *)
(* and files agree afterwards, or a removal has failed.                    *)
LEMMA PublishKeeps ==
  ASSUME StoreInv, Publish
  PROVE  StoreInv'
<1> USE DEF StoreInv
<1>s. PICK s : s = Put(index, temp)
  OBVIOUS
<1>b. PICK bytes : bytes = Added(temp.key, temp.len)
  OBVIOUS
<1>x. PICK x : x = Excess(Weight, s, bytes, DiskLimit)
  OBVIOUS
<1>1. UNCHANGED <<up, memVars, parts, readVars>>
      /\ wpc = "renamed" /\ wpc' = "idle" /\ temp' = <<>>
  BY DEF Publish
<1>2. PICK n \in Trims(s, bytes) :
        /\ index' = Drop(s, n)
        /\ diskBytes' = bytes - Bytes(Front(s, n))
        /\ files' = FilesAfterTrim(s, n)
        /\ unremoved' = (unremoved \/ n # x)
  BY <1>s, <1>b, <1>x, Zenon DEF Publish
<1>3. MemoryInv' /\ ReadersInv' /\ up' \in BOOLEAN
  BY <1>1, PartsKept
<1>4. WriterInv'
  BY <1>1 DEF WriterInv
<1>5. temp \in Entries
  BY <1>1 DEF WriterInv
<1>6. index \in Seq(Entries) /\ OnePerKey(index) /\ diskBytes = Bytes(index)
  BY DEF IndexInv, DiskAccounted
<1>7. /\ s \in Seq(Entries) /\ OnePerKey(s) /\ Keys(s) = Keys(index) \cup {temp.key}
      /\ Bytes(s) = Bytes(index) - LenOf(index, temp.key) + temp.len
  BY <1>s, <1>5, <1>6, PutFacts, Zenon
<1>8. bytes = Bytes(s)
  BY <1>b, <1>6, <1>7 DEF Added
<1>9. n \in 0..Len(s)
  BY <1>2, <1>7, <1>8, TrimsCut, Zenon
<1>a. PICK a : a = Front(s, n)
  OBVIOUS
<1>10. /\ a \in Seq(Entries) /\ index' \in Seq(Entries)
       /\ Keys(s) = Keys(a) \cup Keys(index')
       /\ Bytes(s) = Bytes(a) + Bytes(index')
       /\ OnePerKey(index')
  BY <1>a, <1>2, <1>7, <1>9, CutFacts, Zenon
<1>11. diskBytes' = bytes - Bytes(a)
  BY <1>2, <1>a, Zenon
<1>12. Bytes(a) \in Nat /\ Bytes(index') \in Nat
  BY <1>10, ListFacts
<1>13. diskBytes' = Bytes(index') /\ diskBytes' \in Nat
  BY <1>8, <1>10, <1>11, <1>12
<1>14. IndexInv'
  BY <1>10, <1>13 DEF IndexInv, DiskAccounted, Bytes, OnePerKey
<1>15. files \in Seq(Entries) /\ OnePerKey(files) /\ Whole(files) /\ unremoved \in BOOLEAN
  BY DEF DirInv
<1>16. files' = Forget(files, Keys(a))
  BY <1>2, <1>a, Zenon DEF FilesAfterTrim
<1>17. /\ files' \in Seq(Entries) /\ OnePerKey(files') /\ Whole(files')
       /\ Keys(files') = Keys(files) \ Keys(a)
  BY <1>15, <1>16, ForgetFacts, Zenon
<1>18. unremoved' \in BOOLEAN /\ (~unremoved' => ~unremoved /\ n = x)
  BY <1>2, <1>15, Zenon
<1>19. DirInv'
  BY <1>1, <1>17, <1>18 DEF DirInv, OnePerKey, Whole
<1>20. DiskBudgetKept'
  <2>1. SUFFICES ASSUME n = x
                 PROVE  diskBytes' <= DiskLimit
    BY <1>18 DEF DiskBudgetKept
  <2>2. Bytes(Drop(s, n)) <= DiskLimit
    BY <2>1, <1>x, <1>7, <1>8, TrimFacts, ChunkStoreAssumption, Zenon
  <2>3. Bytes(index') <= DiskLimit
    BY <2>2, <1>2, Zenon
  <2>4. QED
    BY <2>3, <1>13
<1>21. ASSUME NEW j \in Keys(files'), j \notin Keys(index'), up', ~unremoved'
       PROVE  \/ wpc' = "renamed" /\ temp'.key = j
              \/ \E q \in Readers : rpc'[q] = "remove" /\ rdata'[q].key = j
  <2>1. j \in Keys(files) \ Keys(index) /\ up /\ ~unremoved /\ j # temp.key
    BY <1>21, <1>1, <1>7, <1>10, <1>17, <1>18
  <2>2. \E q \in Readers : rpc[q] = "remove" /\ rdata[q].key = j
    BY <2>1 DEF NoOrphan
  <2>3. QED
    BY <2>2, <1>1 DEF readVars
<1>22. NoOrphan'
  BY <1>21 DEF NoOrphan, Keys
<1>23. QED
  BY <1>3, <1>4, <1>14, <1>19, <1>20, <1>22

-----------------------------------------------------------------------------
(* The life of the process                                                 *)

(* A crash leaves whole chunk files and nothing else that counts.          *)
LEMMA CrashKeeps ==
  ASSUME StoreInv, Crash
  PROVE  StoreInv'
<1> USE DEF StoreInv
<1>1. MemoryInv'
  BY EmptyMemory DEF Crash
<1>2. IndexInv'
  BY EmptyList DEF Crash, IndexInv, DiskAccounted, Bytes, OnePerKey
<1>3. WriterInv' /\ ReadersInv'
  BY DEF Crash, WriterInv, ReadersInv
<1>4. wpc = "temp" => temp.key \in Key
  BY EntriesType DEF WriterInv
<1>5. parts' \subseteq Key
  BY <1>4 DEF Crash, DirInv
<1>6. DirInv'
  BY <1>5 DEF Crash, DirInv, OnePerKey, Whole
<1>7. DiskBudgetKept' /\ NoOrphan' /\ up' \in BOOLEAN
  <2>1. up' = FALSE /\ diskBytes' = 0 /\ 0 <= DiskLimit
    BY ChunkStoreAssumption DEF Crash
  <2>2. QED
    BY <2>1 DEF DiskBudgetKept, NoOrphan
<1>8. QED
  BY <1>1, <1>2, <1>3, <1>6, <1>7

(* newChunkStore indexes exactly the files it keeps.                       *)
LEMMA StartKeeps ==
  ASSUME StoreInv, Start
  PROVE  StoreInv'
<1> USE DEF StoreInv
<1>1. UNCHANGED <<memVars, writeVars, readVars>> /\ ~up
  BY DEF Start
<1>2. MemoryInv' /\ WriterInv' /\ ReadersInv'
  BY <1>1, PartsKept
<1>3. CASE RemovePartialFails
  <2>1. UNCHANGED <<up, diskVars, files, unremoved>> /\ parts' \subseteq parts
    BY <1>3 DEF RemovePartialFails
  <2>2. IndexInv' /\ up' \in BOOLEAN
    BY <2>1, PartsKept
  <2>3. DirInv' /\ DiskBudgetKept' /\ NoOrphan'
    BY <2>1, <1>1 DEF DirInv, OnePerKey, Whole, DiskBudgetKept, NoOrphan, diskVars
  <2>4. QED
    BY <1>2, <2>2, <2>3
<1>4. CASE LoadDiskIndex
  <2>x. PICK x : x = Excess(Weight, files, Bytes(files), DiskLimit)
    OBVIOUS
  <2>1. parts' = {} /\ unremoved' = unremoved
    BY <1>4 DEF LoadDiskIndex
  <2>2. PICK n \in Trims(files, Bytes(files)) :
          /\ files' = Drop(files, n)
          /\ IF n = x
             THEN up' = TRUE /\ index' = files' /\ diskBytes' = Bytes(files')
             ELSE UNCHANGED <<up, diskVars>>
    BY <1>4, <2>x, Zenon DEF LoadDiskIndex
  <2>3. files \in Seq(Entries) /\ OnePerKey(files) /\ Whole(files)
    BY DEF DirInv
  <2>4. n \in 0..Len(files)
    BY <2>2, <2>3, TrimsCut, Zenon
  <2>5. files' \in Seq(Entries) /\ OnePerKey(files') /\ Whole(files')
    BY <2>2, <2>3, <2>4, CutFacts, Zenon
  <2>6. DirInv'
    BY <2>1, <2>5 DEF DirInv, OnePerKey, Whole
  <2>7. CASE n = x
    <3>1. up' = TRUE /\ index' = files' /\ diskBytes' = Bytes(files')
      BY <2>2, <2>7
    <3>2. Bytes(Drop(files, n)) <= DiskLimit
      BY <2>7, <2>x, <2>3, TrimFacts, ChunkStoreAssumption, Zenon
    <3>3. Bytes(files') <= DiskLimit
      BY <3>2, <2>2, Zenon
    <3>4. Bytes(files') \in Nat
      BY <2>5, ListFacts
    <3>5. IndexInv'
      BY <3>1, <3>4, <2>5 DEF IndexInv, DiskAccounted, Bytes, OnePerKey
    <3>6. DiskBudgetKept'
      BY <3>1, <3>3 DEF DiskBudgetKept
    <3>7. Keys(files') = Keys(index')
      BY <3>1 DEF Keys
    <3>8. NoOrphan'
      BY <3>1 DEF NoOrphan, Keys
    <3>9. QED
      BY <1>2, <2>6, <3>1, <3>5, <3>6, <3>8
  <2>8. CASE n # x
    <3>1. UNCHANGED <<up, diskVars>>
      BY <2>2, <2>8
    <3>2. IndexInv' /\ up' \in BOOLEAN
      BY <3>1, PartsKept
    <3>3. DiskBudgetKept' /\ NoOrphan'
      BY <3>1, <2>1, <1>1 DEF DiskBudgetKept, NoOrphan, diskVars
    <3>4. QED
      BY <1>2, <2>6, <3>2, <3>3
  <2>9. QED
    BY <2>7, <2>8
<1>5. QED
  BY <1>3, <1>4 DEF Start

-----------------------------------------------------------------------------
(* The theorems                                                            *)

(* The first start finds an empty directory.                               *)
LEMMA StoreInitially == Init => StoreInv
<1>1. SUFFICES ASSUME Init PROVE StoreInv
  OBVIOUS
<1>2. 0 <= MemLimit /\ 0 <= DiskLimit
  BY ChunkStoreAssumption
<1>3. mem = <<>> /\ memBytes = 0 /\ index = <<>> /\ diskBytes = 0 /\ up = FALSE
  BY <1>1 DEF Init
<1>4. files = <<>> /\ parts = {} /\ unremoved = FALSE
  BY <1>1 DEF Init
<1>5. MemoryInv /\ IndexInv
  BY <1>2, <1>3, EmptyList DEF MemoryInv, MemoryAccounted, IndexInv, DiskAccounted
<1>6. DirInv
  BY <1>4, EmptyList DEF DirInv
<1>7. WriterInv /\ ReadersInv
  BY <1>1 DEF Init, WriterInv, ReadersInv
<1>8. up \in BOOLEAN /\ DiskBudgetKept /\ NoOrphan
  BY <1>2, <1>3 DEF DiskBudgetKept, NoOrphan
<1>9. QED
  BY <1>5, <1>6, <1>7, <1>8 DEF StoreInv

(* Every step of the store keeps the invariant.                            *)
LEMMA StoreStep == StoreInv /\ [Next]_vars => StoreInv'
<1>1. SUFFICES ASSUME StoreInv, [Next]_vars PROVE StoreInv'
  OBVIOUS
<1>2. CASE UNCHANGED vars
  <2>1. UNCHANGED <<up, memVars, diskVars, dirVars, writeVars, readVars>>
    BY <1>2 DEF vars, memVars, diskVars, dirVars, writeVars, readVars
  <2>2. MemoryInv' /\ IndexInv' /\ DirInv' /\ WriterInv' /\ ReadersInv'
    BY <1>1, <2>1, PartsKept DEF StoreInv
  <2>3. DiskBudgetKept' /\ NoOrphan'
    BY <1>1, <2>1, DiskKept DEF StoreInv, readVars
  <2>4. QED
    BY <1>1, <2>1, <2>2, <2>3 DEF StoreInv
<1>3. ASSUME NEW r \in Readers, Get(r) \/ ReaderStep(r)
      PROVE  StoreInv'
  BY <1>1, <1>3, GetKeeps, ReaderStepKeeps
<1>4. CASE MemoryStep
  BY <1>1, <1>4, MemoryStepKeeps
<1>5. ASSUME NEW k \in Key, Length(k) \/ \E n \in 0..Size[k] : WriteTemp(k, n)
      PROVE  StoreInv'
  BY <1>1, <1>5, LengthKeeps, WriteTempKeeps
<1>6. CASE WriterStep
  BY <1>1, <1>6, RenameKeeps, AbandonTempKeeps, PublishKeeps DEF WriterStep
<1>7. CASE Crash
  BY <1>1, <1>7, CrashKeeps
<1>8. CASE Start
  BY <1>1, <1>8, StartKeeps
<1>9. QED
  BY <1>1, <1>2, <1>3, <1>4, <1>5, <1>6, <1>7, <1>8 DEF Next

(* The inductive invariant holds of every execution of the chunk store     *)
(* (store.go), for every number of files, chunks, readers, budgets and     *)
(* failures.                                                               *)
THEOREM StoreInvariant == Spec => []StoreInv
BY StoreInitially, StoreStep, PTL DEF Spec

(* The store, its directory and its readers stay well typed: no counter of *)
(* putMemory, removeMemoryLocked, addDiskLocked or removeDiskLocked        *)
(* becomes negative.                                                       *)
THEOREM StoreTypeCorrect == Spec => []TypeOK
<1>1. StoreInv => TypeOK
  BY DEF StoreInv, MemoryInv, IndexInv, DirInv, WriterInv, ReadersInv, TypeOK
<1>2. QED
  BY <1>1, StoreInvariant, PTL

(* memoryBytes is what memory holds and within memoryLimit after every     *)
(* putMemory, clearMemory and removal.                                     *)
THEOREM MemoryIsAccounted == Spec => []MemoryAccounted
<1>1. StoreInv => MemoryAccounted
  BY DEF StoreInv, MemoryInv
<1>2. QED
  BY <1>1, StoreInvariant, PTL

(* diskBytes is what the index lists, however the readers that forget a    *)
(* chunk, the writer and the restarts interleave.                          *)
THEOREM DiskIsAccounted == Spec => []DiskAccounted
<1>1. StoreInv => DiskAccounted
  BY DEF StoreInv, IndexInv
<1>2. QED
  BY <1>1, StoreInvariant, PTL

(* diskLimit is kept by trimDiskLocked and by a restart, until the removal *)
(* of a file fails.                                                        *)
THEOREM DiskWithinBudget == Spec => []DiskBudgetKept
<1>1. StoreInv => DiskBudgetKept
  BY DEF StoreInv
<1>2. QED
  BY <1>1, StoreInvariant, PTL

(* No chunk file is lost to the index, where no trim would find it: not    *)
(* when get forgets a chunk the writer is publishing, and not after a      *)
(* crash between the rename and the index.                                 *)
THEOREM NoOrphanFile == Spec => []NoOrphan
<1>1. StoreInv => NoOrphan
  BY DEF StoreInv
<1>2. QED
  BY <1>1, StoreInvariant, PTL

(* A reader only ever gets complete chunks, from memory or from the files  *)
(* an earlier process left.                                                *)
THEOREM ChunksAreWhole == Spec => []WholeChunks
<1>1. StoreInv => WholeChunks
  BY DEF StoreInv, MemoryInv, DirInv, ReadersInv, Whole, WholeChunks
<1>2. QED
  BY <1>1, StoreInvariant, PTL
=============================================================================
