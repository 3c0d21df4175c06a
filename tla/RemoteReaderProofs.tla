------------------------- MODULE RemoteReaderProofs -------------------------
(***************************************************************************)
(* The range reader for every value of the constants: the cache is         *)
(* accounted for, the inflight map has exactly the downloads that are      *)
(* under way, no window is downloaded twice at once, and, where pieces are *)
(* read without chunks, answers are whole.  An inductive invariant comes   *)
(* first, then one lemma for each step and the theorems.                   *)
(***************************************************************************)
EXTENDS RemoteReader, ListProofs

-----------------------------------------------------------------------------
(* The inductive invariant                                                 *)

(* The read of a window or a chunk.                                        *)
SlotRecord ==
  [pc : SlotPcs, kind : {"window", "chunk", "exact"}, key : Nat, off : Nat,
   len : Nat, fetch : Nat, owner : Slot \cup {NoSlot}, n : Nat]

(* A read that is under way, and one whose download is shared.             *)
Busy(v) == v.pc \notin {"free", "exit"}
Flying(v) == v.pc \in {"fetch1", "fetch2"} /\ v.kind # "exact"

(* The cache                                                               *)
CacheInv ==
  /\ cached \in [Offset -> Nat]
  /\ order \in Seq(Offset)
  /\ bytes \in Nat
  /\ CacheAccounted

(* A request that is served has a range in the file.                       *)
CallsInv ==
  /\ pc \in [Callers -> {"idle", "cache", "read", "ok", "err"}]
  /\ req \in [Callers -> Request \X Nat \X Nat]
  /\ njobs \in [Callers -> Nat]
  /\ \A c \in Callers :
       pc[c] \in {"cache", "read"} => req[c][2] < req[c][3] /\ req[c][3] <= Size

(* A slot v with number i of a caller at p that reads chunks or not: it is *)
(* within the file, and a caller that reads no chunks uses its first slot. *)
SlotOK(p, chunked, i, v) ==
  /\ v \in SlotRecord
  /\ v.pc = "free" => v = FreeSlot
  /\ v.pc \in {"peek", "begin"} => v.kind # "exact"
  /\ Busy(v) => v.key <= v.off /\ 1 <= v.len /\ v.off + v.len <= Size
  /\ p # "read" => v.pc = "free"
  /\ p = "read" /\ chunked /\ Busy(v) => v.kind = "chunk"
  /\ p = "read" /\ ~chunked =>
       v.kind # "chunk" /\ v.pc # "exit" /\ (i # 1 => v.pc = "free")

(* Every slot fits its caller.                                             *)
SlotsInv ==
  /\ slot = [s \in Slot |-> slot[s]]
  /\ \A s \in Slot : SlotOK(pc[s[1]], Chunked(s[1]), s[2], slot[s])

(* The inflight map has exactly the downloads that are shared, and who     *)
(* waits waits for one of them.                                            *)
FlightInv ==
  /\ inflight \in [Offset -> Slot \cup {NoSlot}]
  /\ \A k \in Offset : inflight[k] # NoSlot =>
       Flying(slot[inflight[k]]) /\ slot[inflight[k]].key = k
  /\ \A s \in Slot : Flying(slot[s]) => inflight[slot[s].key] = s
  /\ \A s \in Slot : slot[s].pc = "wait" =>
       slot[s].owner # NoSlot /\ inflight[slot[s].key] = slot[s].owner

(* The invariant of the reader.                                            *)
ReaderInv == CacheInv /\ CallsInv /\ SlotsInv /\ FlightInv

-----------------------------------------------------------------------------
(* The cache of windows                                                    *)

(* A reader starts with an empty cache, and ClearReadCache leaves one.     *)
LEMMA EmptyCache ==
  ASSUME NEW c, c = [k \in Offset |-> 0]
  PROVE  /\ c \in [Offset -> Nat] /\ <<>> \in Seq(Offset) /\ Distinct(<<>>)
         /\ \A k \in Offset : c[k] > 0 <=> k \in Elems(<<>>)
         /\ Total(c, <<>>) = 0
<1>1. c \in [Offset -> Nat]
  OBVIOUS
<1>2. Total(c, <<>>) = 0
  BY <1>1, TotalEmpty, Zenon
<1>3. Elems(<<>>) = {} /\ <<>> \in Seq(Offset)
  BY EmptyElems, EmptySeq
<1>4. Distinct(<<>>)
  BY DEF Distinct
<1>5. \A k \in Offset : ~ (c[k] > 0)
  OBVIOUS
<1>6. QED
  BY <1>1, <1>2, <1>3, <1>4, <1>5

(* What does not touch the cache keeps its account.                        *)
LEMMA CacheKept == CacheInv /\ UNCHANGED cacheVars => CacheInv'
BY DEF CacheInv, CacheAccounted, cacheVars

(* readCachedLocked moves a window to the end of the order: the same       *)
(* windows are listed, and once each.                                      *)
LEMMA TouchKeeps ==
  ASSUME CacheInv, NEW k \in Offset, cached[k] > 0, Touch(k)
  PROVE  CacheInv'
<1>1. /\ cached \in [Offset -> Nat] /\ order \in Seq(Offset) /\ Distinct(order)
      /\ \A j \in Offset : cached[j] > 0 <=> j \in Elems(order)
      /\ bytes = Total(cached, order) /\ bytes <= CacheLimit /\ bytes \in Nat
  BY DEF CacheInv, CacheAccounted
<1>p. PICK p : p = Without(order, {k})
  OBVIOUS
<1>2. order' = Append(p, k) /\ cached' = cached /\ bytes' = bytes
  BY <1>p DEF Touch
<1>3. p \in Seq(Offset)
  BY <1>p, <1>1, WithoutType, Zenon
<1>4. k \in Elems(order)
  BY <1>1
<1>5. order' \in Seq(Offset) /\ Distinct(order') /\ Elems(order') = Elems(order) \cup {k}
  <2>1. order' = Append(Without(order, {k}), k)
    BY <1>2, <1>p, Zenon
  <2>2. order \in Seq(Offset) /\ Distinct(order)
    BY <1>1
  <2>3. QED
    BY <2>1, <2>2, MovedDistinct, Zenon
<1>6. Total(cached, order) = Total(cached, p) + cached[k]
  BY <1>1, <1>4, <1>p, TotalMoved, Zenon
<1>7. Total(cached, order') = Total(cached, p) + cached[k]
  BY <1>1, <1>2, <1>3, TotalAppend, Zenon
<1>8. Elems(order') = Elems(order) /\ Total(cached, order') = bytes
  BY <1>1, <1>4, <1>5, <1>6, <1>7
<1>9. QED
  BY <1>1, <1>2, <1>5, <1>8 DEF CacheInv, CacheAccounted

(* storeCachedLocked counts the window it stores instead of the one it     *)
(* replaces, and evicts from the order what it subtracts from the bytes.   *)
LEMMA StoreCachedKeeps ==
  ASSUME CacheInv, NEW k \in Offset, NEW n \in Nat, StoreCached(k, n)
  PROVE  CacheInv'
<1>0. CASE UNCHANGED cacheVars
  BY <1>0, CacheKept
<1>n. CASE ~ UNCHANGED cacheVars
  <2>p. PICK p : p = Without(order, {k})
    OBVIOUS
  <2>s. PICK s : s = Append(p, k)
    OBVIOUS
  <2>l. PICK lens : lens = [cached EXCEPT ![k] = n]
    OBVIOUS
  <2>t. PICK total : total = bytes - cached[k] + n
    OBVIOUS
  <2>x. PICK x : x = Excess(lens, s, total, CacheLimit)
    OBVIOUS
  <2>a. PICK a : a = Front(s, x)
    OBVIOUS
  <2>0. n # 0
    BY <1>n DEF StoreCached
  <2>1. /\ order' = Drop(s, x)
        /\ bytes' = total - Total(lens, a)
        /\ cached' = [j \in Offset |-> IF j \in Elems(a) THEN 0 ELSE lens[j]]
    BY <1>n, <2>p, <2>s, <2>l, <2>t, <2>x, <2>a, Zenon DEF StoreCached, Unlisted
  <2>2. /\ cached \in [Offset -> Nat] /\ order \in Seq(Offset) /\ Distinct(order)
        /\ \A j \in Offset : cached[j] > 0 <=> j \in Elems(order)
        /\ bytes = Total(cached, order) /\ CacheLimit \in Nat
    BY RemoteAssumption DEF CacheInv, CacheAccounted
  <2>3. /\ lens \in [Offset -> Nat] /\ lens[k] = n
        /\ \A j \in Offset : j # k => lens[j] = cached[j]
    BY <2>2, <2>l
  <2>4. p \in Seq(Offset)
    BY <2>p, <2>2, WithoutType, Zenon
  <2>5. Elems(p) = Elems(order) \ {k}
    BY <2>p, <2>2, WithoutElems, Zenon
  <2>6. \A j \in Elems(order) : j \in Offset
    BY <2>2, ElementOfSeq, LenProperties DEF Elems
  <2>7. s \in Seq(Offset) /\ Distinct(s) /\ Elems(s) = Elems(order) \cup {k}
    <3>1. s = Append(Without(order, {k}), k)
      BY <2>p, <2>s, Zenon
    <3>2. order \in Seq(Offset) /\ Distinct(order)
      BY <2>2
    <3>3. QED
      BY <3>1, <3>2, MovedDistinct, Zenon
  <2>8. k \notin Elems(order) => cached[k] = 0
    BY <2>2
  <2>9. Total(cached, order) = Total(cached, p) + cached[k]
    BY <2>2, <2>8, <2>p, TotalMoved, Zenon
  <2>10. \A j \in Elems(p) : lens[j] = cached[j]
    BY <2>3, <2>5, <2>6
  <2>11. Total(lens, p) = Total(cached, p)
    BY <2>2, <2>3, <2>4, <2>10, TotalAgree, Zenon
  <2>12. Total(lens, s) = Total(lens, p) + lens[k]
    BY <2>3, <2>4, <2>s, TotalAppend, Zenon
  <2>13. Total(cached, p) \in Nat /\ cached[k] \in Nat
    BY <2>2, <2>4, TotalType
  <2>14. total = Total(lens, s)
    BY <2>2, <2>3, <2>9, <2>11, <2>12, <2>13, <2>t
  <2>15. x \in 0..Len(s) /\ Total(lens, Drop(s, x)) <= CacheLimit
    BY <2>2, <2>3, <2>7, <2>14, <2>x, TrimFits, Zenon
  <2>16. /\ a \in Seq(Offset) /\ order' \in Seq(Offset)
    BY <2>1, <2>7, <2>15, <2>a, CutLists, Zenon
  <2>17. Distinct(order') /\ Elems(order') = Elems(s) \ Elems(a)
    BY <2>1, <2>7, <2>15, <2>a, CutDistinct, Zenon
  <2>18. Total(lens, s) = Total(lens, a) + Total(lens, order')
    BY <2>1, <2>3, <2>7, <2>15, <2>a, TotalCut, Zenon
  <2>19. cached' \in [Offset -> Nat]
    BY <2>1, <2>3
  <2>20. \A j \in Elems(s) : j \in Offset
    BY <2>6, <2>7
  <2>21. \A j \in Elems(order') : lens[j] = cached'[j]
    BY <2>1, <2>17, <2>20
  <2>22. Total(lens, order') = Total(cached', order')
    BY <2>3, <2>16, <2>19, <2>21, TotalAgree, Zenon
  <2>23. Total(lens, a) \in Nat /\ Total(lens, order') \in Nat
    BY <2>3, <2>16, TotalType
  <2>24. Total(lens, order') <= CacheLimit
    BY <2>1, <2>15, Zenon
  <2>25. bytes' = Total(cached', order') /\ bytes' \in Nat /\ bytes' <= CacheLimit
    BY <2>1, <2>14, <2>18, <2>22, <2>23, <2>24
  <2>26. \A j \in Offset : lens[j] > 0 <=> j \in Elems(s)
    BY <2>0, <2>2, <2>3, <2>7
  <2>27. \A j \in Offset : cached'[j] > 0 <=> j \in Elems(order')
    BY <2>1, <2>17, <2>26
  <2>28. QED
    BY <2>16, <2>17, <2>19, <2>25, <2>27 DEF CacheInv, CacheAccounted
<1>q. QED
  BY <1>0, <1>n

-----------------------------------------------------------------------------
(* Flights                                                                 *)

(* The inflight map stays right when slots change that neither download    *)
(* for others before or after nor begin to wait.                           *)
LEMMA FlightQuiet ==
  ASSUME FlightInv, UNCHANGED inflight,
         \A t \in Slot : \/ slot'[t] = slot[t]
                         \/ /\ ~Flying(slot[t]) /\ ~Flying(slot'[t])
                            /\ slot'[t].pc # "wait"
  PROVE  FlightInv'
<1>1. \A k \in Offset : inflight[k] # NoSlot => inflight[k] \in Slot
  BY DEF FlightInv
<1>2. QED
  BY <1>1 DEF FlightInv

(* finishInflight: the registration goes, and with it all who wait for it. *)
LEMMA FlightLands ==
  ASSUME FlightInv, NEW s \in Slot, inflight' = Unregistered(s),
         ~Flying(slot'[s]), slot'[s].pc # "wait", slot[s].pc # "wait",
         \A t \in Slot : slot[t].pc # "free" /\ slot[t].pc # "exit" => slot[t].key \in Offset,
         \A t \in Slot \ {s} :
           IF slot[t].pc = "wait" /\ slot[t].owner = s
           THEN slot'[t].pc \in {"served", "refused"}
           ELSE slot'[t] = slot[t]
  PROVE  FlightInv'
<1>0. NoSlot \notin Slot
  BY DEF NoSlot, Slot
<1>1. /\ inflight' \in [Offset -> Slot \cup {NoSlot}]
      /\ \A k \in Offset : inflight'[k] = IF inflight[k] = s THEN NoSlot ELSE inflight[k]
  BY DEF FlightInv, Unregistered
<1>2. ASSUME NEW k \in Offset, inflight'[k] # NoSlot
      PROVE  Flying(slot'[inflight'[k]]) /\ slot'[inflight'[k]].key = k
  <2>u. PICK u : u = inflight[k]
    OBVIOUS
  <2>1. inflight'[k] = u /\ u # s /\ u \in Slot /\ Flying(slot[u]) /\ slot[u].key = k
    BY <1>1, <1>2, <2>u DEF FlightInv
  <2>2. slot'[u] = slot[u]
    BY <2>1 DEF Flying
  <2>3. QED
    BY <2>1, <2>2
<1>3. ASSUME NEW t \in Slot, Flying(slot'[t])
      PROVE  inflight'[slot'[t].key] = t
  <2>1. t # s /\ slot'[t] = slot[t]
    BY <1>3 DEF Flying
  <2>2. inflight[slot[t].key] = t /\ slot[t].key \in Offset
    BY <1>3, <2>1 DEF FlightInv, Flying
  <2>3. QED
    BY <1>1, <2>1, <2>2
<1>4. ASSUME NEW t \in Slot, slot'[t].pc = "wait"
      PROVE  slot'[t].owner # NoSlot /\ inflight'[slot'[t].key] = slot'[t].owner
  <2>1. t # s /\ slot'[t] = slot[t] /\ slot[t].pc = "wait" /\ slot[t].owner # s
    BY <1>4
  <2>2. slot[t].owner # NoSlot /\ inflight[slot[t].key] = slot[t].owner
        /\ slot[t].key \in Offset
    BY <2>1 DEF FlightInv
  <2>3. QED
    BY <1>1, <2>1, <2>2
<1>5. QED
  BY <1>1, <1>2, <1>3, <1>4 DEF FlightInv

-----------------------------------------------------------------------------
(* Pieces, windows and chunks                                              *)

(* A window begins at or before the range it is read for.                  *)
LEMMA Aligned ==
  ASSUME NEW off \in Nat, NEW w \in Nat \ {0}
  PROVE  (off \div w) * w \in 0..off
<1>1. PICK q \in Int : q = off \div w
  OBVIOUS
<1>2. q * w <= off /\ 0 <= q
  BY <1>1
<1>3. q * w \in Int /\ 0 <= q * w
  BY <1>2
<1>4. QED
  BY <1>1, <1>2, <1>3

(* A chunk that is handed out begins within the piece.                     *)
LEMMA ChunkBegins ==
  ASSUME NEW len \in Nat, NEW c \in Nat \ {0}, NEW n \in Nat,
         n < (len + c - 1) \div c
  PROVE  n * c \in Nat /\ n * c < len
<1>1. PICK q \in Int : q = (len + c - 1) \div c
  OBVIOUS
<1>2. q * c <= len + c - 1
  BY <1>1
<1>3. q \in Nat
  BY <1>1
<1>4. (n + 1) * c <= q * c
  BY <1>1, <1>3
<1>5. (n + 1) * c = n * c + c
  OBVIOUS
<1>6. n * c \in Nat /\ q * c \in Nat
  BY <1>3
<1>7. QED
  BY <1>2, <1>4, <1>5, <1>6

(* The constants, one by one.                                              *)
LEMMA Numbers ==
  /\ Size \in Nat \ {0} /\ Piece \in Nat \ {0} /\ Prefetch \in Nat \ {0}
  /\ ChunkSize \in Nat \ {0} /\ Concurrency \in Nat \ {0}
BY RemoteAssumption

(* A piece is not empty and lies within the request and the file.          *)
LEMMA PieceFacts ==
  ASSUME CallsInv, NEW c \in Callers, pc[c] \in {"cache", "read"}
  PROVE  /\ PieceOff(c) \in Nat /\ PieceLen(c) \in Nat /\ 1 <= PieceLen(c)
         /\ PieceOff(c) + PieceLen(c) <= req[c][3] /\ req[c][3] <= Size
         /\ req[c][3] \in Nat
<1>1. req[c] \in Request \X Nat \X Nat /\ req[c][2] < req[c][3] /\ req[c][3] <= Size
  BY DEF CallsInv
<1>2. req[c][2] \in Nat /\ req[c][3] \in Nat
  BY <1>1
<1>3. QED
  BY <1>1, <1>2, Numbers DEF PieceOff, PieceLen, Least

(* writePlaybackRange goes on with the next piece, or is done.             *)
LEMMA PieceDoneKeeps ==
  ASSUME CallsInv, NEW c \in Callers, pc[c] \in {"cache", "read"}, PieceDone(c),
         njobs' \in [Callers -> Nat]
  PROVE  CallsInv' /\ pc'[c] # "read"
         /\ \A d \in Callers : d # c => pc'[d] = pc[d] /\ req'[d] = req[d]
<1>n. PICK next : next = PieceOff(c) + PieceLen(c)
  OBVIOUS
<1>1. next \in Nat /\ next <= req[c][3] /\ req[c][3] <= Size /\ req[c][3] \in Nat
  BY <1>n, PieceFacts
<1>2. /\ req' = [req EXCEPT ![c][2] = next]
      /\ pc' = [pc EXCEPT ![c] = IF next = req[c][3] THEN "ok" ELSE "cache"]
  BY <1>n DEF PieceDone
<1>3. pc \in [Callers -> {"idle", "cache", "read", "ok", "err"}]
      /\ req \in [Callers -> Request \X Nat \X Nat]
  BY DEF CallsInv
<1>4. /\ req'[c] = <<req[c][1], next, req[c][3]>>
      /\ req' \in [Callers -> Request \X Nat \X Nat]
      /\ \A d \in Callers : d # c => req'[d] = req[d]
  <2>1. req' = [req EXCEPT ![c] = [req[c] EXCEPT ![2] = next]]
    BY <1>2
  <2>2. req[c] = <<req[c][1], req[c][2], req[c][3]>> /\ req[c][1] \in Request
    BY <1>3
  <2>3. [req[c] EXCEPT ![2] = next] = <<req[c][1], next, req[c][3]>>
    BY <2>2
  <2>4. QED
    BY <2>1, <2>2, <2>3, <1>1, <1>3
<1>5. /\ pc' \in [Callers -> {"idle", "cache", "read", "ok", "err"}]
      /\ pc'[c] = (IF next = req[c][3] THEN "ok" ELSE "cache")
      /\ \A d \in Callers : d # c => pc'[d] = pc[d]
  BY <1>2, <1>3
<1>6. pc'[c] \in {"cache", "read"} => req'[c][2] < req'[c][3] /\ req'[c][3] <= Size
  BY <1>1, <1>4, <1>5
<1>7. QED
  BY <1>4, <1>5, <1>6 DEF CallsInv

(* A slot that is not used,                                                *)
LEMMA FreeRecord ==
  FreeSlot \in SlotRecord /\ FreeSlot.pc = "free" /\ FreeSlot.kind = "window"
BY DEF FreeSlot, SlotRecord, SlotPcs

(* which fits every caller.                                                *)
LEMMA FreeOK ==
  ASSUME NEW p, NEW chunked, NEW i
  PROVE  SlotOK(p, chunked, i, FreeSlot)
BY FreeRecord DEF SlotOK, Busy

(* readSequential starts with a window that fits a caller without chunks.  *)
LEMMA WindowSlot ==
  ASSUME NEW off \in Nat, NEW len \in Nat, 1 <= len, off + len <= Size
  PROVE  /\ SlotOK("read", FALSE, 1, Window(off, len))
         /\ Window(off, len).pc = "lookup"
<1>w. PICK w : w = WindowLen(len)
  OBVIOUS
<1>1. w \in Nat \ {0}
  BY <1>w, Numbers DEF WindowLen, Most
<1>k. PICK k : k = (off \div w) * w
  OBVIOUS
<1>2. k \in 0..off
  BY <1>1, <1>k, Aligned
<1>v. PICK v : v = Window(off, len)
  OBVIOUS
<1>3. v = [FreeSlot EXCEPT !.pc = "lookup", !.kind = "window", !.off = off, !.len = len,
                           !.key = k, !.fetch = w]
  BY <1>v, <1>k, <1>w DEF Window, WindowOff
<1>r. v = [pc |-> "lookup", kind |-> "window", key |-> k, off |-> off, len |-> len,
           fetch |-> w, owner |-> NoSlot, n |-> 0]
  BY <1>3 DEF FreeSlot
<1>t. w \in Nat /\ k \in Nat
  BY <1>1, <1>2
<1>4. /\ v \in SlotRecord /\ v.pc = "lookup" /\ v.kind = "window" /\ v.off = off
      /\ v.len = len /\ v.key = k
  BY <1>t, <1>r DEF SlotRecord, SlotPcs
<1>5. SlotOK("read", FALSE, 1, v)
  BY <1>2, <1>4 DEF SlotOK, Busy
<1>6. QED
  BY <1>4, <1>5, <1>v

(* A chunk, or what is missing of a piece.                                 *)
LEMMA ExactSlot ==
  ASSUME NEW kind \in {"chunk", "exact"}, NEW off \in Nat, NEW len \in Nat,
         1 <= len, off + len <= Size
  PROVE  /\ Exact(kind, off, len) \in SlotRecord
         /\ Exact(kind, off, len).pc = "lookup"
         /\ Exact(kind, off, len).kind = kind
         /\ Exact(kind, off, len).key = off
         /\ Exact(kind, off, len).off = off
         /\ Exact(kind, off, len).len = len
BY DEF Exact, FreeSlot, SlotRecord, SlotPcs

-----------------------------------------------------------------------------
(* Slots                                                                   *)

(* What a slot says of itself and of its caller.                           *)
LEMMA SlotFacts ==
  ASSUME SlotsInv, NEW s \in Slot
  PROVE  /\ s[1] \in Callers /\ s[2] \in 1..Concurrency
         /\ slot[s] \in SlotRecord
         /\ SlotOK(pc[s[1]], Chunked(s[1]), s[2], slot[s])
         /\ Busy(slot[s]) => slot[s].key \in Offset /\ pc[s[1]] = "read"
         /\ Busy(slot[s]) =>
              slot[s].key <= slot[s].off /\ 1 <= slot[s].len
              /\ slot[s].off + slot[s].len <= Size
         /\ slot[s].kind = "chunk" /\ Busy(slot[s]) => Chunked(s[1])
         /\ slot[s].kind # "chunk" /\ Busy(slot[s]) => ~Chunked(s[1]) /\ s[2] = 1
<1>1. s[1] \in Callers /\ s[2] \in 1..Concurrency
  BY DEF Slot
<1>2. SlotOK(pc[s[1]], Chunked(s[1]), s[2], slot[s])
  BY DEF SlotsInv
<1>3. slot[s] \in SlotRecord
  BY <1>2 DEF SlotOK
<1>4. slot[s].key \in Nat /\ slot[s].off \in Nat /\ slot[s].len \in Nat
  BY <1>3 DEF SlotRecord
<1>5. Busy(slot[s]) =>
        slot[s].key <= slot[s].off /\ 1 <= slot[s].len
        /\ slot[s].off + slot[s].len <= Size
  BY <1>2 DEF SlotOK
<1>6. Busy(slot[s]) => slot[s].key \in Offset
  BY <1>4, <1>5, Numbers DEF Offset
<1>7. Busy(slot[s]) => pc[s[1]] = "read"
  BY <1>2 DEF SlotOK, Busy
<1>8. Chunked(s[1]) \in BOOLEAN
  BY DEF Chunked
<1>9. slot[s].kind = "chunk" /\ Busy(slot[s]) => Chunked(s[1])
  BY <1>2, <1>7, <1>8 DEF SlotOK
<1>10. slot[s].kind # "chunk" /\ Busy(slot[s]) => ~Chunked(s[1]) /\ s[2] = 1
  BY <1>2, <1>7, <1>8 DEF SlotOK, Busy
<1>11. QED
  BY <1>1, <1>2, <1>3, <1>5, <1>6, <1>7, <1>9, <1>10

(* A read that goes on wanting the same fits its caller as before.         *)
LEMMA SlotMoves ==
  ASSUME NEW p, NEW chunked, NEW i, NEW v, SlotOK(p, chunked, i, v), Busy(v),
         NEW w \in SlotRecord, Busy(w),
         w.kind = v.kind, w.key = v.key, w.off = v.off, w.len = v.len,
         w.pc \in {"peek", "begin"} => w.kind # "exact"
  PROVE  SlotOK(p, chunked, i, w)
BY DEF SlotOK, Busy

(* A caller that stays at its piece reads it as before.                    *)
LEMMA SameChunked ==
  ASSUME NEW c, req'[c] = req[c]
  PROVE  Chunked(c)' = Chunked(c)
BY DEF Chunked, PieceLen

(* Slots and callers that do not change,                                   *)
LEMMA SlotsKept ==
  ASSUME SlotsInv, UNCHANGED <<pc, req, slot>>
  PROVE  SlotsInv'
<1>1. \A s \in Slot : SlotOK(pc'[s[1]], Chunked(s[1])', s[2], slot'[s])
  BY SameChunked DEF SlotsInv
<1>2. QED
  BY <1>1 DEF SlotsInv

(* and one slot that does.                                                 *)
LEMMA OneSlot ==
  ASSUME SlotsInv, NEW s \in Slot, NEW v, slot' = [slot EXCEPT ![s] = v],
         UNCHANGED <<pc, req>>, SlotOK(pc[s[1]], Chunked(s[1]), s[2], v)
  PROVE  SlotsInv' /\ slot'[s] = v /\ \A t \in Slot : t # s => slot'[t] = slot[t]
<1>1. /\ slot' = [t \in Slot |-> slot'[t]] /\ slot'[s] = v
      /\ \A t \in Slot : t # s => slot'[t] = slot[t]
  BY DEF SlotsInv
<1>2. \A t \in Slot : SlotOK(pc[t[1]], Chunked(t[1]), t[2], slot'[t])
  BY <1>1 DEF SlotsInv
<1>3. \A t \in Slot : SlotOK(pc'[t[1]], Chunked(t[1])', t[2], slot'[t])
  BY <1>2, SameChunked
<1>4. QED
  BY <1>1, <1>3 DEF SlotsInv

(* A caller leaves the read of a piece, and all of its slots are free.     *)
LEMMA CallerLeaves ==
  ASSUME SlotsInv, NEW c \in Callers,
         slot' = [s \in Slot |-> slot'[s]],
         \A s \in Slot : s[1] = c => slot'[s] = FreeSlot,
         \A s \in Slot : s[1] # c =>
           /\ SlotOK(pc[s[1]], Chunked(s[1]), s[2], slot'[s])
           /\ pc'[s[1]] = pc[s[1]] /\ req'[s[1]] = req[s[1]]
  PROVE  SlotsInv'
<1>1. ASSUME NEW s \in Slot
      PROVE  SlotOK(pc'[s[1]], Chunked(s[1])', s[2], slot'[s])
  <2>1. CASE s[1] = c
    BY <2>1, FreeOK
  <2>2. CASE s[1] # c
    BY <2>2, SameChunked
  <2>3. QED
    BY <2>1, <2>2
<1>2. QED
  BY <1>1 DEF SlotsInv

-----------------------------------------------------------------------------
(* How slots change                                                        *)

(* A read takes its next step.                                             *)
LEMMA StepRecord ==
  ASSUME NEW v \in SlotRecord, NEW p \in SlotPcs, NEW w, w = [v EXCEPT !.pc = p]
  PROVE  /\ w \in SlotRecord /\ w.pc = p /\ w.kind = v.kind /\ w.key = v.key
         /\ w.off = v.off /\ w.len = v.len /\ w.owner = v.owner
BY DEF SlotRecord

(* A worker that has ended.                                                *)
LEMMA ExitRecord ==
  ASSUME NEW w, w = [FreeSlot EXCEPT !.pc = "exit"]
  PROVE  w \in SlotRecord /\ w.pc = "exit" /\ w.kind = "window"
BY DEF FreeSlot, SlotRecord, SlotPcs

(* A read goes on, and nothing else changes.                               *)
LEMMA AtKeeps ==
  ASSUME SlotsInv, NEW s \in Slot, Busy(slot[s]),
         NEW p \in SlotPcs \ {"free", "exit"}, At(s, p), UNCHANGED <<pc, req>>,
         p \in {"peek", "begin"} => slot[s].kind # "exact"
  PROVE  /\ SlotsInv' /\ slot'[s].pc = p /\ slot'[s].kind = slot[s].kind
         /\ slot'[s].key = slot[s].key
         /\ \A t \in Slot : t # s => slot'[t] = slot[t]
<1>w. PICK w : w = [slot[s] EXCEPT !.pc = p]
  OBVIOUS
<1>1. slot[s] \in SlotRecord /\ SlotOK(pc[s[1]], Chunked(s[1]), s[2], slot[s])
  BY SlotFacts
<1>2. /\ w \in SlotRecord /\ w.pc = p /\ w.kind = slot[s].kind /\ w.key = slot[s].key
      /\ w.off = slot[s].off /\ w.len = slot[s].len
  BY <1>1, <1>w, StepRecord
<1>3. Busy(w)
  BY <1>2 DEF Busy
<1>4. SlotOK(pc[s[1]], Chunked(s[1]), s[2], w)
  BY <1>1, <1>2, <1>3, SlotMoves
<1>5. slot' = [slot EXCEPT ![s] = w]
  BY <1>w DEF At
<1>6. SlotsInv' /\ slot'[s] = w /\ \A t \in Slot : t # s => slot'[t] = slot[t]
  BY <1>4, <1>5, OneSlot
<1>7. QED
  BY <1>2, <1>6

(* finishInflight hands the outcome to those who wait.                     *)
LEMMA ServedKeeps ==
  ASSUME NEW ss, NEW s \in Slot, NEW p \in {"served", "refused"}, NEW n \in Nat,
         \A t \in Slot : SlotOK(pc[t[1]], Chunked(t[1]), t[2], ss[t]),
         NEW r, r = Served(s, ss, p, n)
  PROVE  /\ r = [t \in Slot |-> r[t]]
         /\ \A t \in Slot : SlotOK(pc[t[1]], Chunked(t[1]), t[2], r[t])
         /\ \A t \in Slot : IF ss[t].pc = "wait" /\ ss[t].owner = s
                            THEN r[t].pc = p /\ r[t].kind = ss[t].kind
                            ELSE r[t] = ss[t]
<1>1. /\ r = [t \in Slot |-> r[t]]
      /\ \A t \in Slot : r[t] = IF ss[t].pc = "wait" /\ ss[t].owner = s
                                THEN [ss[t] EXCEPT !.pc = p, !.n = n, !.owner = NoSlot]
                                ELSE ss[t]
  BY DEF Served
<1>2. ASSUME NEW t \in Slot
      PROVE  /\ SlotOK(pc[t[1]], Chunked(t[1]), t[2], r[t])
             /\ IF ss[t].pc = "wait" /\ ss[t].owner = s
                THEN r[t].pc = p /\ r[t].kind = ss[t].kind ELSE r[t] = ss[t]
  <2>1. CASE ~ (ss[t].pc = "wait" /\ ss[t].owner = s)
    BY <1>1, <2>1
  <2>2. CASE ss[t].pc = "wait" /\ ss[t].owner = s
    <3>v. PICK v : v = ss[t]
      OBVIOUS
    <3>w. PICK w : w = r[t]
      OBVIOUS
    <3>1. SlotOK(pc[t[1]], Chunked(t[1]), t[2], v) /\ v \in SlotRecord /\ v.pc = "wait"
      BY <2>2, <3>v DEF SlotOK
    <3>2. w = [v EXCEPT !.pc = p, !.n = n, !.owner = NoSlot]
      BY <1>1, <2>2, <3>v, <3>w
    <3>3. p \in SlotPcs /\ NoSlot \in Slot \cup {NoSlot}
      BY DEF SlotPcs
    <3>4. /\ w \in SlotRecord /\ w.pc = p /\ w.kind = v.kind /\ w.key = v.key
          /\ w.off = v.off /\ w.len = v.len
      BY <3>1, <3>2, <3>3 DEF SlotRecord
    <3>5. Busy(v) /\ Busy(w)
      BY <3>1, <3>4 DEF Busy
    <3>6. SlotOK(pc[t[1]], Chunked(t[1]), t[2], w)
      BY <3>1, <3>4, <3>5, SlotMoves
    <3>7. QED
      BY <2>2, <3>4, <3>6, <3>v, <3>w
  <2>3. QED
    BY <2>1, <2>2
<1>3. QED
  BY <1>1, <1>2

(* A caller ends with an error.                                            *)
LEMMA PcTurns ==
  ASSUME CallsInv, NEW c \in Callers, NEW p \in {"idle", "ok", "err"},
         pc' = [pc EXCEPT ![c] = p], UNCHANGED req, njobs' \in [Callers -> Nat]
  PROVE  /\ CallsInv' /\ pc'[c] = p
         /\ \A d \in Callers : d # c => pc'[d] = pc[d] /\ req'[d] = req[d]
BY DEF CallsInv

(* A read returns: a worker is free for its next chunk, a piece that is    *)
(* complete is the caller's, and one that is short is read on.             *)
LEMMA DeliverKeeps ==
  ASSUME CallsInv, SlotsInv, NEW s \in Slot, Busy(slot[s]),
         NEW g \in 0..slot[s].len, Deliver(s, g), UNCHANGED njobs
  PROVE  /\ CallsInv' /\ SlotsInv'
         /\ ~Flying(slot'[s]) /\ slot'[s].pc # "wait"
         /\ \A t \in Slot : t # s => slot'[t] = slot[t]
<1>c. PICK c : c = s[1]
  OBVIOUS
<1>v. PICK v : v = slot[s]
  OBVIOUS
<1>1. /\ c \in Callers /\ v \in SlotRecord /\ pc[c] = "read"
      /\ v.key <= v.off /\ 1 <= v.len /\ v.off + v.len <= Size
      /\ SlotOK(pc[c], Chunked(c), s[2], v)
      /\ v.kind = "chunk" => Chunked(c)
      /\ v.kind # "chunk" => ~Chunked(c) /\ s[2] = 1
  BY <1>c, <1>v, SlotFacts
<1>2. v.key \in Nat /\ v.off \in Nat /\ v.len \in Nat
  BY <1>1 DEF SlotRecord
<1>3. slot = [t \in Slot |-> slot[t]]
  BY DEF SlotsInv
<1>n. njobs' \in [Callers -> Nat]
  BY DEF CallsInv
<1>4. CASE v.kind = "chunk"
  <2>1. slot' = [slot EXCEPT ![s] = FreeSlot] /\ UNCHANGED <<pc, req>>
    BY <1>4, <1>v DEF Deliver, Whole
  <2>2. SlotsInv' /\ slot'[s] = FreeSlot /\ \A t \in Slot : t # s => slot'[t] = slot[t]
    BY <2>1, FreeOK, OneSlot
  <2>3. CallsInv'
    BY <2>1 DEF CallsInv
  <2>4. QED
    BY <2>2, <2>3, FreeRecord DEF Flying
<1>5. CASE v.kind # "chunk" /\ g = v.len
  <2>1. slot' = [slot EXCEPT ![s] = FreeSlot] /\ PieceDone(c)
    BY <1>5, <1>v, <1>c DEF Deliver, Whole
  <2>2. CallsInv' /\ \A d \in Callers : d # c => pc'[d] = pc[d] /\ req'[d] = req[d]
    BY <1>1, <1>n, <2>1, PieceDoneKeeps
  <2>3. /\ slot' = [t \in Slot |-> slot'[t]] /\ slot'[s] = FreeSlot
        /\ \A t \in Slot : t # s => slot'[t] = slot[t]
    BY <1>3, <2>1
  <2>4. ASSUME NEW t \in Slot, t[1] = c, t # s
        PROVE  slot'[t] = FreeSlot
    <3>1. t[2] # 1
      BY <1>1, <1>5, <1>c, <2>4 DEF Slot
    <3>2. SlotOK(pc[c], Chunked(c), t[2], slot[t])
      BY <2>4, SlotFacts
    <3>3. Chunked(c) \in BOOLEAN
      BY DEF Chunked
    <3>4. slot[t] = FreeSlot
      BY <1>1, <1>5, <3>1, <3>2, <3>3 DEF SlotOK
    <3>5. QED
      BY <2>3, <2>4, <3>4
  <2>5. \A t \in Slot : t[1] # c =>
           /\ SlotOK(pc[t[1]], Chunked(t[1]), t[2], slot'[t])
           /\ pc'[t[1]] = pc[t[1]] /\ req'[t[1]] = req[t[1]]
    BY <1>c, <2>2, <2>3, SlotFacts
  <2>6. SlotsInv'
    BY <1>1, <2>3, <2>4, <2>5, CallerLeaves
  <2>7. QED
    BY <2>2, <2>3, <2>6, FreeRecord DEF Flying
<1>6. CASE v.kind # "chunk" /\ g # v.len
  <2>w. PICK w : w = Exact("exact", v.off + g, v.len - g)
    OBVIOUS
  <2>1. slot' = [slot EXCEPT ![s] = w] /\ UNCHANGED <<pc, req>>
    BY <1>6, <1>v, <2>w DEF Deliver, Whole
  <2>2. g \in Nat /\ g < v.len
    BY <1>2, <1>6, <1>v
  <2>o. PICK o \in Nat : o = v.off + g
    BY <1>2, <2>2
  <2>l. PICK l \in Nat : l = v.len - g
    BY <1>2, <2>2
  <2>3. 1 <= l /\ o + l <= Size
    BY <1>1, <1>2, <2>2, <2>o, <2>l, Numbers
  <2>4. /\ w \in SlotRecord /\ w.pc = "lookup" /\ w.kind = "exact" /\ w.key = o
        /\ w.off = o /\ w.len = l
    BY <2>3, <2>o, <2>l, <2>w, ExactSlot
  <2>5. SlotOK(pc[c], Chunked(c), s[2], w)
    BY <1>1, <1>6, <2>3, <2>4 DEF SlotOK, Busy
  <2>6. SlotsInv' /\ slot'[s] = w /\ \A t \in Slot : t # s => slot'[t] = slot[t]
    BY <1>c, <2>1, <2>5, OneSlot
  <2>7. CallsInv'
    BY <2>1 DEF CallsInv
  <2>8. QED
    BY <2>4, <2>6, <2>7 DEF Flying
<1>7. QED
  BY <1>4, <1>5, <1>6

(* A read fails: a worker ends, and a caller without workers fails.        *)
LEMMA FailKeeps ==
  ASSUME CallsInv, SlotsInv, NEW s \in Slot, Busy(slot[s]), NEW ss,
         ss = [t \in Slot |-> ss[t]],
         \A t \in Slot : SlotOK(pc[t[1]], Chunked(t[1]), t[2], ss[t]),
         Fail(s, ss), UNCHANGED njobs
  PROVE  /\ CallsInv' /\ SlotsInv' /\ slot'[s].pc \in {"free", "exit"}
         /\ \A t \in Slot : t # s => slot'[t] = ss[t]
<1>c. PICK c : c = s[1]
  OBVIOUS
<1>1. /\ c \in Callers /\ pc[c] = "read"
      /\ slot[s].kind = "chunk" => Chunked(c)
      /\ slot[s].kind # "chunk" => ~Chunked(c) /\ s[2] = 1
  BY <1>c, SlotFacts
<1>n. njobs' \in [Callers -> Nat]
  BY DEF CallsInv
<1>2. CASE slot[s].kind = "chunk"
  <2>w. PICK w : w = [FreeSlot EXCEPT !.pc = "exit"]
    OBVIOUS
  <2>1. slot' = [ss EXCEPT ![s] = w] /\ UNCHANGED <<pc, req>>
    BY <1>2, <2>w DEF Fail
  <2>2. w \in SlotRecord /\ w.pc = "exit" /\ w.kind = "window"
    BY <2>w, ExitRecord
  <2>3. SlotOK(pc[c], Chunked(c), s[2], w)
    BY <1>1, <1>2, <2>2 DEF SlotOK, Busy
  <2>4. /\ slot' = [t \in Slot |-> slot'[t]] /\ slot'[s] = w
        /\ \A t \in Slot : t # s => slot'[t] = ss[t]
    BY <2>1
  <2>5. \A t \in Slot : SlotOK(pc[t[1]], Chunked(t[1]), t[2], slot'[t])
    BY <1>c, <2>3, <2>4
  <2>6. \A t \in Slot : SlotOK(pc'[t[1]], Chunked(t[1])', t[2], slot'[t])
    BY <2>1, <2>5, SameChunked
  <2>7. SlotsInv'
    BY <2>4, <2>6 DEF SlotsInv
  <2>8. CallsInv'
    BY <2>1 DEF CallsInv
  <2>9. QED
    BY <2>2, <2>4, <2>7, <2>8
<1>3. CASE slot[s].kind # "chunk"
  <2>1. slot' = [ss EXCEPT ![s] = FreeSlot] /\ pc' = [pc EXCEPT ![c] = "err"] /\ UNCHANGED req
    BY <1>3, <1>c DEF Fail
  <2>2. CallsInv' /\ \A d \in Callers : d # c => pc'[d] = pc[d] /\ req'[d] = req[d]
    BY <1>1, <1>n, <2>1, PcTurns
  <2>3. /\ slot' = [t \in Slot |-> slot'[t]] /\ slot'[s] = FreeSlot
        /\ \A t \in Slot : t # s => slot'[t] = ss[t]
    BY <2>1
  <2>4. ASSUME NEW t \in Slot, t[1] = c, t # s
        PROVE  slot'[t] = FreeSlot
    <3>1. t[2] # 1
      BY <1>1, <1>3, <1>c, <2>4 DEF Slot
    <3>2. SlotOK(pc[c], Chunked(c), t[2], ss[t])
      BY <2>4
    <3>3. Chunked(c) \in BOOLEAN
      BY DEF Chunked
    <3>4. ss[t] = FreeSlot
      BY <1>1, <1>3, <3>1, <3>2, <3>3 DEF SlotOK
    <3>5. QED
      BY <2>3, <2>4, <3>4
  <2>5. \A t \in Slot : t[1] # c =>
           /\ SlotOK(pc[t[1]], Chunked(t[1]), t[2], slot'[t])
           /\ pc'[t[1]] = pc[t[1]] /\ req'[t[1]] = req[t[1]]
    BY <1>c, <2>2, <2>3, SlotFacts
  <2>6. SlotsInv'
    BY <1>1, <2>3, <2>4, <2>5, CallerLeaves
  <2>7. QED
    BY <2>2, <2>3, <2>6, FreeRecord
<1>4. QED
  BY <1>2, <1>3

-----------------------------------------------------------------------------
(* What a step does to the invariant                                       *)

(* The inflight map and the slots do not change.                           *)
LEMMA SlotsStill ==
  ASSUME FlightInv, UNCHANGED <<inflight, slot>>
  PROVE  FlightInv'
BY FlightQuiet

(* ClearReadCache keeps the invariant: flights stay registered.            *)
LEMMA ClearKeeps ==
  ASSUME ReaderInv, ClearReadCache
  PROVE  ReaderInv'
<1>1. /\ cached' = [k \in Offset |-> 0] /\ order' = <<>> /\ bytes' = 0
      /\ UNCHANGED <<inflight, slot, pc, req, njobs>>
  BY DEF ClearReadCache, callVars
<1>2. CacheInv'
  <2>1. /\ cached' \in [Offset -> Nat] /\ <<>> \in Seq(Offset) /\ Distinct(<<>>)
        /\ \A k \in Offset : cached'[k] > 0 <=> k \in Elems(<<>>)
        /\ Total(cached', <<>>) = 0
    BY <1>1, EmptyCache
  <2>2. QED
    BY <1>1, <2>1, RemoteAssumption DEF CacheInv, CacheAccounted
<1>3. CallsInv'
  BY <1>1 DEF ReaderInv, CallsInv
<1>4. SlotsInv' /\ FlightInv'
  BY <1>1, SlotsKept, SlotsStill DEF ReaderInv
<1>5. QED
  BY <1>2, <1>3, <1>4 DEF ReaderInv

(* So does a client that goes away,                                        *)
LEMMA CancelKeeps ==
  ASSUME ReaderInv, NEW c \in Callers, Cancel(c)
  PROVE  ReaderInv'
<1>1. UNCHANGED cacheVars /\ UNCHANGED <<inflight, pc, req, njobs, slot>>
  BY DEF Cancel
<1>2. CallsInv'
  BY <1>1 DEF ReaderInv, CallsInv
<1>3. QED
  BY <1>1, <1>2, CacheKept, SlotsKept, SlotsStill DEF ReaderInv

(* A range that is served is not empty and within the file.                *)
LEMMA ParsedRange ==
  ASSUME NEW h \in Request, ParseHTTPRange(h) # <<>>
  PROVE  /\ ParseHTTPRange(h)[1] \in Nat /\ ParseHTTPRange(h)[2] \in Nat
         /\ ParseHTTPRange(h)[1] < ParseHTTPRange(h)[2]
         /\ ParseHTTPRange(h)[2] <= Size
<1>0. h.first \in Nat /\ h.last \in Nat /\ h.form \in {"none", "suffix", "from", "span"}
  BY DEF Request
<1>1. CASE h.form = "none"
  <2>1. ParseHTTPRange(h) = <<0, Size>>
    BY <1>1 DEF ParseHTTPRange
  <2>2. QED
    BY <2>1, Numbers
<1>2. CASE h.form = "suffix"
  <2>1. h.last > 0 /\ ParseHTTPRange(h) = <<Size - Least(h.last, Size), Size>>
    BY <1>2 DEF ParseHTTPRange
  <2>2. QED
    BY <1>0, <2>1, Numbers DEF Least
<1>3. CASE h.form = "from"
  <2>1. h.first < Size /\ ParseHTTPRange(h) = <<h.first, Size>>
    BY <1>3 DEF ParseHTTPRange
  <2>2. QED
    BY <1>0, <2>1, Numbers
<1>4. CASE h.form = "span"
  <2>1. /\ h.first <= h.last /\ h.first < Size
        /\ ParseHTTPRange(h) = <<h.first, Least(h.last + 1, Size)>>
    BY <1>4 DEF ParseHTTPRange
  <2>2. QED
    BY <1>0, <2>1, Numbers DEF Least
<1>5. QED
  BY <1>0, <1>1, <1>2, <1>3, <1>4

(* The slots of a caller that is not reading are free, whatever it reads   *)
(* next.                                                                   *)
LEMMA IdleSlots ==
  ASSUME SlotsInv, NEW c \in Callers, pc[c] # "read", UNCHANGED slot,
         \A d \in Callers : d # c => pc'[d] = pc[d] /\ req'[d] = req[d]
  PROVE  SlotsInv'
<1>1. slot' = [s \in Slot |-> slot'[s]]
  BY DEF SlotsInv
<1>2. \A s \in Slot : s[1] = c => slot'[s] = FreeSlot
  BY SlotFacts DEF SlotOK
<1>3. \A s \in Slot : s[1] # c =>
           /\ SlotOK(pc[s[1]], Chunked(s[1]), s[2], slot'[s])
           /\ pc'[s[1]] = pc[s[1]] /\ req'[s[1]] = req[s[1]]
  BY SlotFacts
<1>4. QED
  BY <1>1, <1>2, <1>3, CallerLeaves

(* a request that begins, with a range or refused,                         *)
LEMMA StartRequestKeeps ==
  ASSUME ReaderInv, NEW c \in Callers, NEW h \in Requests, StartRequest(c, h)
  PROVE  ReaderInv'
<1>r. PICK range : range = ParseHTTPRange(h)
  OBVIOUS
<1>1. /\ CacheInv /\ CallsInv /\ SlotsInv /\ FlightInv
      /\ pc[c] \in {"idle", "ok", "err"}
      /\ UNCHANGED cacheVars /\ UNCHANGED <<inflight, njobs, slot>>
  BY DEF ReaderInv, StartRequest
<1>2. /\ pc \in [Callers -> {"idle", "cache", "read", "ok", "err"}]
      /\ req \in [Callers -> Request \X Nat \X Nat]
      /\ njobs' \in [Callers -> Nat]
      /\ \A d \in Callers :
           pc[d] \in {"cache", "read"} => req[d][2] < req[d][3] /\ req[d][3] <= Size
  BY <1>1 DEF CallsInv
<1>3. CallsInv' /\ \A d \in Callers : d # c => pc'[d] = pc[d] /\ req'[d] = req[d]
  <2>1. CASE range = <<>>
    <3>1. pc' = [pc EXCEPT ![c] = "err"] /\ UNCHANGED req
      BY <1>r, <2>1 DEF StartRequest
    <3>2. QED
      BY <1>1, <1>2, <3>1, PcTurns
  <2>2. CASE range # <<>>
    <3>1. pc' = [pc EXCEPT ![c] = "cache"] /\ req' = [req EXCEPT ![c] = <<h, range[1], range[2]>>]
      BY <1>r, <2>2 DEF StartRequest
    <3>2. h \in Request
      BY RemoteAssumption
    <3>3. range[1] \in Nat /\ range[2] \in Nat /\ range[1] < range[2] /\ range[2] <= Size
      BY <1>r, <2>2, <3>2, ParsedRange
    <3>4. /\ pc' \in [Callers -> {"idle", "cache", "read", "ok", "err"}]
          /\ \A d \in Callers : d # c => pc'[d] = pc[d]
      BY <1>2, <3>1
    <3>5. /\ req' \in [Callers -> Request \X Nat \X Nat]
          /\ req'[c] = <<h, range[1], range[2]>>
          /\ \A d \in Callers : d # c => req'[d] = req[d]
      BY <1>2, <3>1, <3>2, <3>3
    <3>6. \A d \in Callers :
            pc'[d] \in {"cache", "read"} => req'[d][2] < req'[d][3] /\ req'[d][3] <= Size
      BY <1>2, <3>3, <3>4, <3>5
    <3>7. QED
      BY <1>2, <3>4, <3>5, <3>6 DEF CallsInv
  <2>3. QED
    BY <2>1, <2>2
<1>4. SlotsInv'
  BY <1>1, <1>3, IdleSlots
<1>5. QED
  BY <1>1, <1>3, <1>4, CacheKept, SlotsStill DEF ReaderInv

(* ReadRange, with a cached window or with a read that begins,             *)
LEMMA ReadRangeKeeps ==
  ASSUME ReaderInv, NEW c \in Callers, ReadRange(c)
  PROVE  ReaderInv'
<1>o. PICK off : off = PieceOff(c)
  OBVIOUS
<1>l. PICK len : len = PieceLen(c)
  OBVIOUS
<1>1. /\ CacheInv /\ CallsInv /\ SlotsInv /\ FlightInv /\ pc[c] = "cache"
      /\ UNCHANGED <<inflight, njobs>>
  BY DEF ReaderInv, ReadRange
<1>2. njobs' \in [Callers -> Nat]
  BY <1>1 DEF CallsInv
<1>3. CASE /\ \E k \in Hits(off, len) : Touch(k)
           /\ PieceDone(c) /\ UNCHANGED slot
  <2>1. PICK k \in Offset : cached[k] > 0 /\ Touch(k)
    BY <1>3 DEF Hits
  <2>2. CacheInv'
    BY <1>1, <2>1, TouchKeeps
  <2>3. CallsInv' /\ \A d \in Callers : d # c => pc'[d] = pc[d] /\ req'[d] = req[d]
    BY <1>1, <1>2, <1>3, PieceDoneKeeps
  <2>4. SlotsInv'
    BY <1>1, <1>3, <2>3, IdleSlots
  <2>5. QED
    BY <1>1, <1>3, <2>2, <2>3, <2>4, SlotsStill DEF ReaderInv
<1>4. CASE /\ pc' = [pc EXCEPT ![c] = "read"]
           /\ slot' = IF Chunked(c) THEN slot
                      ELSE [slot EXCEPT ![<<c, 1>>] = Window(off, len)]
           /\ UNCHANGED cacheVars /\ UNCHANGED req
  <2>1. /\ CallsInv' /\ pc'[c] = "read"
        /\ \A d \in Callers : d # c => pc'[d] = pc[d] /\ req'[d] = req[d]
    BY <1>1, <1>2, <1>4 DEF CallsInv
  <2>2. Chunked(c)' = Chunked(c) /\ Chunked(c) \in BOOLEAN
    BY <1>4, SameChunked DEF Chunked
  <2>3. slot = [t \in Slot |-> slot[t]] /\ \A s \in Slot : s[1] = c => slot[s] = FreeSlot
    BY <1>1, SlotFacts DEF SlotsInv, SlotOK
  <2>4. \A s \in Slot : s[1] # c =>
           SlotOK(pc'[s[1]], Chunked(s[1])', s[2], slot[s])
    <3>1. ASSUME NEW s \in Slot, s[1] # c
          PROVE  SlotOK(pc'[s[1]], Chunked(s[1])', s[2], slot[s])
      BY <1>1, <2>1, <3>1, SlotFacts, SameChunked
    <3>2. QED
      BY <3>1
  <2>5. CASE Chunked(c)
    <3>1. slot' = slot
      BY <1>4, <2>5
    <3>2. \A s \in Slot : SlotOK(pc'[s[1]], Chunked(s[1])', s[2], slot'[s])
      BY <2>3, <2>4, <3>1, FreeOK
    <3>3. SlotsInv'
      BY <2>3, <3>1, <3>2 DEF SlotsInv
    <3>4. QED
      BY <1>1, <1>4, <2>1, <3>1, <3>3, CacheKept, SlotsStill DEF ReaderInv
  <2>6. CASE ~Chunked(c)
    <3>s. PICK s : s = <<c, 1>>
      OBVIOUS
    <3>w. PICK w : w = Window(off, len)
      OBVIOUS
    <3>1. s \in Slot /\ s[1] = c /\ s[2] = 1
      BY <3>s, Numbers DEF Slot
    <3>2. slot' = [slot EXCEPT ![s] = w]
      BY <1>4, <2>6, <3>s, <3>w
    <3>3. off \in Nat /\ len \in Nat /\ 1 <= len /\ off + len <= Size
      BY <1>1, <1>o, <1>l, PieceFacts, Numbers
    <3>4. SlotOK("read", FALSE, 1, w) /\ w.pc = "lookup"
      BY <3>3, <3>w, WindowSlot
    <3>5. slot' = [t \in Slot |-> slot'[t]] /\ slot'[s] = w
          /\ \A t \in Slot : t # s => slot'[t] = slot[t]
      BY <2>3, <3>1, <3>2
    <3>6. SlotOK(pc'[s[1]], Chunked(s[1])', s[2], slot'[s])
      BY <2>1, <2>2, <2>6, <3>1, <3>4, <3>5
    <3>7. \A t \in Slot : SlotOK(pc'[t[1]], Chunked(t[1])', t[2], slot'[t])
      BY <2>3, <2>4, <3>5, <3>6, FreeOK
    <3>8. SlotsInv'
      BY <3>5, <3>7 DEF SlotsInv
    <3>9. slot[s] = FreeSlot
      BY <2>3, <3>1
    <3>10. FlightInv'
      BY <1>1, <3>1, <3>4, <3>5, <3>9, FreeRecord, FlightQuiet DEF Flying
    <3>11. QED
      BY <1>1, <1>4, <2>1, <3>8, <3>10, CacheKept DEF ReaderInv
  <2>7. QED
    BY <2>5, <2>6
<1>5. CASE /\ pc' = [pc EXCEPT ![c] = "err"]
           /\ UNCHANGED cacheVars /\ UNCHANGED <<req, slot>>
  <2>1. CallsInv' /\ \A d \in Callers : d # c => pc'[d] = pc[d] /\ req'[d] = req[d]
    BY <1>1, <1>2, <1>5, PcTurns
  <2>2. SlotsInv'
    BY <1>1, <1>5, <2>1, IdleSlots
  <2>3. QED
    BY <1>1, <1>5, <2>1, <2>2, CacheKept, SlotsStill DEF ReaderInv
<1>6. QED
  BY <1>3, <1>4, <1>5, <1>o, <1>l DEF ReadRange

(* a worker that takes a chunk,                                            *)
LEMMA TakeJobKeeps ==
  ASSUME ReaderInv, NEW s \in Slot, TakeJob(s)
  PROVE  ReaderInv'
<1>c. PICK c : c = s[1]
  OBVIOUS
<1>b. PICK begin : begin = njobs[c] * ChunkSize
  OBVIOUS
<1>o. PICK off : off = PieceOff(c)
  OBVIOUS
<1>l. PICK len : len = PieceLen(c)
  OBVIOUS
<1>w. PICK w : w = Exact("chunk", off + begin, Least(ChunkSize, len - begin))
  OBVIOUS
<1>1. /\ CacheInv /\ CallsInv /\ SlotsInv /\ FlightInv /\ pc[c] = "read" /\ Chunked(c)
      /\ slot[s].pc = "free" /\ UNCHANGED cacheVars
      /\ UNCHANGED <<inflight, pc, req>>
      /\ njobs' = [njobs EXCEPT ![c] = @ + 1]
      /\ slot' = [slot EXCEPT ![s] = w]
      /\ njobs[c] < (len + ChunkSize - 1) \div ChunkSize
  BY <1>c, <1>b, <1>o, <1>l, <1>w DEF ReaderInv, TakeJob, NChunks
<1>2. c \in Callers /\ njobs \in [Callers -> Nat] /\ njobs[c] \in Nat
  BY <1>1, <1>c, SlotFacts DEF CallsInv
<1>3. off \in Nat /\ len \in Nat /\ 1 <= len /\ off + len <= Size
  BY <1>1, <1>2, <1>o, <1>l, PieceFacts, Numbers
<1>4. begin \in Nat /\ begin < len
  BY <1>1, <1>2, <1>3, <1>b, ChunkBegins, Numbers
<1>5. PICK o \in Nat : o = off + begin
  BY <1>3, <1>4
<1>6. PICK l \in Nat : l = Least(ChunkSize, len - begin)
  BY <1>3, <1>4, Numbers DEF Least
<1>7. 1 <= l /\ o + l <= Size
  BY <1>3, <1>4, <1>5, <1>6, Numbers DEF Least
<1>8. /\ w \in SlotRecord /\ w.pc = "lookup" /\ w.kind = "chunk" /\ w.key = o
      /\ w.off = o /\ w.len = l
  BY <1>5, <1>6, <1>7, <1>w, ExactSlot
<1>9. SlotOK(pc[s[1]], Chunked(s[1]), s[2], w)
  BY <1>1, <1>7, <1>8, <1>c DEF SlotOK, Busy
<1>10. SlotsInv' /\ slot'[s] = w /\ \A t \in Slot : t # s => slot'[t] = slot[t]
  BY <1>1, <1>9, OneSlot
<1>11. FlightInv'
  BY <1>1, <1>8, <1>10, FlightQuiet DEF Flying
<1>12. CallsInv'
  BY <1>1, <1>2 DEF CallsInv
<1>13. QED
  BY <1>1, <1>10, <1>11, <1>12, CacheKept DEF ReaderInv

(* one that ends,                                                          *)
LEMMA StopWorkerKeeps ==
  ASSUME ReaderInv, NEW s \in Slot, StopWorker(s)
  PROVE  ReaderInv'
<1>1. /\ CacheInv /\ CallsInv /\ SlotsInv /\ FlightInv /\ pc[s[1]] = "read"
      /\ Chunked(s[1]) /\ slot[s].pc = "free" /\ UNCHANGED cacheVars
      /\ UNCHANGED <<inflight, pc, req, njobs>>
      /\ slot' = [slot EXCEPT ![s].pc = "exit"]
  BY DEF ReaderInv, StopWorker, callVars
<1>w. PICK w : w = [FreeSlot EXCEPT !.pc = "exit"]
  OBVIOUS
<1>2. slot[s] = FreeSlot
  BY <1>1, SlotFacts DEF SlotOK
<1>3. slot' = [slot EXCEPT ![s] = w]
  BY <1>1, <1>2, <1>w
<1>4. w \in SlotRecord /\ w.pc = "exit" /\ w.kind = "window"
  BY <1>w, ExitRecord
<1>5. SlotOK(pc[s[1]], Chunked(s[1]), s[2], w)
  BY <1>1, <1>4 DEF SlotOK, Busy
<1>6. SlotsInv' /\ slot'[s] = w /\ \A t \in Slot : t # s => slot'[t] = slot[t]
  BY <1>1, <1>3, <1>5, OneSlot
<1>7. FlightInv'
  BY <1>1, <1>4, <1>6, FlightQuiet DEF Flying
<1>8. CallsInv'
  BY <1>1 DEF CallsInv
<1>9. QED
  BY <1>1, <1>6, <1>7, <1>8, CacheKept DEF ReaderInv

(* readConcurrent when its workers have ended,                             *)
LEMMA JoinKeeps ==
  ASSUME ReaderInv, NEW c \in Callers, Join(c)
  PROVE  ReaderInv'
<1>1. /\ CacheInv /\ CallsInv /\ SlotsInv /\ FlightInv /\ pc[c] = "read"
      /\ \A s \in Slot : s[1] = c => slot[s].pc \in {"free", "exit"}
      /\ UNCHANGED cacheVars /\ UNCHANGED inflight
      /\ njobs' = [njobs EXCEPT ![c] = 0]
      /\ slot' = [s \in Slot |-> IF s[1] = c THEN FreeSlot ELSE slot[s]]
      /\ \/ pc' = [pc EXCEPT ![c] = "err"] /\ UNCHANGED req
         \/ PieceDone(c)
  BY DEF ReaderInv, Join
<1>2. njobs' \in [Callers -> Nat]
  BY <1>1 DEF CallsInv
<1>3. CallsInv' /\ \A d \in Callers : d # c => pc'[d] = pc[d] /\ req'[d] = req[d]
  BY <1>1, <1>2, PieceDoneKeeps, PcTurns
<1>4. /\ slot' = [s \in Slot |-> slot'[s]]
      /\ \A s \in Slot : s[1] = c => slot'[s] = FreeSlot
      /\ \A s \in Slot : s[1] # c => slot'[s] = slot[s]
  BY <1>1
<1>5. \A s \in Slot : s[1] # c =>
           /\ SlotOK(pc[s[1]], Chunked(s[1]), s[2], slot'[s])
           /\ pc'[s[1]] = pc[s[1]] /\ req'[s[1]] = req[s[1]]
  BY <1>1, <1>3, <1>4, SlotFacts
<1>6. SlotsInv'
  BY <1>1, <1>4, <1>5, CallerLeaves
<1>7. FlightInv'
  BY <1>1, <1>4, FreeRecord, FlightQuiet DEF Flying
<1>8. QED
  BY <1>1, <1>3, <1>6, <1>7, CacheKept DEF ReaderInv

(* The fields of a slot.                                                   *)
LEMMA SlotTypes ==
  ASSUME SlotsInv, NEW s \in Slot
  PROVE  /\ slot[s].off \in Nat /\ slot[s].key \in Nat /\ slot[s].len \in Nat
         /\ slot[s].fetch \in Nat /\ slot[s].n \in Nat
         /\ slot[s].owner \in Slot \cup {NoSlot} /\ slot[s].pc \in SlotPcs
         /\ slot[s].kind \in {"window", "chunk", "exact"}
<1>1. slot[s] \in SlotRecord
  BY SlotFacts
<1>2. QED
  BY <1>1 DEF SlotRecord

(* the second look at the cache,                                           *)
LEMMA LookupKeeps ==
  ASSUME ReaderInv, NEW s \in Slot, Lookup(s)
  PROVE  ReaderInv'
<1>1. /\ CacheInv /\ CallsInv /\ SlotsInv /\ FlightInv /\ slot[s].pc = "lookup"
      /\ UNCHANGED <<inflight, njobs>>
  BY DEF ReaderInv, Lookup
<1>2. Busy(slot[s]) /\ ~Flying(slot[s])
  BY <1>1 DEF Busy, Flying
<1>3. CASE \E k \in Hits(slot[s].off, slot[s].len) : Touch(k) /\ Deliver(s, slot[s].len)
  <2>1. PICK k \in Offset : cached[k] > 0 /\ Touch(k) /\ Deliver(s, slot[s].len)
    BY <1>3 DEF Hits
  <2>2. CacheInv'
    BY <1>1, <2>1, TouchKeeps
  <2>3. slot[s].len \in 0..slot[s].len
    BY <1>1, SlotTypes
  <2>4. /\ CallsInv' /\ SlotsInv' /\ ~Flying(slot'[s]) /\ slot'[s].pc # "wait"
        /\ \A t \in Slot : t # s => slot'[t] = slot[t]
    BY <1>1, <1>2, <2>1, <2>3, DeliverKeeps
  <2>5. FlightInv'
    BY <1>1, <1>2, <2>4, FlightQuiet
  <2>6. QED
    BY <2>2, <2>4, <2>5 DEF ReaderInv
<1>4. CASE /\ At(s, IF slot[s].kind = "exact" THEN "fetch1" ELSE "peek")
           /\ UNCHANGED cacheVars /\ UNCHANGED <<pc, req>>
  <2>p. PICK p : p = IF slot[s].kind = "exact" THEN "fetch1" ELSE "peek"
    OBVIOUS
  <2>1. p \in SlotPcs \ {"free", "exit"} /\ At(s, p)
    BY <1>4, <2>p DEF SlotPcs
  <2>2. /\ SlotsInv' /\ slot'[s].pc = p /\ slot'[s].kind = slot[s].kind
        /\ \A t \in Slot : t # s => slot'[t] = slot[t]
    BY <1>1, <1>2, <1>4, <2>1, <2>p, AtKeeps
  <2>3. ~Flying(slot'[s]) /\ slot'[s].pc # "wait"
    BY <2>2, <2>p DEF Flying
  <2>4. FlightInv'
    BY <1>1, <1>2, <2>2, <2>3, FlightQuiet
  <2>5. CallsInv'
    BY <1>1, <1>4 DEF CallsInv
  <2>6. QED
    BY <1>1, <1>4, <2>2, <2>4, <2>5, CacheKept DEF ReaderInv
<1>5. QED
  BY <1>3, <1>4 DEF Lookup

(* A slot begins to wait for a download that is registered.                *)
LEMMA WaitKeeps ==
  ASSUME SlotsInv, FlightInv, NEW s \in Slot, slot[s].pc \in {"peek", "begin"},
         NEW x, x = inflight[slot[s].key], x # NoSlot,
         slot' = [slot EXCEPT ![s].pc = "wait", ![s].owner = x],
         UNCHANGED <<inflight, pc, req>>
  PROVE  SlotsInv' /\ FlightInv'
<1>w. PICK w : w = [slot[s] EXCEPT !.pc = "wait", !.owner = x]
  OBVIOUS
<1>0. Busy(slot[s]) /\ ~Flying(slot[s]) /\ slot = [t \in Slot |-> slot[t]]
  BY DEF Busy, Flying, SlotsInv
<1>1. /\ slot[s] \in SlotRecord /\ slot[s].key \in Offset
      /\ SlotOK(pc[s[1]], Chunked(s[1]), s[2], slot[s])
  BY <1>0, SlotFacts
<1>k. PICK k \in Offset : k = slot[s].key
  BY <1>1
<1>i. x = inflight[k]
  BY <1>k
<1>2. x \in Slot /\ Flying(slot[x]) /\ x # s
  <2>1. /\ inflight \in [Offset -> Slot \cup {NoSlot}]
        /\ inflight[k] # NoSlot => Flying(slot[inflight[k]])
    BY DEF FlightInv
  <2>2. x \in Slot /\ Flying(slot[x])
    BY <1>i, <2>1
  <2>3. QED
    BY <1>0, <2>2
<1>3. slot' = [slot EXCEPT ![s] = w]
  BY <1>0, <1>w
<1>4. /\ w \in SlotRecord /\ w.pc = "wait" /\ w.kind = slot[s].kind /\ w.key = slot[s].key
      /\ w.off = slot[s].off /\ w.len = slot[s].len /\ w.owner = x
  BY <1>1, <1>2, <1>w DEF SlotRecord, SlotPcs
<1>5. SlotOK(pc[s[1]], Chunked(s[1]), s[2], w)
  BY <1>0, <1>1, <1>4, SlotMoves DEF Busy
<1>6. SlotsInv' /\ slot'[s] = w /\ \A t \in Slot : t # s => slot'[t] = slot[t]
  BY <1>3, <1>5, OneSlot
<1>7. ~Flying(w)
  BY <1>4 DEF Flying
<1>8. ASSUME NEW j \in Offset, inflight[j] # NoSlot
      PROVE  inflight[j] \in Slot /\ inflight[j] # s
  <2>1. inflight[j] \in Slot /\ Flying(slot[inflight[j]])
    BY <1>8 DEF FlightInv
  <2>2. QED
    BY <1>0, <2>1
<1>9. FlightInv'
  BY <1>0, <1>2, <1>4, <1>6, <1>7, <1>8 DEF FlightInv
<1>10. QED
  BY <1>6, <1>9

(* waitInflight,                                                           *)
LEMMA WaitInflightKeeps ==
  ASSUME ReaderInv, NEW s \in Slot, WaitInflight(s)
  PROVE  ReaderInv'
<1>x. PICK x : x = inflight[slot[s].key]
  OBVIOUS
<1>1. /\ CacheInv /\ CallsInv /\ SlotsInv /\ FlightInv /\ slot[s].pc = "peek"
      /\ UNCHANGED cacheVars /\ UNCHANGED <<inflight, pc, req, njobs>>
  BY DEF ReaderInv, WaitInflight, callVars
<1>2. CallsInv'
  BY <1>1 DEF CallsInv
<1>3. CASE x = NoSlot
  <2>1. At(s, "begin") /\ Busy(slot[s]) /\ ~Flying(slot[s])
        /\ "begin" \in SlotPcs \ {"free", "exit"} /\ slot[s].kind # "exact"
    BY <1>1, <1>3, <1>x, SlotFacts DEF WaitInflight, Busy, Flying, SlotPcs, SlotOK
  <2>2. SlotsInv' /\ slot'[s].pc = "begin" /\ \A t \in Slot : t # s => slot'[t] = slot[t]
    BY <1>1, <2>1, AtKeeps
  <2>3. FlightInv'
    BY <1>1, <2>1, <2>2, FlightQuiet DEF Flying
  <2>4. QED
    BY <1>1, <1>2, <2>2, <2>3, CacheKept DEF ReaderInv
<1>4. CASE x # NoSlot
  <2>1. slot' = [slot EXCEPT ![s].pc = "wait", ![s].owner = x]
    BY <1>4, <1>x DEF WaitInflight
  <2>2. SlotsInv' /\ FlightInv'
    BY <1>1, <1>4, <1>x, <2>1, WaitKeeps
  <2>3. QED
    BY <1>1, <1>2, <2>2, CacheKept DEF ReaderInv
<1>5. QED
  BY <1>3, <1>4

(* beginInflight, which registers a download only where none is,           *)
LEMMA BeginInflightKeeps ==
  ASSUME ReaderInv, NEW s \in Slot, BeginInflight(s)
  PROVE  ReaderInv'
<1>x. PICK x : x = inflight[slot[s].key]
  OBVIOUS
<1>1. /\ CacheInv /\ CallsInv /\ SlotsInv /\ FlightInv /\ slot[s].pc = "begin"
      /\ UNCHANGED cacheVars /\ UNCHANGED <<pc, req, njobs>>
  BY DEF ReaderInv, BeginInflight, callVars
<1>2. CallsInv'
  BY <1>1 DEF CallsInv
<1>3. CASE x = NoSlot
  <2>0. inflight' = [inflight EXCEPT ![slot[s].key] = s]
    BY <1>3, <1>x DEF BeginInflight
  <2>1. At(s, "fetch1") /\ Busy(slot[s]) /\ ~Flying(slot[s])
        /\ "fetch1" \in SlotPcs \ {"free", "exit"}
    BY <1>1, <1>3, <1>x DEF BeginInflight, Busy, Flying, SlotPcs
  <2>2. /\ SlotsInv' /\ slot'[s].pc = "fetch1" /\ slot'[s].kind = slot[s].kind
        /\ slot'[s].key = slot[s].key
        /\ \A t \in Slot : t # s => slot'[t] = slot[t]
    BY <1>1, <2>1, AtKeeps
  <2>k. PICK k : k = slot[s].key
    OBVIOUS
  <2>3. k \in Offset
    BY <1>1, <2>1, <2>k, SlotFacts
  <2>4. /\ inflight' \in [Offset -> Slot \cup {NoSlot}] /\ inflight'[k] = s
        /\ \A j \in Offset : j # k => inflight'[j] = inflight[j]
    BY <1>1, <2>0, <2>3, <2>k DEF FlightInv
  <2>5. NoSlot \notin Slot /\ inflight[k] = NoSlot
    BY <1>3, <1>x, <2>k DEF NoSlot, Slot
  <2>6. slot[s].kind # "exact"
    BY <1>1, SlotFacts DEF SlotOK
  <2>7. Flying(slot'[s])
    BY <2>2, <2>6 DEF Flying
  <2>8. ASSUME NEW j \in Offset, inflight'[j] # NoSlot
        PROVE  Flying(slot'[inflight'[j]]) /\ slot'[inflight'[j]].key = j
    <3>1. CASE j = k
      BY <2>2, <2>4, <2>7, <2>k, <3>1
    <3>2. CASE j # k
      <4>u. PICK u : u = inflight[j]
        OBVIOUS
      <4>1. inflight'[j] = u /\ u \in Slot /\ Flying(slot[u]) /\ slot[u].key = j
        BY <1>1, <2>4, <2>8, <3>2, <4>u DEF FlightInv
      <4>2. u # s
        BY <2>1, <4>1
      <4>3. QED
        BY <2>2, <4>1, <4>2
    <3>3. QED
      BY <3>1, <3>2
  <2>9. ASSUME NEW t \in Slot, Flying(slot'[t])
        PROVE  inflight'[slot'[t].key] = t
    <3>1. CASE t = s
      BY <2>2, <2>4, <2>k, <3>1
    <3>2. CASE t # s
      <4>1. slot'[t] = slot[t] /\ inflight[slot[t].key] = t
        BY <1>1, <2>2, <2>9, <3>2 DEF FlightInv
      <4>2. Busy(slot[t])
        BY <2>9, <4>1 DEF Busy, Flying
      <4>3. slot[t].key \in Offset /\ slot[t].key # k
        BY <1>1, <2>5, <4>1, <4>2, SlotFacts
      <4>4. QED
        BY <2>4, <4>1, <4>3
    <3>3. QED
      BY <3>1, <3>2
  <2>10. ASSUME NEW t \in Slot, slot'[t].pc = "wait"
         PROVE  slot'[t].owner # NoSlot /\ inflight'[slot'[t].key] = slot'[t].owner
    <3>1. t # s /\ slot'[t] = slot[t]
      BY <2>2, <2>10
    <3>2. slot[t].owner # NoSlot /\ inflight[slot[t].key] = slot[t].owner /\ Busy(slot[t])
      BY <1>1, <2>10, <3>1 DEF FlightInv, Busy
    <3>3. slot[t].key \in Offset /\ slot[t].key # k
      BY <1>1, <2>5, <3>2, SlotFacts
    <3>4. QED
      BY <2>4, <3>1, <3>2, <3>3
  <2>11. FlightInv'
    BY <2>4, <2>8, <2>9, <2>10 DEF FlightInv
  <2>12. QED
    BY <1>1, <1>2, <2>2, <2>11, CacheKept DEF ReaderInv
<1>4. CASE x # NoSlot
  <2>1. slot' = [slot EXCEPT ![s].pc = "wait", ![s].owner = x] /\ UNCHANGED inflight
    BY <1>4, <1>x DEF BeginInflight
  <2>2. SlotsInv' /\ FlightInv'
    BY <1>1, <1>4, <1>x, <2>1, WaitKeeps
  <2>3. QED
    BY <1>1, <1>2, <2>2, CacheKept DEF ReaderInv
<1>5. QED
  BY <1>3, <1>4

(* What a download returns is a number of bytes.                           *)
LEMMA FetchedType ==
  ASSUME SlotsInv, NEW s \in Slot, Busy(slot[s])
  PROVE  Fetched(s) \in Nat
<1>1. slot[s].fetch \in Nat /\ slot[s].key \in Offset
  BY SlotTypes, SlotFacts
<1>2. QED
  BY <1>1, Numbers DEF Fetched, Least, Offset

(* a download that succeeds,                                               *)
LEMMA FetchOkKeeps ==
  ASSUME ReaderInv, NEW s \in Slot, FetchOk(s)
  PROVE  ReaderInv'
<1>n. PICK n : n = Fetched(s)
  OBVIOUS
<1>w. PICK w : w = [slot[s] EXCEPT !.pc = "store", !.n = n]
  OBVIOUS
<1>z. PICK ss : ss = [slot EXCEPT ![s] = w]
  OBVIOUS
<1>1. /\ CacheInv /\ CallsInv /\ SlotsInv /\ FlightInv /\ slot[s].pc \in {"fetch1", "fetch2"}
      /\ UNCHANGED cacheVars /\ UNCHANGED <<pc, req, njobs>>
      /\ inflight' = Unregistered(s)
  BY DEF ReaderInv, FetchOk, Fetching, callVars
<1>2. Busy(slot[s]) /\ slot = [t \in Slot |-> slot[t]]
  BY <1>1 DEF Busy, SlotsInv
<1>3. slot' = Served(s, ss, "served", n)
  <2>1. ss = [slot EXCEPT ![s].pc = "store", ![s].n = n]
    BY <1>2, <1>w, <1>z
  <2>2. QED
    BY <2>1, <1>n DEF FetchOk
<1>4. n \in Nat
  BY <1>1, <1>2, <1>n, FetchedType
<1>5. slot[s] \in SlotRecord /\ SlotOK(pc[s[1]], Chunked(s[1]), s[2], slot[s])
  BY <1>1, SlotFacts
<1>6. /\ w \in SlotRecord /\ w.pc = "store" /\ w.kind = slot[s].kind /\ w.key = slot[s].key
      /\ w.off = slot[s].off /\ w.len = slot[s].len
  BY <1>4, <1>5, <1>w DEF SlotRecord, SlotPcs
<1>7. SlotOK(pc[s[1]], Chunked(s[1]), s[2], w)
  BY <1>2, <1>5, <1>6, SlotMoves DEF Busy
<1>8. ss = [t \in Slot |-> ss[t]] /\ ss[s] = w /\ \A t \in Slot : t # s => ss[t] = slot[t]
  BY <1>2, <1>z
<1>9. \A t \in Slot : SlotOK(pc[t[1]], Chunked(t[1]), t[2], ss[t])
  BY <1>1, <1>7, <1>8, SlotFacts
<1>10. /\ slot' = [t \in Slot |-> slot'[t]]
       /\ \A t \in Slot : SlotOK(pc[t[1]], Chunked(t[1]), t[2], slot'[t])
       /\ \A t \in Slot : IF ss[t].pc = "wait" /\ ss[t].owner = s
                          THEN slot'[t].pc = "served" /\ slot'[t].kind = ss[t].kind
                          ELSE slot'[t] = ss[t]
  BY <1>3, <1>4, <1>9, ServedKeeps
<1>11. SlotsInv'
  <2>1. \A t \in Slot : SlotOK(pc'[t[1]], Chunked(t[1])', t[2], slot'[t])
    BY <1>1, <1>10, SameChunked
  <2>2. QED
    BY <1>10, <2>1 DEF SlotsInv
<1>12. slot'[s] = w /\ ~Flying(slot'[s]) /\ slot'[s].pc # "wait"
  BY <1>6, <1>8, <1>10 DEF Flying
<1>13. \A t \in Slot : slot[t].pc # "free" /\ slot[t].pc # "exit" => slot[t].key \in Offset
  BY <1>1, SlotFacts DEF Busy
<1>14. \A t \in Slot \ {s} :
         IF slot[t].pc = "wait" /\ slot[t].owner = s
         THEN slot'[t].pc \in {"served", "refused"} ELSE slot'[t] = slot[t]
  BY <1>8, <1>10
<1>15. FlightInv'
  BY <1>1, <1>12, <1>13, <1>14, FlightLands
<1>16. CallsInv'
  BY <1>1 DEF CallsInv
<1>17. QED
  BY <1>1, <1>11, <1>15, <1>16, CacheKept DEF ReaderInv

(* one that is tried again,                                                *)
LEMMA RetryKeeps ==
  ASSUME ReaderInv, NEW s \in Slot, Retry(s)
  PROVE  ReaderInv'
<1>1. /\ CacheInv /\ CallsInv /\ SlotsInv /\ FlightInv /\ slot[s].pc = "fetch1"
      /\ UNCHANGED cacheVars /\ UNCHANGED <<inflight, pc, req, njobs>> /\ At(s, "fetch2")
  BY DEF ReaderInv, Retry, callVars
<1>2. Busy(slot[s]) /\ "fetch2" \in SlotPcs \ {"free", "exit"}
  BY <1>1 DEF Busy, SlotPcs
<1>3. /\ SlotsInv' /\ slot'[s].pc = "fetch2" /\ slot'[s].kind = slot[s].kind
      /\ slot'[s].key = slot[s].key
      /\ \A t \in Slot : t # s => slot'[t] = slot[t]
  BY <1>1, <1>2, AtKeeps
<1>4. \A t \in Slot : /\ Flying(slot'[t]) <=> Flying(slot[t])
                      /\ slot'[t].pc = "wait" <=> slot[t].pc = "wait"
                      /\ slot'[t].key = slot[t].key
                      /\ slot[t].pc = "wait" => slot'[t].owner = slot[t].owner
  BY <1>1, <1>3 DEF Flying
<1>5. \A k \in Offset : inflight[k] # NoSlot => inflight[k] \in Slot
  BY <1>1 DEF FlightInv
<1>6. FlightInv'
  BY <1>1, <1>4, <1>5 DEF FlightInv
<1>7. CallsInv'
  BY <1>1 DEF CallsInv
<1>8. QED
  BY <1>1, <1>3, <1>6, <1>7, CacheKept DEF ReaderInv

(* one that fails for good: its registration goes and its waiters hear of  *)
(* it,                                                                     *)
LEMMA GiveUpKeeps ==
  ASSUME ReaderInv, NEW s \in Slot, GiveUp(s)
  PROVE  ReaderInv'
<1>z. PICK ss : ss = Served(s, slot, "refused", 0)
  OBVIOUS
<1>1. /\ CacheInv /\ CallsInv /\ SlotsInv /\ FlightInv /\ slot[s].pc \in {"fetch1", "fetch2"}
      /\ UNCHANGED cacheVars /\ UNCHANGED njobs
      /\ inflight' = Unregistered(s) /\ Fail(s, ss)
  BY <1>z DEF ReaderInv, GiveUp, FetchFails, Fetching
<1>2. Busy(slot[s])
  BY <1>1 DEF Busy
<1>3. \A t \in Slot : SlotOK(pc[t[1]], Chunked(t[1]), t[2], slot[t])
  BY <1>1, SlotFacts
<1>4. /\ ss = [t \in Slot |-> ss[t]]
      /\ \A t \in Slot : SlotOK(pc[t[1]], Chunked(t[1]), t[2], ss[t])
      /\ \A t \in Slot : IF slot[t].pc = "wait" /\ slot[t].owner = s
                         THEN ss[t].pc = "refused" /\ ss[t].kind = slot[t].kind
                         ELSE ss[t] = slot[t]
  BY <1>3, <1>z, ServedKeeps
<1>5. /\ CallsInv' /\ SlotsInv' /\ slot'[s].pc \in {"free", "exit"}
      /\ \A t \in Slot : t # s => slot'[t] = ss[t]
  BY <1>1, <1>2, <1>4, FailKeeps
<1>6. ~Flying(slot'[s]) /\ slot'[s].pc # "wait"
  BY <1>5 DEF Flying
<1>7. \A t \in Slot : slot[t].pc # "free" /\ slot[t].pc # "exit" => slot[t].key \in Offset
  BY <1>1, SlotFacts DEF Busy
<1>8. \A t \in Slot \ {s} :
         IF slot[t].pc = "wait" /\ slot[t].owner = s
         THEN slot'[t].pc \in {"served", "refused"} ELSE slot'[t] = slot[t]
  BY <1>4, <1>5
<1>9. FlightInv'
  BY <1>1, <1>6, <1>7, <1>8, FlightLands
<1>10. QED
  BY <1>1, <1>5, <1>9, CacheKept DEF ReaderInv

(* sliceForWindow gives at most what is wanted.                            *)
LEMMA SliceType ==
  ASSUME SlotsInv, NEW s \in Slot, Busy(slot[s])
  PROVE  Slice(s, slot[s].n) \in 0..slot[s].len
<1>1. /\ slot[s].off \in Nat /\ slot[s].key \in Nat /\ slot[s].len \in Nat
      /\ slot[s].n \in Nat
  BY SlotTypes
<1>2. QED
  BY <1>1 DEF Slice, Least

(* the window that is stored and cut to the range,                         *)
LEMMA StoreKeeps ==
  ASSUME ReaderInv, NEW s \in Slot, Store(s)
  PROVE  ReaderInv'
<1>1. /\ CacheInv /\ CallsInv /\ SlotsInv /\ FlightInv /\ slot[s].pc = "store"
      /\ StoreCached(slot[s].key, slot[s].n) /\ Deliver(s, Slice(s, slot[s].n))
      /\ UNCHANGED <<inflight, njobs>>
  BY DEF ReaderInv, Store
<1>2. Busy(slot[s]) /\ ~Flying(slot[s])
  BY <1>1 DEF Busy, Flying
<1>3. slot[s].key \in Offset /\ slot[s].n \in Nat
  BY <1>1, <1>2, SlotFacts, SlotTypes
<1>4. CacheInv'
  BY <1>1, <1>3, StoreCachedKeeps
<1>5. /\ CallsInv' /\ SlotsInv' /\ ~Flying(slot'[s]) /\ slot'[s].pc # "wait"
      /\ \A t \in Slot : t # s => slot'[t] = slot[t]
  BY <1>1, <1>2, SliceType, DeliverKeeps
<1>6. FlightInv'
  BY <1>1, <1>2, <1>5, FlightQuiet
<1>7. QED
  BY <1>4, <1>5, <1>6 DEF ReaderInv

(* A slot that is not downloading fails.                                   *)
LEMMA LeaveKeeps ==
  ASSUME CallsInv, SlotsInv, FlightInv, NEW s \in Slot, Busy(slot[s]), ~Flying(slot[s]),
         Fail(s, slot), UNCHANGED <<inflight, njobs>>
  PROVE  CallsInv' /\ SlotsInv' /\ FlightInv'
<1>1. \A t \in Slot : SlotOK(pc[t[1]], Chunked(t[1]), t[2], slot[t])
  BY SlotFacts
<1>2. slot = [t \in Slot |-> slot[t]]
  BY DEF SlotsInv
<1>z. PICK ss : ss = slot
  OBVIOUS
<1>3. /\ ss = [t \in Slot |-> ss[t]] /\ Fail(s, ss)
      /\ \A t \in Slot : SlotOK(pc[t[1]], Chunked(t[1]), t[2], ss[t])
  BY <1>1, <1>2, <1>z
<1>4. /\ CallsInv' /\ SlotsInv' /\ slot'[s].pc \in {"free", "exit"}
      /\ \A t \in Slot : t # s => slot'[t] = ss[t]
  BY <1>3, FailKeeps
<1>5. FlightInv'
  BY <1>4, <1>z, FlightQuiet DEF Flying
<1>6. QED
  BY <1>4, <1>5

(* a waiter that gets the outcome,                                         *)
LEMMA WakeKeeps ==
  ASSUME ReaderInv, NEW s \in Slot, Wake(s)
  PROVE  ReaderInv'
<1>1. /\ CacheInv /\ CallsInv /\ SlotsInv /\ FlightInv
      /\ UNCHANGED cacheVars /\ UNCHANGED <<inflight, njobs>>
      /\ \/ slot[s].pc = "served" /\ Deliver(s, Slice(s, slot[s].n))
         \/ slot[s].pc = "refused" /\ Fail(s, slot)
  BY DEF ReaderInv, Wake
<1>2. Busy(slot[s]) /\ ~Flying(slot[s])
  BY <1>1 DEF Busy, Flying
<1>3. CASE Deliver(s, Slice(s, slot[s].n))
  <2>1. /\ CallsInv' /\ SlotsInv' /\ ~Flying(slot'[s]) /\ slot'[s].pc # "wait"
        /\ \A t \in Slot : t # s => slot'[t] = slot[t]
    BY <1>1, <1>2, <1>3, SliceType, DeliverKeeps
  <2>2. FlightInv'
    BY <1>1, <1>2, <2>1, FlightQuiet
  <2>3. QED
    BY <1>1, <2>1, <2>2, CacheKept DEF ReaderInv
<1>4. CASE Fail(s, slot)
  BY <1>1, <1>2, <1>4, LeaveKeeps, CacheKept DEF ReaderInv
<1>5. QED
  BY <1>1, <1>3, <1>4

(* and one that no longer waits.                                           *)
LEMMA StopWaitingKeeps ==
  ASSUME ReaderInv, NEW s \in Slot, StopWaiting(s)
  PROVE  ReaderInv'
<1>1. /\ CacheInv /\ CallsInv /\ SlotsInv /\ FlightInv
      /\ UNCHANGED cacheVars /\ UNCHANGED <<inflight, njobs>> /\ Fail(s, slot)
      /\ slot[s].pc \in {"wait", "served", "refused"}
  BY DEF ReaderInv, StopWaiting
<1>2. Busy(slot[s]) /\ ~Flying(slot[s])
  BY <1>1 DEF Busy, Flying
<1>3. QED
  BY <1>1, <1>2, LeaveKeeps, CacheKept DEF ReaderInv

(* The invariant holds when nothing has been read,                         *)
LEMMA ReaderStarts == Init => ReaderInv
<1> SUFFICES ASSUME Init PROVE ReaderInv
  OBVIOUS
<1>1. CacheInv
  <2>1. /\ cached \in [Offset -> Nat] /\ <<>> \in Seq(Offset) /\ Distinct(<<>>)
        /\ \A k \in Offset : cached[k] > 0 <=> k \in Elems(<<>>)
        /\ Total(cached, <<>>) = 0
    BY EmptyCache DEF Init
  <2>2. order = <<>> /\ bytes = 0 /\ CacheLimit \in Nat
    BY RemoteAssumption DEF Init
  <2>3. QED
    BY <2>1, <2>2 DEF CacheInv, CacheAccounted
<1>2. CallsInv
  <2>1. NoHeader \in Request
    BY DEF NoHeader, Request
  <2>2. QED
    BY <2>1 DEF Init, CallsInv
<1>3. SlotsInv
  BY FreeOK DEF Init, SlotsInv
<1>4. FlightInv
  BY FreeRecord DEF Init, FlightInv, Flying
<1>5. QED
  BY <1>1, <1>2, <1>3, <1>4 DEF ReaderInv

(* and every step keeps it.                                                *)
LEMMA ReaderStep == ReaderInv /\ [Next]_vars => ReaderInv'
<1> SUFFICES ASSUME ReaderInv, [Next]_vars PROVE ReaderInv'
  OBVIOUS
<1>1. CASE UNCHANGED vars
  <2>1. UNCHANGED cacheVars /\ UNCHANGED <<inflight, pc, req, njobs, slot>>
    BY <1>1 DEF vars, cacheVars
  <2>2. CallsInv'
    BY <2>1 DEF ReaderInv, CallsInv
  <2>3. QED
    BY <2>1, <2>2, CacheKept, SlotsKept, SlotsStill DEF ReaderInv
<1>2. ASSUME NEW c \in Callers, CallStep(c) PROVE ReaderInv'
  BY <1>2, ReadRangeKeeps, JoinKeeps DEF CallStep
<1>3. ASSUME NEW s \in Slot, SlotStep(s) PROVE ReaderInv'
  BY <1>3, TakeJobKeeps, StopWorkerKeeps, LookupKeeps, WaitInflightKeeps,
     BeginInflightKeeps, FetchOkKeeps, RetryKeeps, GiveUpKeeps, StoreKeeps, WakeKeeps,
     StopWaitingKeeps DEF SlotStep
<1>4. QED
  BY <1>1, <1>2, <1>3, CancelKeeps, StartRequestKeeps, ClearKeeps DEF Next

(* The cache is accounted for, served ranges lie within the file, the      *)
(* slots fit their callers, and the inflight map has exactly the downloads *)
(* that are shared.                                                        *)
THEOREM ReaderInvariant == Spec => []ReaderInv
BY ReaderStarts, ReaderStep, PTL DEF Spec

(* readCachedLocked, storeCachedLocked and clearReadCacheLocked keep       *)
(* cached, cacheOrder and cacheBytes in agreement and the cache within its *)
(* limit, for any file, limit, window and number of callers.               *)
THEOREM CacheIsAccounted == Spec => []CacheAccounted
<1>1. ReaderInv => CacheAccounted
  BY DEF ReaderInv, CacheInv
<1>2. QED
  BY <1>1, ReaderInvariant, PTL

(* The inflight map has no stale registration and nobody waits for a       *)
(* download that has ended (waitInflight, beginInflight, finishInflight),  *)
(* through failures, retries, cancelled owners and cancelled waiters.      *)
THEOREM FlightsAreOwned == Spec => []InflightOwned
<1>1. ReaderInv => InflightOwned
  <2> SUFFICES ASSUME ReaderInv PROVE InflightOwned
    OBVIOUS
  <2>0. SlotsInv /\ FlightInv
    BY DEF ReaderInv
  <2>1. \A k \in Offset : inflight[k] # NoSlot =>
          Fetching(inflight[k]) /\ slot[inflight[k]].key = k
    BY <2>0 DEF FlightInv, Flying, Fetching
  <2>2. ASSUME NEW s \in Slot, slot[s].pc = "wait"
        PROVE  Fetching(slot[s].owner) /\ slot[slot[s].owner].key = slot[s].key
    <3>1. slot[s].owner # NoSlot /\ inflight[slot[s].key] = slot[s].owner
      BY <2>0, <2>2 DEF FlightInv
    <3>2. slot[s].key \in Offset
      BY <2>0, <2>2, SlotFacts DEF Busy
    <3>3. QED
      BY <2>1, <3>1, <3>2
  <2>3. QED
    BY <2>1, <2>2 DEF InflightOwned
<1>2. QED
  BY <1>1, ReaderInvariant, PTL

(* Two reads never download at the same offset at once, exact reads of a   *)
(* missing rest excepted: beginInflight's second look under the lock is    *)
(* enough.                                                                 *)
THEOREM DownloadsAreShared == Spec => []OneDownload
<1>1. ReaderInv => OneDownload
  BY DEF ReaderInv, FlightInv, OneDownload, Fetching, Flying
<1>2. QED
  BY <1>1, ReaderInvariant, PTL

-----------------------------------------------------------------------------
(* Answers                                                                 *)

(* No piece is longer than a chunk or there is one worker, so that every   *)
(* piece is read by readSequential: the default configuration.             *)
Unchunked == Concurrency = 1 \/ Piece <= ChunkSize

(* b has the bytes that the request r wants, up to m.                      *)
Upto(r, b, m) ==
  LET range == ParseHTTPRange(r[1]) IN
  /\ range # <<>>
  /\ r[3] = range[2]
  /\ range[1] <= m
  /\ b = range[1]..(m - 1)

(* A caller at p, whose request is r and whose only slot is v, has written *)
(* b: all that comes before the piece, and before what v still wants of it.*)
CallerWhole(p, r, b, v) ==
  /\ p \in {"cache", "ok"} => Upto(r, b, r[2])
  /\ p = "ok" => r[2] = r[3]
  /\ p = "read" =>
       /\ Busy(v)
       /\ v.off + v.len = r[2] + Least(Piece, r[3] - r[2])
       /\ Upto(r, b, v.off)

WholeInv ==
  /\ buf = [c \in Callers |-> buf[c]]
  /\ \A c \in Callers : CallerWhole(pc[c], req[c], buf[c], slot[<<c, 1>>])

(* There are then no chunks,                                               *)
LEMMA NotChunked ==
  ASSUME Unchunked, CallsInv, NEW c \in Callers
  PROVE  ~Chunked(c)
<1>1. req[c][2] \in Nat /\ req[c][3] \in Nat
  BY DEF CallsInv
<1>2. PieceLen(c) \in Int /\ PieceLen(c) <= Piece
  BY <1>1, Numbers DEF PieceLen, Least
<1>3. QED
  BY <1>2, Numbers DEF Chunked, Unchunked

(* The only slots are the first ones.                                      *)
LEMMA FirstSlot ==
  ASSUME Unchunked, CallsInv, SlotsInv, NEW s \in Slot, Busy(slot[s])
  PROVE  /\ s[1] \in Callers /\ s = <<s[1], 1>> /\ slot[s].kind # "chunk"
         /\ pc[s[1]] = "read"
<1>1. s[1] \in Callers /\ s = <<s[1], s[2]>>
  BY DEF Slot
<1>2. ~Chunked(s[1])
  BY <1>1, NotChunked
<1>3. slot[s].kind # "chunk" /\ s[2] = 1 /\ pc[s[1]] = "read"
  BY <1>2, SlotFacts
<1>4. QED
  BY <1>1, <1>3

(* which there is.                                                         *)
LEMMA FirstIsSlot ==
  ASSUME NEW c \in Callers
  PROVE  <<c, 1>> \in Slot
BY Numbers DEF Slot

(* The bytes that come next are added.                                     *)
LEMMA UptoMore ==
  ASSUME NEW r \in Request \X Nat \X Nat, NEW b, NEW m \in Nat, NEW g \in Nat,
         Upto(r, b, m)
  PROVE  Upto(r, b \cup Range0(m, g), m + g)
<1>1. PICK a : a = ParseHTTPRange(r[1])[1]
  OBVIOUS
<1>2. r[1] \in Request /\ ParseHTTPRange(r[1]) # <<>>
  BY DEF Upto
<1>3. a \in Nat
  BY <1>1, <1>2, ParsedRange
<1>4. a <= m /\ b = a..(m - 1)
  BY <1>1 DEF Upto
<1>5. (a..(m - 1)) \cup (m..(m + g - 1)) = a..(m + g - 1)
  BY <1>3, <1>4
<1>6. a <= m + g /\ b \cup Range0(m, g) = a..(m + g - 1)
  BY <1>3, <1>4, <1>5 DEF Range0
<1>7. QED
  BY <1>1, <1>6 DEF Upto

(* A slot goes on wanting what it wants.                                   *)
SameWant(v, w) == Busy(v) => Busy(w) /\ w.off = v.off /\ w.len = v.len

(* Reads go on wanting the same, and nothing is written,                   *)
LEMMA WholeQuiet ==
  ASSUME WholeInv, UNCHANGED <<pc, req, buf>>,
         \A c \in Callers : SameWant(slot[<<c, 1>>], slot'[<<c, 1>>])
  PROVE  WholeInv'
<1>1. ASSUME NEW c \in Callers
      PROVE  CallerWhole(pc[c], req[c], buf[c], slot'[<<c, 1>>])
  <2>1. /\ CallerWhole(pc[c], req[c], buf[c], slot[<<c, 1>>])
        /\ SameWant(slot[<<c, 1>>], slot'[<<c, 1>>])
    BY DEF WholeInv
  <2>2. QED
    BY <2>1 DEF CallerWhole, SameWant
<1>2. QED
  BY <1>1 DEF WholeInv

(* One caller goes on, the others and their slots do not.                  *)
LEMMA WholeOne ==
  ASSUME WholeInv, NEW c \in Callers,
         \A d \in Callers : d # c =>
           /\ pc'[d] = pc[d] /\ req'[d] = req[d]
           /\ SameWant(slot[<<d, 1>>], slot'[<<d, 1>>]),
         NEW b, buf' = [buf EXCEPT ![c] = b],
         CallerWhole(pc'[c], req'[c], b, slot'[<<c, 1>>])
  PROVE  WholeInv'
<1>1. /\ buf' = [d \in Callers |-> buf'[d]] /\ buf'[c] = b
      /\ \A d \in Callers : d # c => buf'[d] = buf[d]
  BY DEF WholeInv
<1>2. ASSUME NEW d \in Callers, d # c
      PROVE  CallerWhole(pc'[d], req'[d], buf'[d], slot'[<<d, 1>>])
  <2>1. CallerWhole(pc[d], req[d], buf[d], slot[<<d, 1>>])
    BY DEF WholeInv
  <2>2. /\ pc'[d] = pc[d] /\ req'[d] = req[d] /\ buf'[d] = buf[d]
        /\ SameWant(slot[<<d, 1>>], slot'[<<d, 1>>])
    BY <1>1, <1>2
  <2>3. QED
    BY <2>1, <2>2 DEF CallerWhole, SameWant
<1>3. QED
  BY <1>1, <1>2 DEF WholeInv

(* A request begins with nothing written.                                  *)
LEMMA StartRequestWhole ==
  ASSUME ReaderInv, WholeInv, NEW c \in Callers, NEW h \in Requests, StartRequest(c, h)
  PROVE  WholeInv'
<1>r. PICK range : range = ParseHTTPRange(h)
  OBVIOUS
<1>1. /\ CallsInv /\ UNCHANGED slot /\ buf' = [buf EXCEPT ![c] = {}]
  BY DEF ReaderInv, StartRequest
<1>2. pc \in [Callers -> {"idle", "cache", "read", "ok", "err"}]
      /\ req \in [Callers -> Request \X Nat \X Nat] /\ h \in Request
  BY <1>1, RemoteAssumption DEF CallsInv
<1>3. \A d \in Callers : SameWant(slot[<<d, 1>>], slot'[<<d, 1>>])
  BY <1>1 DEF SameWant
<1>4. CASE range = <<>>
  <2>1. pc' = [pc EXCEPT ![c] = "err"] /\ UNCHANGED req
    BY <1>r, <1>4 DEF StartRequest
  <2>2. pc'[c] = "err" /\ \A d \in Callers : d # c => pc'[d] = pc[d]
    BY <1>2, <2>1
  <2>3. CallerWhole(pc'[c], req'[c], {}, slot'[<<c, 1>>])
    BY <2>2 DEF CallerWhole
  <2>4. QED
    BY <1>1, <1>3, <2>1, <2>2, <2>3, WholeOne
<1>5. CASE range # <<>>
  <2>r. PICK r : r = <<h, range[1], range[2]>>
    OBVIOUS
  <2>1. pc' = [pc EXCEPT ![c] = "cache"] /\ req' = [req EXCEPT ![c] = r]
    BY <1>r, <1>5, <2>r DEF StartRequest
  <2>2. /\ pc'[c] = "cache" /\ req'[c] = r
        /\ \A d \in Callers : d # c => pc'[d] = pc[d] /\ req'[d] = req[d]
    BY <1>2, <2>1
  <2>3. range[1] \in Nat
    BY <1>2, <1>5, <1>r, ParsedRange
  <2>4. r[1] = h /\ r[2] = range[1] /\ r[3] = range[2]
    BY <2>r
  <2>5. {} = range[1]..(range[1] - 1)
    BY <2>3
  <2>6. Upto(r, {}, r[2])
    BY <1>5, <1>r, <2>3, <2>4, <2>5 DEF Upto
  <2>7. CallerWhole(pc'[c], req'[c], {}, slot'[<<c, 1>>])
    BY <2>2, <2>6 DEF CallerWhole
  <2>8. QED
    BY <1>1, <1>3, <2>2, <2>7, WholeOne
<1>6. QED
  BY <1>4, <1>5

(* The piece is complete.                                                  *)
LEMMA PieceWhole ==
  ASSUME CallsInv, NEW c \in Callers, pc[c] \in {"cache", "read"}, PieceDone(c),
         NEW m \in Nat, NEW g \in Nat, m + g = PieceOff(c) + PieceLen(c),
         Upto(req[c], buf[c], m), NEW v
  PROVE  /\ CallerWhole(pc'[c], req'[c], buf[c] \cup Range0(m, g), v)
         /\ \A d \in Callers : d # c => pc'[d] = pc[d] /\ req'[d] = req[d]
<1>n. PICK next : next = PieceOff(c) + PieceLen(c)
  OBVIOUS
<1>1. /\ req' = [req EXCEPT ![c][2] = next]
      /\ pc' = [pc EXCEPT ![c] = IF next = req[c][3] THEN "ok" ELSE "cache"]
  BY <1>n DEF PieceDone
<1>2. pc \in [Callers -> {"idle", "cache", "read", "ok", "err"}]
      /\ req \in [Callers -> Request \X Nat \X Nat] /\ next = m + g
  BY <1>n DEF CallsInv
<1>r. PICK r : r = <<req[c][1], next, req[c][3]>>
  OBVIOUS
<1>3. /\ req'[c] = r
      /\ \A d \in Callers : d # c => req'[d] = req[d]
  <2>1. req' = [req EXCEPT ![c] = [req[c] EXCEPT ![2] = next]]
    BY <1>1
  <2>2. req[c] = <<req[c][1], req[c][2], req[c][3]>>
    BY <1>2
  <2>3. [req[c] EXCEPT ![2] = next] = r
    BY <1>r, <2>2
  <2>4. QED
    BY <2>1, <2>3, <1>2
<1>4. /\ pc'[c] = (IF next = req[c][3] THEN "ok" ELSE "cache")
      /\ \A d \in Callers : d # c => pc'[d] = pc[d]
  BY <1>1, <1>2
<1>5. r[1] = req[c][1] /\ r[2] = next /\ r[3] = req[c][3]
  BY <1>r
<1>6. Upto(req[c], buf[c] \cup Range0(m, g), next)
  BY <1>2, UptoMore
<1>7. Upto(r, buf[c] \cup Range0(m, g), r[2])
  BY <1>5, <1>6 DEF Upto
<1>8. CallerWhole(pc'[c], req'[c], buf[c] \cup Range0(m, g), v)
  BY <1>3, <1>4, <1>5, <1>7 DEF CallerWhole
<1>9. QED
  BY <1>3, <1>4, <1>8

(* ReadRange: a cached window has the piece, or the whole of it is wanted. *)
LEMMA ReadRangeWhole ==
  ASSUME Unchunked, ReaderInv, WholeInv, NEW c \in Callers, ReadRange(c)
  PROVE  WholeInv'
<1>o. PICK off : off = PieceOff(c)
  OBVIOUS
<1>l. PICK len : len = PieceLen(c)
  OBVIOUS
<1>1. /\ CallsInv /\ SlotsInv /\ pc[c] = "cache"
      /\ pc \in [Callers -> {"idle", "cache", "read", "ok", "err"}]
  BY DEF ReaderInv, ReadRange, CallsInv
<1>2. off \in Nat /\ len \in Nat /\ 1 <= len /\ off + len <= Size
  BY <1>1, <1>o, <1>l, PieceFacts, Numbers
<1>3. Upto(req[c], buf[c], off) /\ buf = [d \in Callers |-> buf[d]]
  BY <1>1, <1>o DEF WholeInv, CallerWhole, PieceOff
<1>4. CASE /\ buf' = [buf EXCEPT ![c] = @ \cup Range0(off, len)]
           /\ PieceDone(c) /\ UNCHANGED slot
  <2>1. /\ CallerWhole(pc'[c], req'[c], buf[c] \cup Range0(off, len), slot'[<<c, 1>>])
        /\ \A d \in Callers : d # c => pc'[d] = pc[d] /\ req'[d] = req[d]
    BY <1>1, <1>2, <1>3, <1>4, <1>o, <1>l, PieceWhole
  <2>b. PICK b : b = buf[c] \cup Range0(off, len)
    OBVIOUS
  <2>2. buf' = [buf EXCEPT ![c] = b]
    BY <1>4, <2>b
  <2>3. \A d \in Callers : SameWant(slot[<<d, 1>>], slot'[<<d, 1>>])
    BY <1>4 DEF SameWant
  <2>4. QED
    BY <2>1, <2>2, <2>3, <2>b, WholeOne
<1>5. CASE /\ pc' = [pc EXCEPT ![c] = "read"]
           /\ slot' = IF Chunked(c) THEN slot
                      ELSE [slot EXCEPT ![<<c, 1>>] = Window(off, len)]
           /\ UNCHANGED <<req, buf>>
  <2>s. PICK s : s = <<c, 1>>
    OBVIOUS
  <2>w. PICK w : w = Window(off, len)
    OBVIOUS
  <2>1. slot' = [slot EXCEPT ![s] = w]
    BY <1>1, <1>5, <2>s, <2>w, NotChunked
  <2>2. s \in Slot
    BY <2>s, FirstIsSlot
  <2>3. slot'[s] = w /\ \A t \in Slot : t # s => slot'[t] = slot[t]
    BY <1>1, <2>1, <2>2 DEF SlotsInv
  <2>4. w.pc = "lookup" /\ w.off = off /\ w.len = len
    BY <2>w DEF Window, FreeSlot
  <2>5. \A d \in Callers : d # c => SameWant(slot[<<d, 1>>], slot'[<<d, 1>>])
    <3>1. ASSUME NEW d \in Callers, d # c PROVE slot'[<<d, 1>>] = slot[<<d, 1>>]
      BY <2>3, <2>s, <3>1, FirstIsSlot
    <3>2. QED
      BY <3>1 DEF SameWant
  <2>6. pc'[c] = "read" /\ \A d \in Callers : d # c => pc'[d] = pc[d] /\ req'[d] = req[d]
    BY <1>1, <1>5
  <2>7. off + len = req[c][2] + Least(Piece, req[c][3] - req[c][2])
    BY <1>o, <1>l DEF PieceOff, PieceLen
  <2>8. CallerWhole(pc'[c], req'[c], buf[c], slot'[<<c, 1>>])
    BY <1>3, <1>5, <2>3, <2>4, <2>6, <2>7, <2>s DEF CallerWhole, Busy
  <2>b. PICK b : b = buf[c]
    OBVIOUS
  <2>9. buf' = [buf EXCEPT ![c] = b]
    BY <1>3, <1>5, <2>b
  <2>10. QED
    BY <2>5, <2>6, <2>8, <2>9, <2>b, WholeOne
<1>6. CASE /\ pc' = [pc EXCEPT ![c] = "err"] /\ UNCHANGED <<req, buf, slot>>
  <2>1. pc'[c] = "err" /\ \A d \in Callers : d # c => pc'[d] = pc[d] /\ req'[d] = req[d]
    BY <1>1, <1>6
  <2>2. CallerWhole(pc'[c], req'[c], buf[c], slot'[<<c, 1>>])
    BY <2>1 DEF CallerWhole
  <2>b. PICK b : b = buf[c]
    OBVIOUS
  <2>3. buf' = [buf EXCEPT ![c] = b]
    BY <1>3, <1>6, <2>b
  <2>4. \A d \in Callers : SameWant(slot[<<d, 1>>], slot'[<<d, 1>>])
    BY <1>6 DEF SameWant
  <2>5. QED
    BY <2>1, <2>2, <2>3, <2>4, <2>b, WholeOne
<1>7. QED
  BY <1>4, <1>5, <1>6, <1>o, <1>l DEF ReadRange

(* A read writes what it got and wants the rest, if there is one.          *)
LEMMA DeliverWhole ==
  ASSUME Unchunked, CallsInv, SlotsInv, WholeInv, NEW s \in Slot, Busy(slot[s]),
         NEW g \in 0..slot[s].len, Deliver(s, g), UNCHANGED njobs
  PROVE  WholeInv'
<1>c. PICK c : c = s[1]
  OBVIOUS
<1>v. PICK v : v = slot[s]
  OBVIOUS
<1>b. PICK b : b = buf[c] \cup Range0(v.off, g)
  OBVIOUS
<1>1. c \in Callers /\ s = <<c, 1>> /\ v.kind # "chunk" /\ pc[c] = "read"
  BY <1>c, <1>v, FirstSlot
<1>2. v.off \in Nat /\ v.len \in Nat /\ g \in Nat
  BY <1>v, SlotTypes
<1>3. /\ buf = [d \in Callers |-> buf[d]]
      /\ v.off + v.len = PieceOff(c) + PieceLen(c)
      /\ Upto(req[c], buf[c], v.off)
  BY <1>1, <1>v DEF WholeInv, CallerWhole, PieceOff, PieceLen
<1>4. buf' = [buf EXCEPT ![c] = b]
  BY <1>b, <1>c, <1>v DEF Deliver
<1>5. \A t \in Slot : t # s => slot'[t] = slot[t]
  BY DeliverKeeps
<1>6. \A d \in Callers : d # c => SameWant(slot[<<d, 1>>], slot'[<<d, 1>>])
  <2>1. ASSUME NEW d \in Callers, d # c PROVE slot'[<<d, 1>>] = slot[<<d, 1>>]
    BY <1>1, <1>5, <2>1, FirstIsSlot
  <2>2. QED
    BY <2>1 DEF SameWant
<1>7. CASE g = v.len
  <2>1. PieceDone(c)
    BY <1>1, <1>7, <1>c, <1>v DEF Deliver, Whole
  <2>2. /\ CallerWhole(pc'[c], req'[c], buf[c] \cup Range0(v.off, g), slot'[<<c, 1>>])
        /\ \A d \in Callers : d # c => pc'[d] = pc[d] /\ req'[d] = req[d]
    BY <1>1, <1>2, <1>3, <1>7, <2>1, PieceWhole
  <2>3. QED
    BY <1>1, <1>4, <1>6, <1>b, <2>2, WholeOne
<1>8. CASE g # v.len
  <2>w. PICK w : w = Exact("exact", v.off + g, v.len - g)
    OBVIOUS
  <2>1. slot' = [slot EXCEPT ![s] = w] /\ UNCHANGED <<pc, req>>
    BY <1>1, <1>8, <1>v, <2>w DEF Deliver, Whole
  <2>2. w.pc = "lookup" /\ w.off = v.off + g /\ w.len = v.len - g
    BY <2>w DEF Exact, FreeSlot
  <2>3. slot'[s] = w
    BY <2>1 DEF SlotsInv
  <2>4. req[c] \in Request \X Nat \X Nat
    BY <1>1 DEF CallsInv
  <2>5. Upto(req[c], b, w.off)
    BY <1>2, <1>3, <1>b, <2>2, <2>4, UptoMore
  <2>6. w.off + w.len = PieceOff(c) + PieceLen(c)
    BY <1>2, <1>3, <2>2
  <2>7. CallerWhole(pc'[c], req'[c], b, slot'[<<c, 1>>])
    BY <1>1, <2>1, <2>2, <2>3, <2>5, <2>6 DEF CallerWhole, Busy, PieceOff, PieceLen
  <2>8. QED
    BY <1>1, <1>4, <1>6, <2>1, <2>7, WholeOne
<1>9. QED
  BY <1>7, <1>8

(* Who is served or refused wants the same.                                *)
LEMMA ServedWants ==
  ASSUME NEW ss, NEW s, NEW p \in {"served", "refused"}, NEW n,
         \A t \in Slot : ss[t] \in SlotRecord
  PROVE  \A t \in Slot : SameWant(ss[t], Served(s, ss, p, n)[t])
<1>1. ASSUME NEW t \in Slot
      PROVE  SameWant(ss[t], Served(s, ss, p, n)[t])
  <2>v. PICK v : v = ss[t]
    OBVIOUS
  <2>w. PICK w : w = Served(s, ss, p, n)[t]
    OBVIOUS
  <2>1. w = v \/ w = [v EXCEPT !.pc = p, !.n = n, !.owner = NoSlot]
    BY <2>v, <2>w DEF Served
  <2>2. v \in SlotRecord
    BY <2>v
  <2>3. SameWant(v, w)
    BY <2>1, <2>2 DEF SameWant, SlotRecord, Busy
  <2>4. QED
    BY <2>3, <2>v, <2>w
<1>2. QED
  BY <1>1

(* A read fails, and with it the request.                                  *)
LEMMA FailWhole ==
  ASSUME Unchunked, CallsInv, SlotsInv, WholeInv, NEW s \in Slot, Busy(slot[s]), NEW ss,
         ss = [t \in Slot |-> ss[t]],
         \A t \in Slot : SameWant(slot[t], ss[t]),
         Fail(s, ss)
  PROVE  WholeInv'
<1>c. PICK c : c = s[1]
  OBVIOUS
<1>1. c \in Callers /\ s = <<c, 1>> /\ slot[s].kind # "chunk"
  BY <1>c, FirstSlot
<1>2. /\ pc' = [pc EXCEPT ![c] = "err"] /\ slot' = [ss EXCEPT ![s] = FreeSlot]
      /\ UNCHANGED <<req, buf>>
  BY <1>1, <1>c DEF Fail
<1>3. pc'[c] = "err" /\ \A d \in Callers : d # c => pc'[d] = pc[d] /\ req'[d] = req[d]
  BY <1>1, <1>2 DEF CallsInv
<1>4. \A t \in Slot : t # s => slot'[t] = ss[t]
  BY <1>2
<1>5. \A d \in Callers : d # c => SameWant(slot[<<d, 1>>], slot'[<<d, 1>>])
  <2>1. ASSUME NEW d \in Callers, d # c PROVE SameWant(slot[<<d, 1>>], slot'[<<d, 1>>])
    <3>1. <<d, 1>> \in Slot /\ <<d, 1>> # s
      BY <1>1, <2>1, FirstIsSlot
    <3>2. QED
      BY <1>4, <3>1
  <2>2. QED
    BY <2>1
<1>6. CallerWhole(pc'[c], req'[c], buf[c], slot'[<<c, 1>>])
  BY <1>3 DEF CallerWhole
<1>b. PICK b : b = buf[c]
  OBVIOUS
<1>7. buf' = [buf EXCEPT ![c] = b]
  BY <1>2, <1>b DEF WholeInv
<1>8. QED
  BY <1>1, <1>3, <1>5, <1>6, <1>7, <1>b, WholeOne

(* A read that goes on wants the same,                                     *)
LEMMA AtWants ==
  ASSUME SlotsInv, NEW s \in Slot, NEW p \in SlotPcs \ {"free", "exit"}, At(s, p)
  PROVE  \A c \in Callers : SameWant(slot[<<c, 1>>], slot'[<<c, 1>>])
<1>w. PICK w : w = [slot[s] EXCEPT !.pc = p]
  OBVIOUS
<1>1. slot' = [slot EXCEPT ![s] = w]
  BY <1>w DEF At
<1>2. slot'[s] = w /\ \A t \in Slot : t # s => slot'[t] = slot[t]
  BY <1>1 DEF SlotsInv
<1>3. slot[s] \in SlotRecord
  BY SlotFacts
<1>4. w.pc = p /\ w.off = slot[s].off /\ w.len = slot[s].len
  BY <1>3, <1>w, StepRecord
<1>5. \A t \in Slot : SameWant(slot[t], slot'[t])
  BY <1>2, <1>4 DEF SameWant, Busy
<1>6. QED
  BY <1>5, FirstIsSlot

(* so does one that begins to wait,                                        *)
LEMMA WaitWants ==
  ASSUME SlotsInv, NEW s \in Slot, NEW x,
         slot' = [slot EXCEPT ![s].pc = "wait", ![s].owner = x]
  PROVE  \A c \in Callers : SameWant(slot[<<c, 1>>], slot'[<<c, 1>>])
<1>w. PICK w : w = [slot[s] EXCEPT !.pc = "wait", !.owner = x]
  OBVIOUS
<1>0. slot = [t \in Slot |-> slot[t]]
  BY DEF SlotsInv
<1>1. slot' = [slot EXCEPT ![s] = w]
  BY <1>0, <1>w
<1>2. slot'[s] = w /\ \A t \in Slot : t # s => slot'[t] = slot[t]
  BY <1>0, <1>1
<1>3. slot[s] \in SlotRecord
  BY SlotFacts
<1>4. w.pc = "wait" /\ w.off = slot[s].off /\ w.len = slot[s].len
  BY <1>3, <1>w DEF SlotRecord
<1>5. \A t \in Slot : SameWant(slot[t], slot'[t])
  BY <1>2, <1>4 DEF SameWant, Busy
<1>6. QED
  BY <1>5, FirstIsSlot

(* one that does nothing,                                                  *)
LEMMA StillWants ==
  ASSUME UNCHANGED slot
  PROVE  \A c \in Callers : SameWant(slot[<<c, 1>>], slot'[<<c, 1>>])
BY DEF SameWant

(* and one that got its window.                                            *)
LEMMA FetchOkWants ==
  ASSUME SlotsInv, NEW s \in Slot, FetchOk(s)
  PROVE  \A c \in Callers : SameWant(slot[<<c, 1>>], slot'[<<c, 1>>])
<1>n. PICK n : n = Fetched(s)
  OBVIOUS
<1>w. PICK w : w = [slot[s] EXCEPT !.pc = "store", !.n = n]
  OBVIOUS
<1>z. PICK ss : ss = [slot EXCEPT ![s] = w]
  OBVIOUS
<1>0. slot = [t \in Slot |-> slot[t]] /\ slot[s].pc \in {"fetch1", "fetch2"}
  BY DEF SlotsInv, FetchOk, Fetching
<1>1. Busy(slot[s])
  BY <1>0 DEF Busy
<1>2. n \in Nat
  BY <1>1, <1>n, FetchedType
<1>3. slot' = Served(s, ss, "served", n)
  <2>1. ss = [slot EXCEPT ![s].pc = "store", ![s].n = n]
    BY <1>0, <1>w, <1>z
  <2>2. QED
    BY <2>1, <1>n DEF FetchOk
<1>4. slot[s] \in SlotRecord
  BY SlotFacts
<1>5. w \in SlotRecord /\ w.pc = "store" /\ w.off = slot[s].off /\ w.len = slot[s].len
  BY <1>2, <1>4, <1>w DEF SlotRecord, SlotPcs
<1>6. ss[s] = w /\ \A t \in Slot : t # s => ss[t] = slot[t]
  BY <1>0, <1>z
<1>7. \A t \in Slot : SameWant(slot[t], ss[t]) /\ ss[t] \in SlotRecord
  BY <1>5, <1>6, SlotFacts DEF SameWant, Busy
<1>8. \A t \in Slot : SameWant(ss[t], slot'[t])
  BY <1>3, <1>7, ServedWants
<1>9. \A t \in Slot : SameWant(slot[t], slot'[t])
  BY <1>7, <1>8 DEF SameWant
<1>10. QED
  BY <1>9, FirstIsSlot

(* The steps of a read keep what is written whole.                         *)
LEMMA SlotStepWhole ==
  ASSUME Unchunked, ReaderInv, WholeInv, NEW s \in Slot, SlotStep(s)
  PROVE  WholeInv'
<1>0. CallsInv /\ SlotsInv /\ s[1] \in Callers /\ slot = [t \in Slot |-> slot[t]]
  BY SlotFacts DEF ReaderInv, SlotsInv
<1>1. ~Chunked(s[1])
  BY <1>0, NotChunked
<1>2. ~TakeJob(s) /\ ~StopWorker(s)
  BY <1>1 DEF TakeJob, StopWorker
<1>3. CASE Lookup(s)
  <2>1. slot[s].pc = "lookup" /\ UNCHANGED njobs
    BY <1>3 DEF Lookup
  <2>2. Busy(slot[s])
    BY <2>1 DEF Busy
  <2>3. slot[s].len \in 0..slot[s].len
    BY <1>0, SlotTypes
  <2>4. CASE Deliver(s, slot[s].len)
    BY <1>0, <2>1, <2>2, <2>3, <2>4, DeliverWhole
  <2>5. CASE /\ At(s, IF slot[s].kind = "exact" THEN "fetch1" ELSE "peek")
             /\ UNCHANGED <<pc, req, buf>>
    <3>p. PICK p : p = IF slot[s].kind = "exact" THEN "fetch1" ELSE "peek"
      OBVIOUS
    <3>1. p \in SlotPcs \ {"free", "exit"} /\ At(s, p)
      BY <2>5, <3>p DEF SlotPcs
    <3>2. QED
      BY <1>0, <2>5, <3>1, AtWants, WholeQuiet
  <2>6. QED
    BY <1>3, <2>4, <2>5 DEF Lookup
<1>4. CASE WaitInflight(s)
  <2>0. UNCHANGED <<pc, req, buf>>
    BY <1>4 DEF WaitInflight, callVars
  <2>1. CASE At(s, "begin")
    <3>1. "begin" \in SlotPcs \ {"free", "exit"}
      BY DEF SlotPcs
    <3>2. QED
      BY <1>0, <2>0, <2>1, <3>1, AtWants, WholeQuiet
  <2>2. CASE slot' = [slot EXCEPT ![s].pc = "wait", ![s].owner = inflight[slot[s].key]]
    BY <1>0, <2>0, <2>2, WaitWants, WholeQuiet
  <2>3. QED
    BY <1>4, <2>1, <2>2 DEF WaitInflight
<1>5. CASE BeginInflight(s)
  <2>0. UNCHANGED <<pc, req, buf>>
    BY <1>5 DEF BeginInflight, callVars
  <2>1. CASE At(s, "fetch1")
    <3>1. "fetch1" \in SlotPcs \ {"free", "exit"}
      BY DEF SlotPcs
    <3>2. QED
      BY <1>0, <2>0, <2>1, <3>1, AtWants, WholeQuiet
  <2>2. CASE slot' = [slot EXCEPT ![s].pc = "wait", ![s].owner = inflight[slot[s].key]]
    BY <1>0, <2>0, <2>2, WaitWants, WholeQuiet
  <2>3. QED
    BY <1>5, <2>1, <2>2 DEF BeginInflight
<1>6. CASE FetchOk(s)
  <2>1. UNCHANGED <<pc, req, buf>>
    BY <1>6 DEF FetchOk, callVars
  <2>2. QED
    BY <1>0, <1>6, <2>1, FetchOkWants, WholeQuiet
<1>7. CASE Retry(s)
  <2>1. UNCHANGED <<pc, req, buf>> /\ At(s, "fetch2") /\ "fetch2" \in SlotPcs \ {"free", "exit"}
    BY <1>7 DEF Retry, callVars, SlotPcs
  <2>2. QED
    BY <1>0, <2>1, AtWants, WholeQuiet
<1>8. CASE GiveUp(s)
  <2>z. PICK ss : ss = Served(s, slot, "refused", 0)
    OBVIOUS
  <2>1. Fail(s, ss) /\ slot[s].pc \in {"fetch1", "fetch2"}
    BY <1>8, <2>z DEF GiveUp, FetchFails, Fetching
  <2>2. ss = [t \in Slot |-> ss[t]]
    BY <2>z DEF Served
  <2>3. \A t \in Slot : slot[t] \in SlotRecord
    BY <1>0, SlotFacts
  <2>4. \A t \in Slot : SameWant(slot[t], ss[t])
    BY <2>3, <2>z, ServedWants
  <2>5. Busy(slot[s])
    BY <2>1 DEF Busy
  <2>6. QED
    BY <1>0, <2>1, <2>2, <2>4, <2>5, FailWhole
<1>9. ASSUME Fail(s, slot), slot[s].pc \in {"wait", "served", "refused"}
      PROVE  WholeInv'
  <2>z. PICK ss : ss = slot
    OBVIOUS
  <2>1. Busy(slot[s]) /\ Fail(s, ss) /\ ss = [t \in Slot |-> ss[t]]
    BY <1>0, <1>9, <2>z DEF Busy
  <2>2. \A t \in Slot : SameWant(slot[t], ss[t])
    BY <2>z DEF SameWant
  <2>3. QED
    BY <1>0, <2>1, <2>2, FailWhole
<1>10. ASSUME Deliver(s, Slice(s, slot[s].n)), UNCHANGED njobs,
              slot[s].pc \in {"store", "served"}
       PROVE  WholeInv'
  <2>1. Busy(slot[s])
    BY <1>10 DEF Busy
  <2>2. QED
    BY <1>0, <1>10, <2>1, SliceType, DeliverWhole
<1>11. QED
  BY <1>2, <1>3, <1>4, <1>5, <1>6, <1>7, <1>8, <1>9, <1>10
     DEF SlotStep, Store, Wake, StopWaiting

(* Nothing is written at first,                                            *)
LEMMA WholeStarts == Init => WholeInv
BY DEF Init, WholeInv, CallerWhole

(* and every step keeps what is written whole.                             *)
LEMMA WholeStep ==
  ASSUME Unchunked
  PROVE  ReaderInv /\ WholeInv /\ [Next]_vars => WholeInv'
<1> SUFFICES ASSUME ReaderInv, WholeInv, [Next]_vars PROVE WholeInv'
  OBVIOUS
<1>1. CASE UNCHANGED vars
  BY <1>1, StillWants, WholeQuiet DEF vars
<1>2. CASE ClearReadCache
  BY <1>2, StillWants, WholeQuiet DEF ClearReadCache, callVars
<1>3. ASSUME NEW c \in Callers, Cancel(c) PROVE WholeInv'
  BY <1>3, StillWants, WholeQuiet DEF Cancel
<1>4. ASSUME NEW c \in Callers, CallStep(c) PROVE WholeInv'
  <2>1. ~Join(c)
    BY NotChunked DEF ReaderInv, Join
  <2>2. QED
    BY <1>4, <2>1, ReadRangeWhole DEF CallStep
<1>5. QED
  BY <1>1, <1>2, <1>3, <1>4, StartRequestWhole, SlotStepWhole DEF Next

(* What is between the ends of a parsed range is what its header wants.    *)
LEMMA RangeIsWanted ==
  ASSUME NEW h \in Request, ParseHTTPRange(h) # <<>>
  PROVE  ParseHTTPRange(h)[1]..(ParseHTTPRange(h)[2] - 1) = Wanted(h)
<1>0. h.first \in Nat /\ h.last \in Nat /\ h.form \in {"none", "suffix", "from", "span"}
  BY DEF Request
<1>1. CASE h.form = "none"
  <2>1. ParseHTTPRange(h) = <<0, Size>>
    BY <1>1 DEF ParseHTTPRange
  <2>2. QED
    BY <1>1, <2>1, Numbers DEF Wanted, Offset
<1>2. CASE h.form = "suffix"
  <2>1. h.last > 0 /\ ParseHTTPRange(h) = <<Size - Least(h.last, Size), Size>>
    BY <1>2 DEF ParseHTTPRange
  <2>2. QED
    BY <1>0, <1>2, <2>1, Numbers DEF Least, Wanted, Offset
<1>3. CASE h.form = "from"
  <2>1. h.first < Size /\ ParseHTTPRange(h) = <<h.first, Size>>
    BY <1>3 DEF ParseHTTPRange
  <2>2. QED
    BY <1>0, <1>3, <2>1, Numbers DEF Wanted, Offset
<1>4. CASE h.form = "span"
  <2>1. /\ h.first <= h.last /\ h.first < Size
        /\ ParseHTTPRange(h) = <<h.first, Least(h.last + 1, Size)>>
    BY <1>4 DEF ParseHTTPRange
  <2>2. QED
    BY <1>0, <1>4, <2>1, Numbers DEF Least, Wanted, Offset
<1>5. QED
  BY <1>0, <1>1, <1>2, <1>3, <1>4

(* With one worker, or pieces that are no longer than a chunk, a request   *)
(* that ends without an error got exactly the bytes its header asks for,   *)
(* through every mix of cached windows, shared flights, short windows and  *)
(* exact reads.  With chunks that need not be so: a worker takes the short *)
(* chunk of a shared flight for its own.                                   *)
THEOREM UnchunkedAnswersAreWhole ==
  ASSUME Unchunked
  PROVE  Spec => []AnswersWhole
<1>1. ReaderInv /\ WholeInv => AnswersWhole
  <2> SUFFICES ASSUME ReaderInv, WholeInv, NEW c \in Callers, pc[c] = "ok"
               PROVE  buf[c] = Wanted(req[c][1])
    BY DEF AnswersWhole
  <2>1. req[c] \in Request \X Nat \X Nat
    BY DEF ReaderInv, CallsInv
  <2>2. Upto(req[c], buf[c], req[c][2]) /\ req[c][2] = req[c][3]
    BY DEF WholeInv, CallerWhole
  <2>3. QED
    BY <2>1, <2>2, RangeIsWanted DEF Upto
<1>2. Init => WholeInv
  BY WholeStarts
<1>3. ReaderInv /\ WholeInv /\ [Next]_vars => WholeInv'
  BY WholeStep
<1>4. QED
  BY <1>1, <1>2, <1>3, ReaderInvariant, PTL DEF Spec

=============================================================================
