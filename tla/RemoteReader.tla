---------------------------- MODULE RemoteReader ----------------------------
(***************************************************************************)
(* The range reader (internal/remote/remote.go) under the playback proxy   *)
(* (internal/app/playback.go): HTTP range requests are served in pieces,   *)
(* each piece is one ReadRange, which reads an aligned window or, if it is *)
(* longer than a chunk, its chunks concurrently.  Windows and chunks that  *)
(* are being downloaded are shared through the inflight map, complete ones *)
(* through an LRU with a byte budget.                                      *)
(*                                                                         *)
(* Every section under Reader.mu is one action.  The file is one, its      *)
(* bytes are the offsets 0..Size-1, and a buffer is the set of offsets     *)
(* whose byte of the file has been copied into it.  The client and the     *)
(* download options are set before anything is read.                       *)
(***************************************************************************)
EXTENDS Lists, FiniteSets

CONSTANTS Callers,      \* goroutines serving HTTP requests
          Requests,     \* the Range headers they come with
          Size,         \* the size of the file
          Piece,        \* what playback reads at once
          Prefetch,     \* prefetchBytes
          ChunkSize,    \* r.chunkSize
          Concurrency,  \* r.concurrency
          CacheLimit,   \* r.cacheLimit
          Events,       \* which of the environment's events happen
          MaxRequests,  \* bound: requests ever served
          MaxGone       \* bound: callers whose client is gone, at once

(* A Range header: none, the last bytes ("bytes=-n"), those from an offset *)
(* on ("bytes=n-"), or a span ("bytes=n-m").                               *)
Request == [form : {"none", "suffix", "from", "span"}, first : Nat, last : Nat]
Slot == Callers \X (1..Concurrency)
NoSlot == <<>>

ASSUME RemoteAssumption ==
  /\ IsFiniteSet(Callers)
  /\ {Size, Piece, Prefetch, ChunkSize, Concurrency} \subseteq Nat \ {0}
  /\ CacheLimit \in Nat
  /\ MaxRequests \in Nat
  /\ MaxGone \in Nat
  /\ Requests \subseteq Request
  /\ Events \subseteq {"fail", "cancel", "clear"}

VARIABLES
  cached,    \* r.cached: offset -> length of the window cached there, or 0
  order,     \* r.cacheOrder
  bytes,     \* r.cacheBytes
  inflight,  \* r.inflight: offset -> the slot that downloads there, or NoSlot
  pc, req,   \* callers: where they are; their header, the offset they have
             \* come to and the end of the range, excluded
  buf,       \* what has been written to the response so far
  njobs,     \* chunks readConcurrent has handed to its workers
  failed,    \* callers whose readConcurrent has a firstErr
  gone,      \* callers whose context is cancelled
  slot,      \* the reads of a window or chunk that are under way
  nreqs      \* the number of requests started, for the bound MaxRequests

cacheVars == <<cached, order, bytes>>
callVars == <<pc, req, buf, njobs, failed, gone, nreqs>>
vars == <<cached, order, bytes, inflight, pc, req, buf, njobs, failed,
          gone, slot, nreqs>>

Offset == 0..(Size - 1)
NoHeader == [form |-> "none", first |-> 0, last |-> 0]

Least(a, b) == IF a < b THEN a ELSE b
Most(a, b) == IF a > b THEN a ELSE b
Range0(a, n) == a..(a + n - 1)

(* A read that is under way: of a window, a chunk or an exact range, to be *)
(* downloaded at key, wanted at off.  An inflightRead is identified by the *)
(* slot that owns it; closing its done channel hands the outcome, n bytes  *)
(* or an error, to the slots that wait for it.                             *)
FreeSlot == [pc |-> "free", kind |-> "window", key |-> 0, off |-> 0, len |-> 0,
             fetch |-> 0, owner |-> NoSlot, n |-> 0]

SlotPcs == {"free", "lookup", "peek", "begin", "wait", "fetch1", "fetch2",
            "store", "served", "refused", "exit"}

Init ==
  /\ cached = [k \in Offset |-> 0]
  /\ order = <<>>
  /\ bytes = 0
  /\ inflight = [k \in Offset |-> NoSlot]
  /\ pc = [c \in Callers |-> "idle"]
  /\ req = [c \in Callers |-> <<NoHeader, 0, 0>>]
  /\ buf = [c \in Callers |-> {}]
  /\ njobs = [c \in Callers |-> 0]
  /\ failed = {} /\ gone = {}
  /\ slot = [s \in Slot |-> FreeSlot]
  /\ nreqs = 0

-----------------------------------------------------------------------------
(* The cache of windows                                                    *)

(* readCachedLocked: the windows that hold the whole range.                *)
Hits(off, len) ==
  {k \in Offset : /\ cached[k] > 0
                  /\ k <= off
                  /\ off + len <= k + cached[k]}

Touch(k) == order' = Append(Without(order, {k}), k) /\ UNCHANGED <<cached, bytes>>

UnlistedNot(k) == order  \* mutant: a replaced window stays in the order

Unlisted(k) == Without(order, {k})

(* storeCachedLocked: the window is listed as the newest one and the       *)
(* oldest ones go until the budget is kept.                                *)
StoreCached(k, n) ==
  IF n = 0 \/ n > CacheLimit THEN UNCHANGED cacheVars
  ELSE LET s == Append(Unlisted(k), k)
           lens == [cached EXCEPT ![k] = n]
           total == bytes - cached[k] + n
           x == Excess(lens, s, total, CacheLimit)
       IN  /\ order' = Drop(s, x)
           /\ bytes' = total - Total(lens, Front(s, x))
           /\ cached' = [j \in Offset |-> IF j \in Elems(Front(s, x)) THEN 0 ELSE lens[j]]

(* ClearReadCache, called when the stream manager is idle: downloads that  *)
(* are under way stay registered.                                          *)
ClearReadCache ==
  /\ "clear" \in Events
  /\ cached' = [k \in Offset |-> 0]
  /\ order' = <<>>
  /\ bytes' = 0
  /\ UNCHANGED <<inflight, callVars, slot>>

-----------------------------------------------------------------------------
(* A request and its pieces                                                *)

(* The piece writePlaybackRange reads next.                                *)
PieceOff(c) == req[c][2]
PieceLen(c) == Least(Piece, req[c][3] - req[c][2])

Chunked(c) == Concurrency > 1 /\ PieceLen(c) > ChunkSize
NChunks(c) == (PieceLen(c) + ChunkSize - 1) \div ChunkSize

(* The window readSequential reads for a range.                            *)
WindowLen(len) == Most(len, Most(Prefetch, ChunkSize))
WindowOff(off, len) == (off \div WindowLen(len)) * WindowLen(len)

Window(off, len) ==
  [FreeSlot EXCEPT !.pc = "lookup", !.kind = "window", !.off = off, !.len = len,
                   !.key = WindowOff(off, len), !.fetch = WindowLen(len)]
Exact(kind, off, len) ==
  [FreeSlot EXCEPT !.pc = "lookup", !.kind = kind, !.off = off, !.len = len,
                   !.key = off, !.fetch = len]

(* The next piece, or the end of the request.                              *)
PieceDone(c) ==
  LET next == PieceOff(c) + PieceLen(c) IN
  /\ req' = [req EXCEPT ![c][2] = next]
  /\ pc' = [pc EXCEPT ![c] = IF next = req[c][3] THEN "ok" ELSE "cache"]

(* parseHTTPRange: the range of a header, its end excluded and cut off at  *)
(* the end of the file.  One that is malformed (status 400) or begins      *)
(* behind the file (416) has none.                                         *)
ParseHTTPRange(h) ==
  CASE h.form = "none" -> <<0, Size>>
    [] h.form = "suffix" /\ h.last > 0 -> <<Size - Least(h.last, Size), Size>>
    [] h.form = "from" /\ h.first < Size -> <<h.first, Size>>
    [] h.form = "span" /\ h.first <= h.last /\ h.first < Size ->
         <<h.first, Least(h.last + 1, Size)>>
    [] OTHER -> <<>>

(* A GET request, whose range is served piece by piece, or refused.  Other *)
(* methods are answered without reading.                                   *)
StartRequest(c, h) ==
  LET range == ParseHTTPRange(h) IN
  /\ pc[c] \in {"idle", "ok", "err"}
  /\ nreqs < MaxRequests
  /\ nreqs' = nreqs + 1
  /\ \/ /\ range # <<>>
        /\ pc' = [pc EXCEPT ![c] = "cache"]
        /\ req' = [req EXCEPT ![c] = <<h, range[1], range[2]>>]
     \/ /\ range = <<>>
        /\ pc' = [pc EXCEPT ![c] = "err"]
        /\ UNCHANGED req
  /\ buf' = [buf EXCEPT ![c] = {}]
  /\ gone' = gone \ {c}
  /\ UNCHANGED <<cacheVars, inflight, njobs, failed, slot>>

(* ReadRange of a piece: the cache has it, or readWithOptions begins.  A   *)
(* download link that cannot be had fails the request before that.         *)
ReadRange(c) ==
  LET off == PieceOff(c)
      len == PieceLen(c)
  IN
  /\ pc[c] = "cache"
  /\ \/ /\ \E k \in Hits(off, len) : Touch(k)
        /\ buf' = [buf EXCEPT ![c] = @ \cup Range0(off, len)]
        /\ PieceDone(c)
        /\ UNCHANGED slot
     \/ /\ Hits(off, len) = {}
        /\ pc' = [pc EXCEPT ![c] = "read"]
        /\ slot' = IF Chunked(c) THEN slot
                   ELSE [slot EXCEPT ![<<c, 1>>] = Window(off, len)]
        /\ UNCHANGED <<cacheVars, req, buf>>
     \/ /\ "fail" \in Events
        /\ pc' = [pc EXCEPT ![c] = "err"]
        /\ UNCHANGED <<cacheVars, req, buf, slot>>
  /\ UNCHANGED <<inflight, njobs, failed, gone, nreqs>>

(* The client goes away: r.Context() is cancelled.  Nothing looks at it    *)
(* before the piece is being read.                                         *)
Cancel(c) ==
  /\ "cancel" \in Events
  /\ pc[c] = "read"
  /\ c \notin gone
  /\ Cardinality(gone) < MaxGone
  /\ gone' = gone \cup {c}
  /\ UNCHANGED <<cacheVars, inflight, pc, req, buf, njobs, failed, slot, nreqs>>

-----------------------------------------------------------------------------
(* readConcurrent: workers take the chunks in order                        *)

(* Its context is cancelled with the caller's or by its first error.       *)
CtxDone(s) == s[1] \in gone \/ (slot[s].kind = "chunk" /\ s[1] \in failed)

TakeJob(s) ==
  LET c == s[1]
      begin == njobs[c] * ChunkSize
  IN
  /\ pc[c] = "read"
  /\ Chunked(c)
  /\ s[2] <= NChunks(c)
  /\ slot[s].pc = "free"
  /\ njobs[c] < NChunks(c)
  /\ njobs' = [njobs EXCEPT ![c] = @ + 1]
  /\ slot' = [slot EXCEPT ![s] =
                Exact("chunk", PieceOff(c) + begin,
                      Least(ChunkSize, PieceLen(c) - begin))]
  /\ UNCHANGED <<cacheVars, inflight, pc, req, buf, failed, gone, nreqs>>

(* A worker without a job ends when the context is done.                   *)
StopWorker(s) ==
  /\ pc[s[1]] = "read"
  /\ Chunked(s[1])
  /\ slot[s].pc = "free"
  /\ s[1] \in failed \cup gone
  /\ slot' = [slot EXCEPT ![s].pc = "exit"]
  /\ UNCHANGED <<cacheVars, inflight, callVars>>

(* Mutant: the loop that hands out the jobs does not watch the context.    *)
AllHandedOut(c) == njobs[c] = NChunks(c)

(* The loop that hands out the jobs ends.                                  *)
HandedOut(c) == njobs[c] = NChunks(c) \/ c \in failed \cup gone

(* wg.Wait returns once every worker has ended, for want of jobs or after  *)
(* an error or a cancellation.                                             *)
Join(c) ==
  /\ pc[c] = "read"
  /\ Chunked(c)
  /\ \A s \in Slot : s[1] = c => slot[s].pc \in {"free", "exit"}
  /\ HandedOut(c)
  /\ IF c \in failed \cup gone
     THEN pc' = [pc EXCEPT ![c] = "err"] /\ UNCHANGED req
     ELSE PieceDone(c)
  /\ njobs' = [njobs EXCEPT ![c] = 0]
  /\ failed' = failed \ {c}
  /\ slot' = [s \in Slot |-> IF s[1] = c THEN FreeSlot ELSE slot[s]]
  /\ UNCHANGED <<cacheVars, inflight, buf, gone, nreqs>>

-----------------------------------------------------------------------------
(* readSequential, readChunk and ReadExactRange: one window or chunk       *)

At(s, p) == slot' = [slot EXCEPT ![s].pc = p]

(* sliceForWindow: how much of the range is in a window of n bytes.        *)
Slice(s, n) ==
  LET start == slot[s].off - slot[s].key IN
  IF start >= n THEN 0 ELSE Least(slot[s].len, n - start)

WholeAnyway(s, g) == TRUE  \* mutant: a short piece is returned as it is

(* A worker takes whatever it gets, ReadRange looks at the length.         *)
Whole(s, g) == slot[s].kind = "chunk" \/ g = slot[s].len

(* The read returns g bytes.  A worker copies them into its part of the    *)
(* buffer, whatever g is; ReadRange completes a short piece with an exact  *)
(* read of what is missing.                                                *)
Deliver(s, g) ==
  LET c == s[1] IN
  /\ buf' = [buf EXCEPT ![c] = @ \cup Range0(slot[s].off, g)]
  /\ slot' = [slot EXCEPT ![s] =
                IF Whole(s, g) THEN FreeSlot
                ELSE Exact("exact", slot[s].off + g, slot[s].len - g)]
  /\ IF Whole(s, g) /\ slot[s].kind # "chunk" THEN PieceDone(c)
     ELSE UNCHANGED <<pc, req>>
  /\ UNCHANGED failed

(* The read fails: a worker ends and cancels the others.                   *)
Fail(s, ss) ==
  /\ IF slot[s].kind = "chunk"
     THEN /\ failed' = failed \cup {s[1]}
          /\ slot' = [ss EXCEPT ![s] = [FreeSlot EXCEPT !.pc = "exit"]]
          /\ UNCHANGED pc
     ELSE /\ pc' = [pc EXCEPT ![s[1]] = "err"]
          /\ slot' = [ss EXCEPT ![s] = FreeSlot]
          /\ UNCHANGED failed
  /\ UNCHANGED <<req, buf>>

Lookup(s) ==
  LET hits == Hits(slot[s].off, slot[s].len) IN
  /\ slot[s].pc = "lookup"
  /\ \/ \E k \in hits : Touch(k) /\ Deliver(s, slot[s].len)
     \/ /\ hits = {}
        /\ At(s, IF slot[s].kind = "exact" THEN "fetch1" ELSE "peek")
        /\ UNCHANGED <<cacheVars, pc, req, buf, failed>>
  /\ UNCHANGED <<inflight, njobs, gone, nreqs>>

(* waitInflight joins a download that is registered.                       *)
WaitInflight(s) ==
  LET x == inflight[slot[s].key] IN
  /\ slot[s].pc = "peek"
  /\ IF x = NoSlot THEN At(s, "begin")
     ELSE slot' = [slot EXCEPT ![s].pc = "wait", ![s].owner = x]
  /\ UNCHANGED <<cacheVars, inflight, callVars>>

(* Mutant: beginInflight does not look again.                              *)
BeginInflightUnchecked(s) ==
  /\ slot[s].pc = "begin"
  /\ inflight' = [inflight EXCEPT ![slot[s].key] = s]
  /\ At(s, "fetch1")
  /\ UNCHANGED <<cacheVars, callVars>>

(* beginInflight looks again and registers the download.                   *)
BeginInflight(s) ==
  LET x == inflight[slot[s].key] IN
  /\ slot[s].pc = "begin"
  /\ \/ /\ x = NoSlot
        /\ inflight' = [inflight EXCEPT ![slot[s].key] = s]
        /\ At(s, "fetch1")
     \/ /\ x # NoSlot
        /\ slot' = [slot EXCEPT ![s].pc = "wait", ![s].owner = x]
        /\ UNCHANGED inflight
  /\ UNCHANGED <<cacheVars, callVars>>

(* finishInflight: the registration goes, if it is this one, and the       *)
(* waiters, in the slots ss, see the outcome.                              *)
Unregistered(s) ==
  [k \in Offset |-> IF inflight[k] = s THEN NoSlot ELSE inflight[k]]

Served(s, ss, p, n) ==
  [t \in Slot |-> IF ss[t].pc = "wait" /\ ss[t].owner = s
                  THEN [ss[t] EXCEPT !.pc = p, !.n = n, !.owner = NoSlot]
                  ELSE ss[t]]

(* What client.ReadRange returns: less than asked for at the end of the    *)
(* file, which only a window accepts.                                      *)
Fetched(s) == Least(slot[s].fetch, Size - slot[s].key)
Accepted(s) == slot[s].kind = "window" \/ Fetched(s) = slot[s].fetch

Fetching(s) == slot[s].pc \in {"fetch1", "fetch2"}

FetchOk(s) ==
  /\ Fetching(s)
  /\ Accepted(s)
  /\ inflight' = Unregistered(s)
  /\ slot' = Served(s, [slot EXCEPT ![s].pc = "store", ![s].n = Fetched(s)],
                    "served", Fetched(s))
  /\ UNCHANGED <<cacheVars, callVars>>

FetchFails(s) == Fetching(s) /\ ("fail" \in Events \/ CtxDone(s) \/ ~Accepted(s))

(* The first error is retried unless the context is done.                  *)
Retry(s) ==
  /\ FetchFails(s)
  /\ slot[s].pc = "fetch1"
  /\ ~CtxDone(s)
  /\ At(s, "fetch2")
  /\ UNCHANGED <<cacheVars, inflight, callVars>>

(* Mutant: a cancelled owner leaves without finishing its flight.          *)
GiveUpSilently(s) ==
  /\ FetchFails(s)
  /\ slot[s].pc = "fetch2" \/ CtxDone(s)
  /\ Fail(s, slot)
  /\ UNCHANGED <<cacheVars, inflight, njobs, gone, nreqs>>

GiveUp(s) ==
  /\ FetchFails(s)
  /\ slot[s].pc = "fetch2" \/ CtxDone(s)
  /\ inflight' = Unregistered(s)
  /\ Fail(s, Served(s, slot, "refused", 0))
  /\ UNCHANGED <<cacheVars, njobs, gone, nreqs>>

Store(s) ==
  /\ slot[s].pc = "store"
  /\ StoreCached(slot[s].key, slot[s].n)
  /\ Deliver(s, Slice(s, slot[s].n))
  /\ UNCHANGED <<inflight, njobs, gone, nreqs>>

(* A waiter gets what the owner got, data or error.                        *)
Wake(s) ==
  /\ \/ slot[s].pc = "served" /\ Deliver(s, Slice(s, slot[s].n))
     \/ slot[s].pc = "refused" /\ Fail(s, slot)
  /\ UNCHANGED <<cacheVars, inflight, njobs, gone, nreqs>>

StopWaiting(s) ==
  /\ slot[s].pc \in {"wait", "served", "refused"}
  /\ CtxDone(s)
  /\ Fail(s, slot)
  /\ UNCHANGED <<cacheVars, inflight, njobs, gone, nreqs>>

-----------------------------------------------------------------------------
SlotStep(s) ==
  \/ TakeJob(s) \/ StopWorker(s) \/ Lookup(s) \/ WaitInflight(s) \/ BeginInflight(s)
  \/ FetchOk(s) \/ Retry(s) \/ GiveUp(s) \/ Store(s)
  \/ Wake(s) \/ StopWaiting(s)

CallStep(c) == ReadRange(c) \/ Join(c)

Next ==
  \/ \E c \in Callers :
       CallStep(c) \/ Cancel(c) \/ \E h \in Requests : StartRequest(c, h)
  \/ \E s \in Slot : SlotStep(s)
  \/ ClearReadCache

Spec == Init /\ [][Next]_vars

(* Some goroutine of a request that can run does run, and a download ends: *)
(* its context has a timeout.                                              *)
Fairness ==
  \A c \in Callers :
    WF_vars(CallStep(c) \/ \E i \in 1..Concurrency : SlotStep(<<c, i>>))

FairSpec == Spec /\ Fairness

-----------------------------------------------------------------------------
(* Properties                                                              *)

(* cached, cacheOrder and cacheBytes agree, and the budget is kept: every  *)
(* window is listed once, so that eviction finds it, and counted once.     *)
CacheAccounted ==
  /\ Distinct(order)
  /\ \A k \in Offset : cached[k] > 0 <=> k \in Elems(order)
  /\ bytes = Total(cached, order)
  /\ bytes <= CacheLimit

(* Whoever is registered in the inflight map is downloading there, and so  *)
(* is the owner a reader waits for: owners that fail or are cancelled      *)
(* leave neither a stale registration nor a stranded waiter behind.        *)
InflightOwned ==
  /\ \A k \in Offset : inflight[k] # NoSlot =>
       Fetching(inflight[k]) /\ slot[inflight[k]].key = k
  /\ \A s \in Slot : slot[s].pc = "wait" =>
       Fetching(slot[s].owner) /\ slot[slot[s].owner].key = slot[s].key

(* The same window or chunk is never downloaded twice at the same time.    *)
OneDownload ==
  \A s, t \in Slot :
    /\ Fetching(s) /\ Fetching(t)
    /\ slot[s].kind # "exact" /\ slot[t].kind # "exact"
    /\ slot[s].key = slot[t].key
    => s = t

(* The bytes of the file a header asks for.                                *)
Wanted(h) ==
  {b \in Offset : \/ h.form = "none"
                  \/ h.form = "suffix" /\ b >= Size - h.last
                  \/ h.form \in {"from", "span"} /\ b >= h.first
                     /\ (h.form = "span" => b <= h.last)}

(* A request that is answered without an error got exactly the bytes its   *)
(* Range header asks for (parseHTTPRange, writePlaybackRange, ReadRange),  *)
(* through whatever mix of cached windows, shared flights and short        *)
(* windows.                                                                *)
AnswersWhole ==
  \A c \in Callers : pc[c] = "ok" => buf[c] = Wanted(req[c][1])

(* Every request ends, with an answer or an error.                         *)
RequestEnds ==
  \A c \in Callers : pc[c] \in {"cache", "read"} ~> pc[c] \in {"ok", "err"}
=============================================================================
